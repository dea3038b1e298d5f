------------------------------ MODULE ApiAccess ------------------------------
(***************************************************************************)
(* Authenticated API calls on their way through the middleware chain: the  *)
(* API token or the JWT session, the sliding-window rate limit kept in     *)
(* api_rate_limit_log, and the handlers that create and revoke API tokens. *)
(*                                                                         *)
(* Every database call of a Call is a step.  Under READ COMMITTED the      *)
(* statement that inserts a log row and counts the log counts a snapshot:  *)
(* neither its own row nor one another call has not committed.  Such a     *)
(* statement is two steps here, the count and the commit of the row.       *)
(***************************************************************************)
EXTENDS Integers, Sequences, FiniteSets

CONSTANTS
    User,
    NoUser,
    Address,        \* client addresses, as RealIPMiddleware leaves them
    Call,           \* handler goroutines
    NoCall,
    TokenId,        \* api_tokens rows
    UserLimit,      \* calls per window of a user, by role
    IpLimit,        \* rows per window of an address
    MaxTokens,      \* active tokens of a user
    MaxRows         \* bound: log rows in the window

ASSUME AccessAssumption ==
    /\ NoUser \notin User /\ NoCall \notin Call
    /\ UserLimit \in [User -> Nat]
    /\ IpLimit \in Nat
    /\ MaxTokens \in Nat \ {0}
    /\ IsFiniteSet(Call)
    /\ IsFiniteSet(TokenId)

VARIABLES
    owner,      \* api_tokens: whose an active token is, NoUser if it is not
                \* there, is revoked or has expired
    log,        \* api_rate_limit_log, the rows in the window, oldest first
    call        \* per goroutine, its step, what it does and what it counted

accessVars == <<owner, log, call>>

\* user: NoUser in the row of the address's check.  by and admitted are not in
\* the table: the call that put the row there, until it is decided, and whether
\* it was let through.
LogRow == [user : User \cup {NoUser}, ip : Address,
           by : Call \cup {NoCall}, admitted : BOOLEAN]

CallPc == {"idle", "user", "userRow", "ip", "ipRow", "serve", "create"}

\* session: the caller has a JWT, not an API token.
CallRecord == [pc : CallPc, session : BOOLEAN, user : User, ip : Address,
               userOk : BOOLEAN, ipOk : BOOLEAN]

-----------------------------------------------------------------------------
(* Repositories *)

Active(u) == {t \in TokenId : owner[t] = u}

\* CountActiveByUserID.
CountActiveByUserID(u) == Cardinality(Active(u))

\* The rows the two counts of RateLimitRepository are about.  Middleware passes
\* no token id, so the first counts by user only.
RowsOf(u) == {n \in DOMAIN log : log[n].user = u}
RowsFrom(i) == {n \in DOMAIN log : log[n].ip = i}

UserRow(u, i, c) == [user |-> u, ip |-> i, by |-> c, admitted |-> FALSE]
IpRow(i) == [user |-> NoUser, ip |-> i, by |-> NoCall, admitted |-> FALSE]

-----------------------------------------------------------------------------
(* Middleware: who calls *)

CallAt(c, pc) == call[c].pc = pc
CallGoTo(c, pc) == call' = [call EXCEPT ![c].pc = pc]
Return(c) == call' = [call EXCEPT ![c] =
    [@ EXCEPT !.pc = "idle", !.session = FALSE, !.userOk = FALSE, !.ipOk = FALSE]]

Arrive(c, u, i, session) ==
    /\ CallAt(c, "idle")
    /\ call' = [call EXCEPT ![c] =
                  [pc |-> "user", session |-> session, user |-> u, ip |-> i,
                   userOk |-> FALSE, ipOk |-> FALSE]]
    /\ UNCHANGED <<owner, log>>

\* ValidateToken: the row is there, not revoked and not expired.
ValidateToken(t) == owner[t] # NoUser

\* APITokenMiddleware.Wrap: an active token and its owner, who is not disabled.
ByToken(c, t, i) ==
    /\ ValidateToken(t)
    /\ Arrive(c, owner[t], i, FALSE)

\* AuthMiddleware.Wrap: a JWT that has not expired.
BySession(c, u, i) == Arrive(c, u, i, TRUE)

-----------------------------------------------------------------------------
(* APIRateLimiter.Check *)

\* Mutant: one more than the limit.
CountUserOneMore(c) ==
    LET u == call[c].user
    IN  /\ CallAt(c, "user")
        /\ call' = [call EXCEPT ![c].userOk =
                      Cardinality(RowsOf(u)) <= UserLimit[u] + 1,
                                ![c].pc = "userRow"]
        /\ UNCHANGED <<owner, log>>

\* CheckAndIncrement: the snapshot, then its row.
CountUser(c) ==
    LET u == call[c].user
    IN  /\ CallAt(c, "user")
        /\ call' = [call EXCEPT ![c].userOk =
                      Cardinality(RowsOf(u)) <= UserLimit[u],
                                ![c].pc = "userRow"]
        /\ UNCHANGED <<owner, log>>

InsertUserRow(c) ==
    /\ CallAt(c, "userRow")
    /\ Len(log) < MaxRows
    /\ log' = Append(log, UserRow(call[c].user, call[c].ip, c))
    /\ CallGoTo(c, "ip")
    /\ UNCHANGED owner

\* CheckIPAndIncrement, likewise.
CountIp(c) ==
    /\ CallAt(c, "ip")
    /\ call' = [call EXCEPT ![c].ipOk =
                  Cardinality(RowsFrom(call[c].ip)) <= IpLimit,
                            ![c].pc = "ipRow"]
    /\ UNCHANGED <<owner, log>>

\* The log once c's row, if it is still in the window, says what became of c.
Marked(c, admitted) ==
    [n \in DOMAIN log |-> IF log[n].by = c
        THEN [log[n] EXCEPT !.by = NoCall, !.admitted = admitted] ELSE log[n]]

\* What Check returns: both counts are within their limits.
Allowed(c) == call[c].userOk /\ call[c].ipOk

\* RateLimitMiddleware.Wrap: the call goes on to its handler, or is answered 429.
Decide(c) ==
    /\ CallAt(c, "ipRow")
    /\ Len(log) < MaxRows
    /\ log' = Append(Marked(c, Allowed(c)), IpRow(call[c].ip))
    /\ IF Allowed(c) THEN CallGoTo(c, "serve") ELSE Return(c)
    /\ UNCHANGED owner

\* Either statement fails: the call is let through.
CheckFails(c) ==
    /\ call[c].pc \in {"user", "ip"}
    /\ log' = Marked(c, FALSE)
    /\ CallGoTo(c, "serve")
    /\ UNCHANGED owner

-----------------------------------------------------------------------------
(* Handlers *)

\* Any handler that leaves the tokens alone.
Serve(c) ==
    /\ CallAt(c, "serve")
    /\ Return(c)
    /\ UNCHANGED <<owner, log>>

\* requireJWTSession: an API token manages no tokens.
RequireJWTSession(c) == CallAt(c, "serve") /\ call[c].session

\* Mutant: a token over the maximum is noticed only by the next one.
CheckQuotaLate(c) ==
    IF CountActiveByUserID(call[c].user) > MaxTokens
    THEN Return(c) ELSE CallGoTo(c, "create")

\* CreateToken up to the count.
CheckQuota(c) ==
    IF CountActiveByUserID(call[c].user) >= MaxTokens
    THEN Return(c) ELSE CallGoTo(c, "create")

\* CreateAPIToken: a body that is no label is refused.
CreateAPIToken(c) ==
    /\ RequireJWTSession(c)
    /\ \/ Return(c)
       \/ CheckQuota(c)
    /\ UNCHANGED <<owner, log>>

\* APITokenRepository.Create, under a fresh id.
InsertToken(u) ==
    \E t \in TokenId : owner[t] = NoUser /\ owner' = [owner EXCEPT ![t] = u]

\* The rest of CreateToken: the row, or an error of the database.
CreateToken(c) ==
    /\ CallAt(c, "create")
    /\ InsertToken(call[c].user) \/ UNCHANGED owner
    /\ Return(c)
    /\ UNCHANGED log

\* APITokenRepository.Revoke: a row of the caller's, revoked once; another's,
\* or none, is ErrTokenNotFound.
Revoke(t, u) ==
    owner' = IF owner[t] = u THEN [owner EXCEPT ![t] = NoUser] ELSE owner

\* RevokeAPIToken, RevokeToken: an id of the caller's choice.
RevokeToken(c) ==
    /\ RequireJWTSession(c)
    /\ \E t \in TokenId : Revoke(t, call[c].user)
    /\ Return(c)
    /\ UNCHANGED log

-----------------------------------------------------------------------------
(* Time *)

TokenExpires(t) ==
    /\ owner[t] # NoUser
    /\ owner' = [owner EXCEPT ![t] = NoUser]
    /\ UNCHANGED <<log, call>>

\* The oldest row leaves the window; StartPruner deletes it some time after.
RowExpires ==
    /\ log # << >>
    /\ log' = Tail(log)
    /\ UNCHANGED <<owner, call>>

-----------------------------------------------------------------------------
AccessInit ==
    /\ owner = [t \in TokenId |-> NoUser]
    /\ log = << >>
    /\ call \in [Call -> [pc : {"idle"}, session : {FALSE}, user : User,
                          ip : Address, userOk : {FALSE}, ipOk : {FALSE}]]

CallStep(c) ==
    \/ \E t \in TokenId, i \in Address : ByToken(c, t, i)
    \/ \E u \in User, i \in Address : BySession(c, u, i)
    \/ CountUser(c)
    \/ InsertUserRow(c)
    \/ CountIp(c)
    \/ Decide(c)
    \/ CheckFails(c)
    \/ Serve(c)
    \/ CreateAPIToken(c)
    \/ CreateToken(c)
    \/ RevokeToken(c)

AccessNext ==
    \/ \E c \in Call : CallStep(c)
    \/ \E t \in TokenId : TokenExpires(t)
    \/ RowExpires

AccessSpec == AccessInit /\ [][AccessNext]_accessVars

-----------------------------------------------------------------------------
(* Properties *)

AccessTypeOK ==
    /\ owner \in [TokenId -> User \cup {NoUser}]
    /\ log \in Seq(LogRow)
    /\ call \in [Call -> CallRecord]

\* Property: a user's active tokens exceed the maximum by no more than the calls
\* that run at once, although CreateToken counts and inserts in two statements.
TokenQuota ==
    \A u \in User :
        CountActiveByUserID(u) <= MaxTokens + Cardinality(Call) - 1

\* Property: the calls of a user that the limiter let through within one window
\* exceed its limit by no more than the calls that run at once, although the
\* count of a statement sees neither its own row nor the ones in flight.  (A
\* call let through because the database failed is not the limiter's.)
ApiBudget ==
    \A u \in User :
        Cardinality({n \in RowsOf(u) : log[n].admitted})
            <= UserLimit[u] + Cardinality(Call)
=============================================================================
