-------------------------- MODULE AccessLimitsProofs --------------------------
(***************************************************************************)
(* The login limiter's bounds and the two quotas of ApiAccess, for every   *)
(* number of users, addresses, logins, calls, tokens, limits and rows:     *)
(* what checking and acting in separate steps can cost is one unit per     *)
(* login or call that runs at once, and no more.                           *)
(*                                                                         *)
(* The proofs count what there is together with what has been promised:    *)
(* the failures recorded and the logins that have passed the check, the    *)
(* tokens that exist and the calls that have passed the count of them, the *)
(* rows of admitted calls and the calls that may still be admitted.        *)
(***************************************************************************)
EXTENDS LoginLimiter, ApiAccess, FiniteSetTheorems, SequenceTheorems, TLAPS

-----------------------------------------------------------------------------
(* API tokens and calls *)

\* Calls of u past the count of tokens and before the insert.
Creating(u) == {c \in Call : call[c].pc = "create" /\ call[c].user = u}

\* Calls of u whose count of rows was within the limit and that are undecided.
Passing(u) == {c \in Call : /\ call[c].pc \in {"userRow", "ip", "ipRow"}
                            /\ call[c].userOk
                            /\ call[c].user = u}

Admitted(u) == {n \in RowsOf(u) : log[n].admitted}

\* A row that names a call is that call's only one, of its user, and undecided.
RowsPending ==
    /\ \A n \in DOMAIN log : log[n].by \in Call =>
          /\ ~log[n].admitted
          /\ log[n].user = call[log[n].by].user
          /\ call[log[n].by].pc \in {"ip", "ipRow"}
    /\ \A m, n \in DOMAIN log :
          log[m].by \in Call /\ log[m].by = log[n].by => m = n

TokenBudget ==
    \A u \in User : Cardinality(Active(u)) + Cardinality(Creating(u))
                        <= MaxTokens + Cardinality(Call) - 1

CallBudget ==
    \A u \in User : Cardinality(Admitted(u)) + Cardinality(Passing(u))
                        <= UserLimit[u] + Cardinality(Call)

AccessInv == AccessTypeOK /\ RowsPending /\ TokenBudget /\ CallBudget

-----------------------------------------------------------------------------
(* Sets of calls, tokens and rows *)

\* A set of calls or of tokens is finite, and no larger than the whole.
LEMMA CallsCounted ==
    ASSUME NEW S \in SUBSET Call
    PROVE  /\ IsFiniteSet(S) /\ Cardinality(S) \in Nat
           /\ Cardinality(S) <= Cardinality(Call) /\ Cardinality(Call) \in Nat
BY AccessAssumption, FS_Subset, FS_CardinalityType

LEMMA TokensCounted ==
    ASSUME NEW S \in SUBSET TokenId
    PROVE  IsFiniteSet(S) /\ Cardinality(S) \in Nat
BY AccessAssumption, FS_Subset, FS_CardinalityType

LEMMA RowsCounted ==
    ASSUME log \in Seq(LogRow), NEW S \in SUBSET DOMAIN log
    PROVE  IsFiniteSet(S) /\ Cardinality(S) \in Nat
<1>1. DOMAIN log = 1..Len(log) /\ Len(log) \in Nat
  OBVIOUS
<1>2. IsFiniteSet(DOMAIN log)
  BY <1>1, FS_Interval
<1> QED
  BY <1>2, FS_Subset, FS_CardinalityType

\* Fewer elements, a smaller count.
LEMMA FewerCounted ==
    ASSUME NEW S, IsFiniteSet(S), NEW T \in SUBSET S
    PROVE  Cardinality(T) \in Nat /\ Cardinality(T) <= Cardinality(S)
BY FS_Subset, FS_CardinalityType

-----------------------------------------------------------------------------
(* What a step does to the calls *)

\* Sets of calls and budgets see a call only through these fields.
SameCall(c) ==
    /\ call'[c].user = call[c].user
    /\ call'[c].userOk = call[c].userOk
    /\ call'[c].pc = call[c].pc

\* The fields of a call, one at a time.
LEMMA SetPc ==
    ASSUME NEW r \in CallRecord, NEW pc \in CallPc
    PROVE  /\ [r EXCEPT !.pc = pc] \in CallRecord
           /\ [r EXCEPT !.pc = pc].pc = pc
           /\ [r EXCEPT !.pc = pc].user = r.user
           /\ [r EXCEPT !.pc = pc].userOk = r.userOk
BY DEF CallRecord

LEMMA SetFlag ==
    ASSUME NEW r \in CallRecord, NEW b \in BOOLEAN
    PROVE  /\ [r EXCEPT !.session = b] \in CallRecord
           /\ [r EXCEPT !.userOk = b] \in CallRecord
           /\ [r EXCEPT !.ipOk = b] \in CallRecord
BY DEF CallRecord

LEMMA FlagFrame ==
    ASSUME NEW r \in CallRecord, NEW b \in BOOLEAN
    PROVE  /\ [r EXCEPT !.session = b].pc = r.pc
           /\ [r EXCEPT !.userOk = b].pc = r.pc
           /\ [r EXCEPT !.ipOk = b].pc = r.pc
           /\ [r EXCEPT !.ipOk = b].user = r.user
           /\ [r EXCEPT !.ipOk = b].userOk = r.userOk
           /\ [r EXCEPT !.userOk = b].user = r.user
           /\ [r EXCEPT !.userOk = b].userOk = b
BY DEF CallRecord

\* A step replaces the record of one call.
LEMMA CallChange ==
    ASSUME AccessTypeOK, NEW c \in Call, NEW r \in CallRecord,
           call' = [call EXCEPT ![c] = r]
    PROVE  /\ call' \in [Call -> CallRecord]
           /\ call'[c] = r
           /\ \A d \in Call : d # c => SameCall(d)
BY DEF AccessTypeOK, SameCall

LEMMA GoToStep ==
    ASSUME AccessTypeOK, NEW c \in Call, NEW pc \in CallPc, CallGoTo(c, pc)
    PROVE  /\ call' \in [Call -> CallRecord]
           /\ call'[c].pc = pc
           /\ call'[c].user = call[c].user
           /\ call'[c].userOk = call[c].userOk
           /\ \A d \in Call : d # c => SameCall(d)
<1> DEFINE r == [call[c] EXCEPT !.pc = pc]
<1>1. call[c] \in CallRecord
  BY DEF AccessTypeOK
<1>2. /\ r \in CallRecord /\ r.pc = pc /\ r.user = call[c].user
      /\ r.userOk = call[c].userOk
  BY <1>1, SetPc
<1>3. call' = [call EXCEPT ![c] = r]
  BY Zenon DEF CallGoTo
<1> HIDE DEF r
<1> QED
  BY <1>2, <1>3, CallChange

LEMMA ReturnStep ==
    ASSUME AccessTypeOK, NEW c \in Call, Return(c)
    PROVE  /\ call' \in [Call -> CallRecord]
           /\ call'[c].pc = "idle"
           /\ \A d \in Call : d # c => SameCall(d)
<1> DEFINE r  == [call[c] EXCEPT !.pc = "idle", !.session = FALSE,
                                 !.userOk = FALSE, !.ipOk = FALSE]
           r1 == [call[c] EXCEPT !.pc = "idle"]
           r2 == [r1 EXCEPT !.session = FALSE]
           r3 == [r2 EXCEPT !.userOk = FALSE]
           r4 == [r3 EXCEPT !.ipOk = FALSE]
<1>1. call[c] \in CallRecord
  BY DEF AccessTypeOK
<1>2. r = r4
  BY <1>1 DEF CallRecord
<1>3. r1 \in CallRecord /\ r1.pc = "idle"
  BY <1>1, SetPc DEF CallPc
<1> HIDE DEF r1
<1>4. r2 \in CallRecord /\ r2.pc = "idle"
  BY <1>3, SetFlag, FlagFrame
<1> HIDE DEF r2
<1>5. r3 \in CallRecord /\ r3.pc = "idle"
  BY <1>4, SetFlag, FlagFrame
<1> HIDE DEF r3
<1>6. r4 \in CallRecord /\ r4.pc = "idle"
  BY <1>5, SetFlag, FlagFrame
<1>7. call' = [call EXCEPT ![c] = r]
  BY Zenon DEF Return
<1> HIDE DEF r, r4
<1> QED
  BY <1>2, <1>6, <1>7, CallChange

\* The two counts: a flag, then the step to the insert.
LEMMA CountUserStep ==
    ASSUME AccessTypeOK, NEW c \in Call, CountUser(c)
    PROVE  /\ call' \in [Call -> CallRecord]
           /\ call'[c].pc = "userRow"
           /\ call'[c].user = call[c].user
           /\ call'[c].userOk = (Cardinality(RowsOf(call[c].user))
                                    <= UserLimit[call[c].user])
           /\ \A d \in Call : d # c => SameCall(d)
<1> DEFINE ok == Cardinality(RowsOf(call[c].user)) <= UserLimit[call[c].user]
<1>1. ok \in BOOLEAN
  OBVIOUS
<1>2. call' = [call EXCEPT ![c].userOk = ok, ![c].pc = "userRow"]
  BY DEF CountUser
<1> HIDE DEF ok
<1> DEFINE r1 == [call[c] EXCEPT !.userOk = ok]
           r2 == [r1 EXCEPT !.pc = "userRow"]
<1>3. call[c] \in CallRecord /\ "userRow" \in CallPc
  BY DEF AccessTypeOK, CallPc
<1>4. r1 \in CallRecord /\ r1.user = call[c].user /\ r1.userOk = ok
  <2>1. ASSUME NEW q \in CallRecord
        PROVE  LET q1 == [q EXCEPT !.userOk = ok]
               IN  q1 \in CallRecord /\ q1.user = q.user /\ q1.userOk = ok
    BY <1>1 DEF CallRecord
  <2> QED
    BY <1>3, <2>1, Zenon
<1>5. call' = [call EXCEPT ![c] = r2]
  BY <1>2, <1>3 DEF AccessTypeOK
<1> HIDE DEF r1
<1>6. /\ r2 \in CallRecord /\ r2.pc = "userRow" /\ r2.user = r1.user
      /\ r2.userOk = r1.userOk
  BY <1>3, <1>4, SetPc
<1> HIDE DEF r2
<1>7. /\ call' \in [Call -> CallRecord] /\ call'[c] = r2
      /\ \A d \in Call : d # c => SameCall(d)
  BY <1>5, <1>6, CallChange
<1> QED
  BY <1>4, <1>6, <1>7 DEF ok

LEMMA CountIpStep ==
    ASSUME AccessTypeOK, NEW c \in Call, CountIp(c)
    PROVE  /\ call' \in [Call -> CallRecord]
           /\ call'[c].pc = "ipRow"
           /\ call'[c].user = call[c].user
           /\ call'[c].userOk = call[c].userOk
           /\ \A d \in Call : d # c => SameCall(d)
<1> DEFINE ok == Cardinality(RowsFrom(call[c].ip)) <= IpLimit
<1>1. ok \in BOOLEAN
  OBVIOUS
<1>2. call' = [call EXCEPT ![c].ipOk = ok, ![c].pc = "ipRow"]
  BY DEF CountIp
<1> HIDE DEF ok
<1> DEFINE r1 == [call[c] EXCEPT !.ipOk = ok]
           r2 == [r1 EXCEPT !.pc = "ipRow"]
<1>3. call[c] \in CallRecord /\ "ipRow" \in CallPc
  BY DEF AccessTypeOK, CallPc
<1>4. /\ r1 \in CallRecord /\ r1.user = call[c].user
      /\ r1.userOk = call[c].userOk
  <2>1. ASSUME NEW q \in CallRecord
        PROVE  LET q1 == [q EXCEPT !.ipOk = ok]
               IN  q1 \in CallRecord /\ q1.user = q.user /\ q1.userOk = q.userOk
    BY <1>1 DEF CallRecord
  <2> QED
    BY <1>3, <2>1, Zenon
<1>5. call' = [call EXCEPT ![c] = r2]
  BY <1>2, <1>3 DEF AccessTypeOK
<1> HIDE DEF r1
<1>6. /\ r2 \in CallRecord /\ r2.pc = "ipRow" /\ r2.user = r1.user
      /\ r2.userOk = r1.userOk
  BY <1>3, <1>4, SetPc
<1> HIDE DEF r2
<1> QED
  BY <1>4, <1>5, <1>6, CallChange

-----------------------------------------------------------------------------
(* What a step does to the budgets *)

\* No new token and no new call past the count.
LEMMA TokenBudgetKept ==
    ASSUME AccessInv,
           \A u \in User : Active(u)' \subseteq Active(u)
                           /\ Creating(u)' \subseteq Creating(u)
    PROVE  TokenBudget'
<1> SUFFICES ASSUME NEW u \in User
             PROVE  Cardinality(Active(u)') + Cardinality(Creating(u)')
                        <= MaxTokens + Cardinality(Call) - 1
  BY DEF TokenBudget
<1>1. Active(u) \subseteq TokenId /\ Creating(u) \subseteq Call
  BY DEF Active, Creating
<1>2. /\ IsFiniteSet(Active(u)) /\ Cardinality(Active(u)) \in Nat
      /\ IsFiniteSet(Creating(u)) /\ Cardinality(Creating(u)) \in Nat
      /\ Cardinality(Call) \in Nat
  BY <1>1, TokensCounted, CallsCounted
<1>3. /\ Cardinality(Active(u)') \in Nat /\ Cardinality(Creating(u)') \in Nat
      /\ Cardinality(Active(u)') <= Cardinality(Active(u))
      /\ Cardinality(Creating(u)') <= Cardinality(Creating(u))
  BY <1>2, FewerCounted
<1>4. Cardinality(Active(u)) + Cardinality(Creating(u))
          <= MaxTokens + Cardinality(Call) - 1
  BY DEF AccessInv, TokenBudget
<1> QED
  BY <1>2, <1>3, <1>4, AccessAssumption

\* No more admitted rows and no new call within its limit.
LEMMA CallBudgetKept ==
    ASSUME AccessInv,
           \A u \in User : /\ Cardinality(Admitted(u)') \in Nat
                           /\ Cardinality(Admitted(u)') <= Cardinality(Admitted(u))
                           /\ Passing(u)' \subseteq Passing(u)
    PROVE  CallBudget'
<1> SUFFICES ASSUME NEW u \in User
             PROVE  Cardinality(Admitted(u)') + Cardinality(Passing(u)')
                        <= UserLimit[u] + Cardinality(Call)
  BY DEF CallBudget
<1>1. Admitted(u) \subseteq DOMAIN log /\ Passing(u) \subseteq Call
  BY DEF Admitted, RowsOf, Passing
<1>2. /\ Cardinality(Admitted(u)) \in Nat
      /\ IsFiniteSet(Passing(u)) /\ Cardinality(Passing(u)) \in Nat
      /\ Cardinality(Call) \in Nat
  BY <1>1, RowsCounted, CallsCounted DEF AccessInv, AccessTypeOK
<1>3. /\ Cardinality(Passing(u)') \in Nat
      /\ Cardinality(Passing(u)') <= Cardinality(Passing(u))
  BY <1>2, FewerCounted
<1>4. Cardinality(Admitted(u)) + Cardinality(Passing(u))
          <= UserLimit[u] + Cardinality(Call)
  BY DEF AccessInv, CallBudget
<1>5. UserLimit[u] \in Nat
  BY AccessAssumption
<1> QED
  BY <1>2, <1>3, <1>4, <1>5

\* Steps that leave the log alone.
LEMMA AdmittedKept ==
    ASSUME AccessInv, UNCHANGED log
    PROVE  \A u \in User : /\ Cardinality(Admitted(u)') \in Nat
                           /\ Cardinality(Admitted(u)') <= Cardinality(Admitted(u))
<1> SUFFICES ASSUME NEW u \in User
             PROVE  /\ Cardinality(Admitted(u)') \in Nat
                    /\ Cardinality(Admitted(u)') <= Cardinality(Admitted(u))
  OBVIOUS
<1>1. Admitted(u)' = Admitted(u)
  BY DEF Admitted, RowsOf
<1>2. Admitted(u) \subseteq DOMAIN log
  BY DEF Admitted, RowsOf
<1>3. Cardinality(Admitted(u)) \in Nat
  BY <1>2, RowsCounted DEF AccessInv, AccessTypeOK
<1> QED
  BY <1>1, <1>3

\* A call without a row, or whose row stays undecided, may move.
LEMMA RowsPendingKept ==
    ASSUME AccessInv, UNCHANGED log, NEW c \in Call,
           \A d \in Call : d # c => SameCall(d),
           call[c].pc \in {"ip", "ipRow"} =>
               call'[c].pc \in {"ip", "ipRow"} /\ call'[c].user = call[c].user
    PROVE  RowsPending'
<1>1. \A n \in DOMAIN log : log[n].by \in Call =>
          /\ ~log[n].admitted
          /\ log[n].user = call'[log[n].by].user
          /\ call'[log[n].by].pc \in {"ip", "ipRow"}
  BY DEF AccessInv, RowsPending, SameCall
<1> QED
  BY <1>1 DEF AccessInv, RowsPending

\* The row of c once it is decided.
LEMMA MarkedRows ==
    ASSUME AccessTypeOK, NEW c \in Call, NEW b \in BOOLEAN
    PROVE  LET M == Marked(c, b)
           IN  /\ M \in Seq(LogRow) /\ Len(M) = Len(log) /\ DOMAIN M = DOMAIN log
               /\ \A n \in DOMAIN log :
                     /\ M[n].user = log[n].user
                     /\ log[n].by = c => M[n].by = NoCall /\ M[n].admitted = b
                     /\ log[n].by # c => M[n] = log[n]
<1> DEFINE M == Marked(c, b)
<1>1. /\ log \in Seq(LogRow) /\ DOMAIN log = 1..Len(log) /\ Len(log) \in Nat
      /\ \A n \in DOMAIN log : log[n] \in LogRow
  BY DEF AccessTypeOK
<1>2. /\ DOMAIN M = DOMAIN log
      /\ \A n \in DOMAIN log : M[n] = IF log[n].by = c
            THEN [log[n] EXCEPT !.by = NoCall, !.admitted = b] ELSE log[n]
  BY DEF Marked
<1>3. ASSUME NEW n \in DOMAIN log
      PROVE  /\ M[n] \in LogRow
             /\ M[n].user = log[n].user
             /\ log[n].by = c => M[n].by = NoCall /\ M[n].admitted = b
             /\ log[n].by # c => M[n] = log[n]
  <2>1. log[n] \in LogRow /\ NoCall \in Call \cup {NoCall}
    BY <1>1, <1>3
  <2> DEFINE r1 == [log[n] EXCEPT !.by = NoCall]
             r2 == [r1 EXCEPT !.admitted = b]
  <2>2. [log[n] EXCEPT !.by = NoCall, !.admitted = b] = r2
    BY <2>1 DEF LogRow
  <2>3. r1 \in LogRow /\ r1.user = log[n].user /\ r1.by = NoCall
    BY <2>1 DEF LogRow
  <2>4. M[n] = IF log[n].by = c THEN r2 ELSE log[n]
    BY <1>2, <1>3, <2>2
  <2> HIDE DEF r1
  <2>5. r2 \in LogRow /\ r2.user = r1.user /\ r2.by = r1.by /\ r2.admitted = b
    BY <2>3 DEF LogRow
  <2> HIDE DEF r2, M
  <2> QED
    BY <2>1, <2>3, <2>4, <2>5
<1>4. M = [n \in 1..Len(log) |-> M[n]]
  BY <1>1 DEF Marked
<1> HIDE DEF M
<1>5. M \in Seq(LogRow) /\ Len(M) = Len(log)
  BY <1>1, <1>3, <1>4
<1> QED
  BY <1>2, <1>3, <1>5 DEF M

-----------------------------------------------------------------------------
(* The steps, one lemma each *)

\* A call that waits for no row and has none: nothing it does on its own, short
\* of passing a count, costs a budget.
LEMMA QuietStep ==
    ASSUME AccessInv, NEW c \in Call, UNCHANGED log,
           call[c].pc \notin {"ip", "ipRow"},
           call' \in [Call -> CallRecord],
           call'[c].pc \in {"idle", "user", "serve"},
           \A d \in Call : d # c => SameCall(d),
           owner' \in [TokenId -> User \cup {NoUser}],
           \A u \in User : Active(u)' \subseteq Active(u)
    PROVE  AccessInv'
<1>1. \A u \in User : Creating(u)' \subseteq Creating(u)
                      /\ Passing(u)' \subseteq Passing(u)
  BY DEF Creating, Passing, SameCall
<1>2. TokenBudget'
  BY <1>1, TokenBudgetKept
<1>3. CallBudget'
  BY <1>1, AdmittedKept, CallBudgetKept
<1>4. RowsPending'
  BY RowsPendingKept
<1> QED
  BY <1>2, <1>3, <1>4 DEF AccessInv, AccessTypeOK

LEMMA ArriveStep ==
    ASSUME AccessInv, NEW c \in Call, NEW u \in User, NEW i \in Address,
           NEW session \in BOOLEAN, Arrive(c, u, i, session)
    PROVE  AccessInv'
<1> DEFINE r == [pc |-> "user", session |-> session, user |-> u, ip |-> i,
                 userOk |-> FALSE, ipOk |-> FALSE]
<1>1. r \in CallRecord /\ r.pc = "user"
  BY DEF CallRecord, CallPc
<1>2. call' = [call EXCEPT ![c] = r] /\ UNCHANGED <<owner, log>>
  BY DEF Arrive
<1>3. call[c].pc = "idle"
  BY DEF Arrive, CallAt
<1> HIDE DEF r
<1>4. /\ call' \in [Call -> CallRecord] /\ call'[c].pc = "user"
      /\ \A d \in Call : d # c => SameCall(d)
  BY <1>1, <1>2, CallChange DEF AccessInv
<1>5. owner' \in [TokenId -> User \cup {NoUser}]
      /\ \A v \in User : Active(v)' \subseteq Active(v)
  BY <1>2 DEF AccessInv, AccessTypeOK, Active
<1> QED
  BY <1>2, <1>3, <1>4, <1>5, QuietStep

\* A count within the limit is a promise to admit one more call, so the budget
\* has to allow for every call at once; the rows it has counted include the
\* admitted ones.
LEMMA CountStep ==
    ASSUME AccessInv, NEW c \in Call, CountUser(c)
    PROVE  AccessInv'
<1>1. call[c].pc = "user" /\ UNCHANGED <<owner, log>>
  BY DEF CountUser, CallAt
<1>2. AccessTypeOK
  BY DEF AccessInv
<1>3. /\ call' \in [Call -> CallRecord]
      /\ call'[c].pc = "userRow"
      /\ call'[c].user = call[c].user
      /\ call'[c].userOk = (Cardinality(RowsOf(call[c].user))
                               <= UserLimit[call[c].user])
      /\ \A d \in Call : d # c => SameCall(d)
  BY <1>2, CountUserStep
<1>4. TokenBudget'
  <2>1. \A u \in User : Active(u)' \subseteq Active(u)
                        /\ Creating(u)' \subseteq Creating(u)
    BY <1>1, <1>3 DEF Active, Creating, SameCall
  <2> QED
    BY <2>1, TokenBudgetKept
<1>5. RowsPending'
  BY <1>1, <1>3, RowsPendingKept
<1>6. CallBudget'
  <2> SUFFICES ASSUME NEW u \in User
               PROVE  Cardinality(Admitted(u)') + Cardinality(Passing(u)')
                          <= UserLimit[u] + Cardinality(Call)
    BY DEF CallBudget
  <2>1. /\ Admitted(u)' = Admitted(u) /\ Admitted(u) \subseteq RowsOf(u)
        /\ RowsOf(u) \subseteq DOMAIN log
    BY <1>1 DEF Admitted, RowsOf
  <2>2. /\ IsFiniteSet(RowsOf(u)) /\ Cardinality(RowsOf(u)) \in Nat
        /\ Cardinality(Admitted(u)) \in Nat
        /\ Cardinality(Admitted(u)) <= Cardinality(RowsOf(u))
    BY <1>2, <2>1, RowsCounted, FewerCounted DEF AccessTypeOK
  <2>3. /\ Passing(u) \subseteq Call /\ Passing(u)' \subseteq Call
        /\ UserLimit[u] \in Nat
    BY AccessAssumption DEF Passing
  <2>4. /\ Cardinality(Passing(u)') \in Nat /\ Cardinality(Call) \in Nat
        /\ Cardinality(Passing(u)') <= Cardinality(Call)
        /\ IsFiniteSet(Passing(u)) /\ Cardinality(Passing(u)) \in Nat
    BY <2>3, CallsCounted
  <2>5. CASE Cardinality(RowsOf(u)) <= UserLimit[u]
    BY <2>1, <2>2, <2>3, <2>4, <2>5
  <2>6. CASE ~(Cardinality(RowsOf(u)) <= UserLimit[u])
    <3>1. Passing(u)' \subseteq Passing(u)
      BY <1>3, <2>6 DEF Passing, SameCall
    <3>2. Cardinality(Passing(u)') <= Cardinality(Passing(u))
      BY <2>4, <3>1, FewerCounted
    <3>3. Cardinality(Admitted(u)) + Cardinality(Passing(u))
              <= UserLimit[u] + Cardinality(Call)
      BY DEF AccessInv, CallBudget
    <3> QED
      BY <2>1, <2>2, <2>3, <2>4, <3>2, <3>3
  <2> QED
    BY <2>5, <2>6
<1> QED
  BY <1>1, <1>2, <1>3, <1>4, <1>5, <1>6 DEF AccessInv, AccessTypeOK

LEMMA CountAddressStep ==
    ASSUME AccessInv, NEW c \in Call, CountIp(c)
    PROVE  AccessInv'
<1>1. call[c].pc = "ip" /\ UNCHANGED <<owner, log>>
  BY DEF CountIp, CallAt
<1>2. AccessTypeOK
  BY DEF AccessInv
<1>3. /\ call' \in [Call -> CallRecord]
      /\ call'[c].pc = "ipRow"
      /\ call'[c].user = call[c].user
      /\ call'[c].userOk = call[c].userOk
      /\ \A d \in Call : d # c => SameCall(d)
  BY <1>2, CountIpStep
<1>4. \A u \in User : Active(u)' \subseteq Active(u)
                      /\ Creating(u)' \subseteq Creating(u)
                      /\ Passing(u)' \subseteq Passing(u)
  BY <1>1, <1>3 DEF Active, Creating, Passing, SameCall
<1>5. TokenBudget' /\ CallBudget'
  BY <1>1, <1>4, TokenBudgetKept, CallBudgetKept, AdmittedKept
<1>6. RowsPending'
  BY <1>1, <1>3, RowsPendingKept
<1> QED
  BY <1>1, <1>2, <1>3, <1>5, <1>6 DEF AccessInv, AccessTypeOK

\* A row on its way in is nobody's admitted one.
LEMMA InsertStep ==
    ASSUME AccessInv, NEW c \in Call, InsertUserRow(c)
    PROVE  AccessInv'
<1> DEFINE row == UserRow(call[c].user, call[c].ip, c)
<1>1. /\ call[c].pc = "userRow" /\ UNCHANGED owner
      /\ log' = Append(log, row) /\ CallGoTo(c, "ip")
  BY DEF InsertUserRow, CallAt
<1>2. AccessTypeOK /\ call[c] \in CallRecord /\ log \in Seq(LogRow)
  BY DEF AccessInv, AccessTypeOK
<1>3. /\ row \in LogRow /\ row.by = c /\ row.user = call[c].user /\ row.admitted = FALSE
  BY <1>2 DEF UserRow, LogRow, CallRecord
<1> HIDE DEF row
<1>4. /\ call' \in [Call -> CallRecord]
      /\ call'[c].pc = "ip"
      /\ call'[c].user = call[c].user
      /\ call'[c].userOk = call[c].userOk
      /\ \A d \in Call : d # c => SameCall(d)
  BY <1>1, <1>2, GoToStep DEF CallPc
<1>5. /\ log' \in Seq(LogRow) /\ Len(log) \in Nat
      /\ DOMAIN log = 1..Len(log)
      /\ DOMAIN log' = 1..(Len(log) + 1)
      /\ \A n \in DOMAIN log : log'[n] = log[n]
      /\ log'[Len(log) + 1] = row
  BY <1>1, <1>2, <1>3
<1>6. \A n \in DOMAIN log' : n \in DOMAIN log \/ n = Len(log) + 1
  BY <1>5
<1>7. \A u \in User : Active(u)' \subseteq Active(u)
                      /\ Creating(u)' \subseteq Creating(u)
                      /\ Passing(u)' \subseteq Passing(u)
  BY <1>1, <1>4 DEF Active, Creating, Passing, SameCall
<1>8. TokenBudget'
  BY <1>7, TokenBudgetKept
<1>9. CallBudget'
  <2>1. ASSUME NEW u \in User
        PROVE  /\ Cardinality(Admitted(u)') \in Nat
               /\ Cardinality(Admitted(u)') <= Cardinality(Admitted(u))
    <3>1. Admitted(u)' \subseteq Admitted(u)
      BY <1>3, <1>5, <1>6 DEF Admitted, RowsOf
    <3>2. Admitted(u) \subseteq DOMAIN log
      BY DEF Admitted, RowsOf
    <3> QED
      BY <1>2, <3>1, <3>2, RowsCounted, FewerCounted
  <2> QED
    BY <1>7, <2>1, CallBudgetKept
<1>10. \A n \in DOMAIN log : log[n].by # c
  BY <1>1 DEF AccessInv, RowsPending
<1>11. RowsPending'
  <2>1. ASSUME NEW n \in DOMAIN log', log'[n].by \in Call
        PROVE  /\ ~log'[n].admitted
               /\ log'[n].user = call'[log'[n].by].user
               /\ call'[log'[n].by].pc \in {"ip", "ipRow"}
    BY <1>3, <1>4, <1>5, <1>6, <1>10, <2>1 DEF AccessInv, RowsPending, SameCall
  <2>2. ASSUME NEW m \in DOMAIN log', NEW n \in DOMAIN log',
               log'[m].by \in Call, log'[m].by = log'[n].by
        PROVE  m = n
    BY <1>3, <1>5, <1>6, <1>10, <2>2 DEF AccessInv, RowsPending
  <2> QED
    BY <2>1, <2>2 DEF RowsPending
<1> QED
  BY <1>1, <1>2, <1>4, <1>5, <1>8, <1>9, <1>11 DEF AccessInv, AccessTypeOK

\* A call is decided: its row, if it is still in the window, takes the place of
\* the promise made to it.
LEMMA DecideStep ==
    ASSUME AccessInv, NEW c \in Call, NEW b \in BOOLEAN, UNCHANGED owner,
           log' \in Seq(LogRow), DOMAIN log \subseteq DOMAIN log',
           \A n \in DOMAIN log : log'[n] = Marked(c, b)[n],
           \A n \in DOMAIN log' \ DOMAIN log : log'[n].by = NoCall /\ ~log'[n].admitted,
           b => call[c].pc = "ipRow" /\ call[c].userOk,
           call' \in [Call -> CallRecord],
           call'[c].pc \in {"serve", "idle"},
           \A d \in Call : d # c => SameCall(d)
    PROVE  AccessInv'
<1>1. /\ AccessTypeOK /\ call[c] \in CallRecord /\ log \in Seq(LogRow)
      /\ \A n \in DOMAIN log : log[n] \in LogRow
  BY DEF AccessInv, AccessTypeOK
<1>2. \A n \in DOMAIN log :
          /\ log'[n].user = log[n].user
          /\ log[n].by = c => log'[n].by = NoCall /\ log'[n].admitted = b
          /\ log[n].by # c => log'[n] = log[n]
  BY <1>1, MarkedRows
<1>3. NoCall \notin Call
  BY AccessAssumption
<1>4. RowsPending'
  <2>1. \A n \in DOMAIN log' : log'[n].by \in Call =>
            n \in DOMAIN log /\ log[n].by # c /\ log'[n] = log[n]
    BY <1>2, <1>3
  <2>2. ASSUME NEW n \in DOMAIN log', log'[n].by \in Call
        PROVE  /\ ~log'[n].admitted
               /\ log'[n].user = call'[log'[n].by].user
               /\ call'[log'[n].by].pc \in {"ip", "ipRow"}
    BY <2>1, <2>2 DEF AccessInv, RowsPending, SameCall
  <2>3. ASSUME NEW m \in DOMAIN log', NEW n \in DOMAIN log',
               log'[m].by \in Call, log'[m].by = log'[n].by
        PROVE  m = n
    BY <2>1, <2>3 DEF AccessInv, RowsPending
  <2> QED
    BY <2>2, <2>3 DEF RowsPending
<1>5. \A u \in User : /\ Active(u)' \subseteq Active(u)
                      /\ Creating(u)' \subseteq Creating(u)
                      /\ Passing(u)' \subseteq Passing(u) \ {c}
  BY DEF Active, Creating, Passing, SameCall
<1>6. TokenBudget'
  BY <1>5, TokenBudgetKept
<1>7. CallBudget'
  <2> SUFFICES ASSUME NEW u \in User
               PROVE  Cardinality(Admitted(u)') + Cardinality(Passing(u)')
                          <= UserLimit[u] + Cardinality(Call)
    BY DEF CallBudget
  <2>1. Admitted(u) \subseteq DOMAIN log /\ Passing(u) \subseteq Call
    BY DEF Admitted, RowsOf, Passing
  <2>2. /\ IsFiniteSet(Admitted(u)) /\ Cardinality(Admitted(u)) \in Nat
        /\ IsFiniteSet(Passing(u)) /\ Cardinality(Passing(u)) \in Nat
        /\ Cardinality(Call) \in Nat /\ UserLimit[u] \in Nat
    BY <1>1, <2>1, RowsCounted, CallsCounted, AccessAssumption
  <2>3. Cardinality(Admitted(u)) + Cardinality(Passing(u))
            <= UserLimit[u] + Cardinality(Call)
    BY DEF AccessInv, CallBudget
  <2>4. \A n \in Admitted(u)' :
            n \in Admitted(u) \/ (n \in DOMAIN log /\ log[n].by = c /\ b
                                     /\ call[c].user = u)
    BY <1>2 DEF Admitted, RowsOf, AccessInv, RowsPending
  <2>5. CASE b /\ call[c].user = u /\ \E n \in DOMAIN log : log[n].by = c
    <3>1. PICK k \in DOMAIN log : log[k].by = c
      BY <2>5
    <3>2. \A n \in DOMAIN log : log[n].by = c => n = k
      BY <3>1 DEF AccessInv, RowsPending
    <3>3. Admitted(u)' \subseteq Admitted(u) \cup {k}
      BY <2>4, <3>2
    <3>4. /\ IsFiniteSet(Admitted(u) \cup {k})
          /\ Cardinality(Admitted(u) \cup {k}) \in Nat
          /\ Cardinality(Admitted(u) \cup {k}) <= Cardinality(Admitted(u)) + 1
      <4>1. /\ IsFiniteSet(Admitted(u) \cup {k})
            /\ Cardinality(Admitted(u) \cup {k}) = IF k \in Admitted(u)
                  THEN Cardinality(Admitted(u)) ELSE Cardinality(Admitted(u)) + 1
        BY <2>2, FS_AddElement
      <4> QED
        BY <2>2, <4>1
    <3>5. /\ Cardinality(Admitted(u)') \in Nat
          /\ Cardinality(Admitted(u)') <= Cardinality(Admitted(u) \cup {k})
      BY <3>3, <3>4, FewerCounted
    <3>6. c \in Passing(u)
      BY <2>5 DEF Passing
    <3>7. /\ IsFiniteSet(Passing(u) \ {c})
          /\ Cardinality(Passing(u) \ {c}) = Cardinality(Passing(u)) - 1
      BY <2>2, <3>6, FS_RemoveElement
    <3>8. /\ Cardinality(Passing(u)') \in Nat
          /\ Cardinality(Passing(u)') <= Cardinality(Passing(u) \ {c})
      BY <1>5, <3>7, FewerCounted
    <3> QED
      BY <2>2, <2>3, <3>4, <3>5, <3>7, <3>8
  <2>6. CASE ~(b /\ call[c].user = u /\ \E n \in DOMAIN log : log[n].by = c)
    <3>1. Admitted(u)' \subseteq Admitted(u) /\ Passing(u)' \subseteq Passing(u)
      BY <1>5, <2>4, <2>6
    <3>2. /\ Cardinality(Admitted(u)') \in Nat /\ Cardinality(Passing(u)') \in Nat
          /\ Cardinality(Admitted(u)') <= Cardinality(Admitted(u))
          /\ Cardinality(Passing(u)') <= Cardinality(Passing(u))
      BY <2>2, <3>1, FewerCounted
    <3> QED
      BY <2>2, <2>3, <3>2
  <2> QED
    BY <2>5, <2>6
<1> QED
  BY <1>1, <1>4, <1>6, <1>7 DEF AccessInv, AccessTypeOK

LEMMA DecisionStep ==
    ASSUME AccessInv, NEW c \in Call, Decide(c) \/ CheckFails(c)
    PROVE  AccessInv'
<1>1. /\ AccessTypeOK /\ call[c] \in CallRecord /\ log \in Seq(LogRow)
      /\ Len(log) \in Nat /\ DOMAIN log = 1..Len(log)
  BY DEF AccessInv, AccessTypeOK
<1>2. CASE Decide(c)
  <2> DEFINE b == Allowed(c)
             M == Marked(c, b)
             row == IpRow(call[c].ip)
  <2>1. /\ call[c].pc = "ipRow" /\ UNCHANGED owner
        /\ log' = Append(M, row)
        /\ CallGoTo(c, "serve") \/ Return(c)
    BY <1>2 DEF Decide, CallAt
  <2>2. b \in BOOLEAN /\ (b => call[c].userOk)
    BY <1>1 DEF Allowed, CallRecord
  <2>3. /\ row \in LogRow /\ row.by = NoCall /\ row.admitted = FALSE
    BY <1>1 DEF IpRow, LogRow, CallRecord
  <2> HIDE DEF b, row
  <2>4. M \in Seq(LogRow) /\ Len(M) = Len(log) /\ DOMAIN M = DOMAIN log
    BY <1>1, <2>2, MarkedRows
  <2> HIDE DEF M
  <2>5. /\ log' \in Seq(LogRow)
        /\ DOMAIN log' = 1..(Len(log) + 1)
        /\ \A n \in DOMAIN log : log'[n] = M[n]
        /\ log'[Len(log) + 1] = row
    BY <1>1, <2>1, <2>3, <2>4
  <2>6. /\ DOMAIN log \subseteq DOMAIN log'
        /\ \A n \in DOMAIN log' \ DOMAIN log : log'[n].by = NoCall /\ ~log'[n].admitted
    BY <1>1, <2>3, <2>5
  <2>7. /\ call' \in [Call -> CallRecord]
        /\ call'[c].pc \in {"serve", "idle"}
        /\ \A d \in Call : d # c => SameCall(d)
    BY <1>1, <2>1, GoToStep, ReturnStep DEF CallPc
  <2> QED
    BY <2>1, <2>2, <2>5, <2>6, <2>7, DecideStep DEF M
<1>3. CASE CheckFails(c)
  <2>1. UNCHANGED owner /\ log' = Marked(c, FALSE) /\ CallGoTo(c, "serve")
    BY <1>3 DEF CheckFails
  <2>2. log' \in Seq(LogRow) /\ DOMAIN log' = DOMAIN log
    BY <1>1, <2>1, MarkedRows
  <2>3. /\ call' \in [Call -> CallRecord]
        /\ call'[c].pc \in {"serve", "idle"}
        /\ \A d \in Call : d # c => SameCall(d)
    BY <1>1, <2>1, GoToStep DEF CallPc
  <2> QED
    BY <2>1, <2>2, <2>3, DecideStep
<1> QED
  BY <1>2, <1>3

\* Past the count of tokens a call is promised a token: with fewer than MaxTokens
\* of them, there is room for every call at once.
LEMMA QuotaStep ==
    ASSUME AccessInv, NEW c \in Call, call[c].pc = "serve",
           CountActiveByUserID(call[c].user) < MaxTokens,
           CallGoTo(c, "create"), UNCHANGED <<owner, log>>
    PROVE  AccessInv'
<1>1. AccessTypeOK /\ call[c] \in CallRecord
  BY DEF AccessInv, AccessTypeOK
<1>2. /\ call' \in [Call -> CallRecord]
      /\ call'[c].pc = "create"
      /\ call'[c].user = call[c].user
      /\ \A d \in Call : d # c => SameCall(d)
  BY <1>1, GoToStep DEF CallPc
<1>3. RowsPending'
  BY <1>2, RowsPendingKept
<1>4. CallBudget'
  <2>1. \A u \in User : Passing(u)' \subseteq Passing(u)
    BY <1>2 DEF Passing, SameCall
  <2> QED
    BY <2>1, AdmittedKept, CallBudgetKept
<1>5. TokenBudget'
  <2> SUFFICES ASSUME NEW u \in User
               PROVE  Cardinality(Active(u)') + Cardinality(Creating(u)')
                          <= MaxTokens + Cardinality(Call) - 1
    BY DEF TokenBudget
  <2>1. /\ Active(u)' = Active(u) /\ Active(u) \subseteq TokenId
        /\ Creating(u)' \subseteq Call /\ Creating(u) \subseteq Call
    BY DEF Active, Creating
  <2>2. /\ Cardinality(Active(u)) \in Nat /\ IsFiniteSet(Creating(u))
        /\ Cardinality(Creating(u)) \in Nat /\ Cardinality(Creating(u)') \in Nat
        /\ Cardinality(Creating(u)') <= Cardinality(Call)
        /\ Cardinality(Call) \in Nat /\ MaxTokens \in Nat
    BY <2>1, TokensCounted, CallsCounted, AccessAssumption
  <2>3. CASE u = call[c].user
    <3>1. Cardinality(Active(u)) < MaxTokens
      BY <2>3 DEF CountActiveByUserID
    <3> QED
      BY <2>1, <2>2, <3>1
  <2>4. CASE u # call[c].user
    <3>1. Creating(u)' \subseteq Creating(u)
      BY <1>2, <2>4 DEF Creating, SameCall
    <3>2. Cardinality(Creating(u)') <= Cardinality(Creating(u))
      BY <2>2, <3>1, FewerCounted
    <3>3. Cardinality(Active(u)) + Cardinality(Creating(u))
              <= MaxTokens + Cardinality(Call) - 1
      BY DEF AccessInv, TokenBudget
    <3> QED
      BY <2>1, <2>2, <3>2, <3>3
  <2> QED
    BY <2>3, <2>4
<1> QED
  BY <1>1, <1>2, <1>3, <1>4, <1>5 DEF AccessInv, AccessTypeOK

\* The insert redeems the promise.
LEMMA CreateStep ==
    ASSUME AccessInv, NEW c \in Call, CreateToken(c)
    PROVE  AccessInv'
<1>1. /\ call[c].pc = "create" /\ Return(c) /\ UNCHANGED log
      /\ InsertToken(call[c].user) \/ UNCHANGED owner
  BY DEF CreateToken, CallAt
<1>2. /\ AccessTypeOK /\ call[c] \in CallRecord /\ call[c].user \in User
      /\ owner \in [TokenId -> User \cup {NoUser}]
  BY DEF AccessInv, AccessTypeOK, CallRecord
<1>3. /\ call' \in [Call -> CallRecord]
      /\ call'[c].pc = "idle"
      /\ \A d \in Call : d # c => SameCall(d)
  BY <1>1, <1>2, ReturnStep
<1>4. CASE UNCHANGED owner
  <2>1. /\ owner' \in [TokenId -> User \cup {NoUser}]
        /\ \A u \in User : Active(u)' \subseteq Active(u)
    BY <1>2, <1>4 DEF Active
  <2> QED
    BY <1>1, <1>3, <2>1, QuietStep
<1>5. CASE InsertToken(call[c].user)
  <2>1. PICK t \in TokenId : owner[t] = NoUser
                             /\ owner' = [owner EXCEPT ![t] = call[c].user]
    BY <1>5 DEF InsertToken
  <2>2. RowsPending'
    BY <1>1, <1>3, RowsPendingKept
  <2>3. CallBudget'
    <3>1. \A u \in User : Passing(u)' \subseteq Passing(u)
      BY <1>3 DEF Passing, SameCall
    <3> QED
      BY <1>1, <3>1, AdmittedKept, CallBudgetKept
  <2>4. TokenBudget'
    <3> SUFFICES ASSUME NEW u \in User
                 PROVE  Cardinality(Active(u)') + Cardinality(Creating(u)')
                            <= MaxTokens + Cardinality(Call) - 1
      BY DEF TokenBudget
    <3>1. /\ Active(u) \subseteq TokenId /\ Creating(u) \subseteq Call
          /\ Creating(u)' \subseteq Creating(u) \ {c}
      BY <1>3 DEF Active, Creating, SameCall
    <3>2. /\ IsFiniteSet(Active(u)) /\ Cardinality(Active(u)) \in Nat
          /\ IsFiniteSet(Creating(u)) /\ Cardinality(Creating(u)) \in Nat
          /\ Cardinality(Call) \in Nat /\ MaxTokens \in Nat
      BY <3>1, TokensCounted, CallsCounted, AccessAssumption
    <3>3. Cardinality(Active(u)) + Cardinality(Creating(u))
              <= MaxTokens + Cardinality(Call) - 1
      BY DEF AccessInv, TokenBudget
    <3>4. CASE u = call[c].user
      <4>1. Active(u)' = Active(u) \cup {t} /\ c \in Creating(u)
        BY <1>1, <1>2, <2>1, <3>4 DEF Active, Creating
      <4>2. /\ Cardinality(Active(u) \cup {t})
                 = (IF t \in Active(u) THEN Cardinality(Active(u))
                    ELSE Cardinality(Active(u)) + 1)
            /\ IsFiniteSet(Creating(u) \ {c})
            /\ Cardinality(Creating(u) \ {c}) = Cardinality(Creating(u)) - 1
        BY <3>2, <4>1, FS_AddElement, FS_RemoveElement
      <4>3. /\ Cardinality(Creating(u)') \in Nat
            /\ Cardinality(Creating(u)') <= Cardinality(Creating(u) \ {c})
        BY <3>1, <4>2, FewerCounted
      <4> QED
        BY <3>2, <3>3, <4>1, <4>2, <4>3
    <3>5. CASE u # call[c].user
      <4>1. Active(u)' \subseteq Active(u) /\ Creating(u)' \subseteq Creating(u)
        BY <1>2, <2>1, <3>1, <3>5 DEF Active
      <4>2. /\ Cardinality(Active(u)') \in Nat /\ Cardinality(Creating(u)') \in Nat
            /\ Cardinality(Active(u)') <= Cardinality(Active(u))
            /\ Cardinality(Creating(u)') <= Cardinality(Creating(u))
        BY <3>2, <4>1, FewerCounted
      <4> QED
        BY <3>2, <3>3, <4>2
    <3> QED
      BY <3>4, <3>5
  <2>5. owner' \in [TokenId -> User \cup {NoUser}]
    BY <1>2, <2>1
  <2> QED
    BY <1>1, <1>2, <1>3, <2>2, <2>3, <2>4, <2>5 DEF AccessInv, AccessTypeOK
<1> QED
  BY <1>1, <1>4, <1>5

\* The handlers that give a token back or leave the tokens alone.
LEMMA HandlerStep ==
    ASSUME AccessInv, NEW c \in Call, Serve(c) \/ CreateAPIToken(c) \/ RevokeToken(c)
    PROVE  AccessInv'
<1>1. call[c].pc = "serve" /\ UNCHANGED log
  BY DEF Serve, CreateAPIToken, RevokeToken, RequireJWTSession, CallAt
<1>2. /\ AccessTypeOK /\ call[c] \in CallRecord /\ call[c].user \in User
      /\ owner \in [TokenId -> User \cup {NoUser}] /\ NoUser \notin User
  BY AccessAssumption DEF AccessInv, AccessTypeOK, CallRecord
<1>3. ASSUME Return(c), owner' \in [TokenId -> User \cup {NoUser}],
             \A u \in User : Active(u)' \subseteq Active(u)
      PROVE  AccessInv'
  BY <1>1, <1>2, <1>3, ReturnStep, QuietStep
<1>4. UNCHANGED owner => owner' \in [TokenId -> User \cup {NoUser}]
                         /\ \A u \in User : Active(u)' \subseteq Active(u)
  BY <1>2 DEF Active
<1>5. CASE Serve(c)
  BY <1>3, <1>4, <1>5 DEF Serve
<1>6. CASE CreateAPIToken(c)
  <2>1. UNCHANGED owner
    BY <1>6 DEF CreateAPIToken
  <2>2. CASE Return(c)
    BY <1>3, <1>4, <2>1, <2>2
  <2>3. CASE CheckQuota(c)
    <3>1. CASE CountActiveByUserID(call[c].user) >= MaxTokens
      BY <1>3, <1>4, <2>1, <2>3, <3>1 DEF CheckQuota
    <3>2. CASE ~(CountActiveByUserID(call[c].user) >= MaxTokens)
      <4>1. CallGoTo(c, "create")
        BY <2>3, <3>2 DEF CheckQuota
      <4>2. Active(call[c].user) \subseteq TokenId
        BY DEF Active
      <4>3. CountActiveByUserID(call[c].user) \in Nat /\ MaxTokens \in Nat
        BY <4>2, TokensCounted, AccessAssumption DEF CountActiveByUserID
      <4>4. CountActiveByUserID(call[c].user) < MaxTokens
        BY <3>2, <4>3
      <4> QED
        BY <1>1, <2>1, <4>1, <4>4, QuotaStep
    <3> QED
      BY <3>1, <3>2
  <2> QED
    BY <1>6, <2>2, <2>3 DEF CreateAPIToken
<1>7. CASE RevokeToken(c)
  <2>1. PICK t \in TokenId : Revoke(t, call[c].user)
    BY <1>7 DEF RevokeToken
  <2>2. owner' \in [TokenId -> User \cup {NoUser}]
    BY <1>2, <2>1 DEF Revoke
  <2>3. \A u \in User : Active(u)' \subseteq Active(u)
    BY <1>2, <2>1 DEF Revoke, Active
  <2> QED
    BY <1>3, <1>7, <2>2, <2>3 DEF RevokeToken
<1> QED
  BY <1>5, <1>6, <1>7

LEMMA TokenExpiresStep ==
    ASSUME AccessInv, NEW t \in TokenId, TokenExpires(t)
    PROVE  AccessInv'
<1>1. /\ owner' = [owner EXCEPT ![t] = NoUser] /\ UNCHANGED <<log, call>>
      /\ AccessTypeOK /\ NoUser \notin User
  BY AccessAssumption DEF TokenExpires, AccessInv
<1>2. \A u \in User : /\ Active(u)' \subseteq Active(u)
                      /\ Creating(u)' \subseteq Creating(u)
                      /\ Passing(u)' \subseteq Passing(u)
  BY <1>1 DEF AccessTypeOK, Active, Creating, Passing
<1>3. TokenBudget' /\ CallBudget'
  BY <1>1, <1>2, TokenBudgetKept, CallBudgetKept, AdmittedKept
<1>4. RowsPending'
  BY <1>1 DEF AccessInv, RowsPending
<1>5. AccessTypeOK'
  BY <1>1 DEF AccessTypeOK
<1> QED
  BY <1>3, <1>4, <1>5 DEF AccessInv

\* The log moves up by a row: an injection from what is left into what there was.
LEMMA RowExpiresStep ==
    ASSUME AccessInv, RowExpires
    PROVE  AccessInv'
<1>1. /\ log # << >> /\ log' = Tail(log) /\ UNCHANGED <<owner, call>>
      /\ AccessTypeOK /\ log \in Seq(LogRow) /\ Len(log) \in Nat
      /\ DOMAIN log = 1..Len(log)
  BY DEF RowExpires, AccessInv, AccessTypeOK
<1>2. /\ log' \in Seq(LogRow)
      /\ DOMAIN log' = 1..(Len(log) - 1)
      /\ \A n \in DOMAIN log' : n + 1 \in DOMAIN log /\ log'[n] = log[n + 1]
  BY <1>1
<1>3. RowsPending'
  <2>1. \A n \in DOMAIN log' : log'[n].by \in Call =>
          /\ ~log'[n].admitted
          /\ log'[n].user = call[log'[n].by].user
          /\ call[log'[n].by].pc \in {"ip", "ipRow"}
    BY <1>2 DEF AccessInv, RowsPending
  <2>2. ASSUME NEW m \in DOMAIN log', NEW n \in DOMAIN log',
               log'[m].by \in Call, log'[m].by = log'[n].by
        PROVE  m = n
    <3>1. m + 1 = n + 1
      BY <1>2, <2>2 DEF AccessInv, RowsPending
    <3> QED
      BY <1>1, <1>2, <3>1
  <2> QED
    BY <1>1, <2>1, <2>2 DEF RowsPending
<1>4. ASSUME NEW u \in User
      PROVE  /\ Cardinality(Admitted(u)') \in Nat
             /\ Cardinality(Admitted(u)') <= Cardinality(Admitted(u))
  <2> DEFINE A == Admitted(u)
             B == Admitted(u)'
             f == [n \in B |-> n + 1]
  <2>1. B \subseteq DOMAIN log' /\ \A n \in B : n + 1 \in A
    BY <1>2 DEF Admitted, RowsOf
  <2>2. A \subseteq DOMAIN log
    BY DEF Admitted, RowsOf
  <2>3. IsFiniteSet(A)
    BY <1>1, <2>2, RowsCounted
  <2>4. B \subseteq Nat
    BY <1>1, <1>2, <2>1
  <2> HIDE DEF A, B
  <2>5. f \in Injection(B, A)
    BY <2>1, <2>4 DEF Injection, IsInjective
  <2> HIDE DEF f
  <2>6. IsFiniteSet(B) /\ Cardinality(B) <= Cardinality(A)
    BY <2>3, <2>5, FS_Injection
  <2> QED
    BY <2>6, FS_CardinalityType DEF A, B
<1>5. \A u \in User : /\ Active(u)' \subseteq Active(u)
                      /\ Creating(u)' \subseteq Creating(u)
                      /\ Passing(u)' \subseteq Passing(u)
  BY <1>1 DEF Active, Creating, Passing
<1>6. TokenBudget' /\ CallBudget'
  BY <1>4, <1>5, TokenBudgetKept, CallBudgetKept
<1>7. AccessTypeOK'
  BY <1>1, <1>2 DEF AccessTypeOK
<1> QED
  BY <1>3, <1>6, <1>7 DEF AccessInv

-----------------------------------------------------------------------------
LEMMA AccessStep == AccessInv /\ [AccessNext]_accessVars => AccessInv'
<1> SUFFICES ASSUME AccessInv, [AccessNext]_accessVars PROVE AccessInv'
  OBVIOUS
<1>1. ASSUME NEW c \in Call, NEW t \in TokenId, NEW i \in Address, ByToken(c, t, i)
      PROVE  AccessInv'
  <2>1. owner[t] \in User /\ Arrive(c, owner[t], i, FALSE)
    BY <1>1 DEF ByToken, ValidateToken, AccessInv, AccessTypeOK
  <2> QED
    BY <2>1, ArriveStep
<1>2. ASSUME NEW c \in Call, NEW u \in User, NEW i \in Address, BySession(c, u, i)
      PROVE  AccessInv'
  BY <1>2, ArriveStep DEF BySession
<1>3. ASSUME NEW c \in Call, CallStep(c) PROVE AccessInv'
  BY <1>1, <1>2, <1>3, CountStep, InsertStep, CountAddressStep, DecisionStep,
     HandlerStep, CreateStep DEF CallStep
<1>4. CASE UNCHANGED accessVars
  BY <1>4 DEF accessVars, AccessInv, AccessTypeOK, RowsPending, TokenBudget,
     CallBudget, Active, Creating, Admitted, RowsOf, Passing
<1> QED
  BY <1>3, <1>4, TokenExpiresStep, RowExpiresStep DEF AccessNext

LEMMA AccessInvariance == AccessSpec => []AccessInv
<1>1. AccessInit => AccessInv
  <2> SUFFICES ASSUME AccessInit PROVE AccessInv
    OBVIOUS
  <2>1. AccessTypeOK
    <3>1. \A r \in [pc : {"idle"}, session : {FALSE}, user : User,
                    ip : Address, userOk : {FALSE}, ipOk : {FALSE}] : r \in CallRecord
      BY DEF CallRecord, CallPc
    <3>2. call \in [Call -> CallRecord]
      BY <3>1 DEF AccessInit
    <3> QED
      BY <3>2 DEF AccessInit, AccessTypeOK
  <2>2. RowsPending
    BY DEF AccessInit, RowsPending
  <2>3. \A c \in Call : call[c].pc = "idle"
    BY DEF AccessInit
  <2>4. NoUser \notin User /\ \A u \in User : UserLimit[u] \in Nat
    BY AccessAssumption
  <2>5. ASSUME NEW u \in User
        PROVE  Active(u) = {} /\ Creating(u) = {} /\ Admitted(u) = {} /\ Passing(u) = {}
    BY <2>3, <2>4 DEF AccessInit, Active, Creating, Admitted, RowsOf, Passing
  <2>6. ASSUME NEW u \in User
        PROVE  /\ Cardinality(Active(u)) = 0 /\ Cardinality(Creating(u)) = 0
               /\ Cardinality(Admitted(u)) = 0 /\ Cardinality(Passing(u)) = 0
    BY <2>5, FS_EmptySet
  <2>7. Cardinality(Call) \in Nat /\ MaxTokens \in Nat \ {0}
    BY CallsCounted, AccessAssumption
  <2>8. TokenBudget /\ CallBudget
    BY <2>4, <2>6, <2>7 DEF TokenBudget, CallBudget
  <2> QED
    BY <2>1, <2>2, <2>8 DEF AccessInv
<1> QED
  BY <1>1, AccessStep, PTL DEF AccessSpec

\* CreateToken counts the active tokens and inserts the row in two statements,
\* without a transaction: however the calls of a user interleave, and whatever
\* expires or is revoked between, the excess over the maximum is at most the
\* calls that run at once, less one.
THEOREM TokensWithinQuota == AccessSpec => []TokenQuota
<1>1. AccessInv => TokenQuota
  <2> SUFFICES ASSUME AccessInv, NEW u \in User
               PROVE  CountActiveByUserID(u) <= MaxTokens + Cardinality(Call) - 1
    BY DEF TokenQuota
  <2>1. Active(u) \subseteq TokenId /\ Creating(u) \subseteq Call
    BY DEF Active, Creating
  <2>2. /\ Cardinality(Active(u)) \in Nat /\ Cardinality(Creating(u)) \in Nat
        /\ Cardinality(Call) \in Nat /\ MaxTokens \in Nat
    BY <2>1, TokensCounted, CallsCounted, AccessAssumption
  <2>3. Cardinality(Active(u)) + Cardinality(Creating(u))
            <= MaxTokens + Cardinality(Call) - 1
    BY DEF AccessInv, TokenBudget
  <2> QED
    BY <2>2, <2>3 DEF CountActiveByUserID
<1> QED
  BY <1>1, AccessInvariance, PTL

\* CheckAndIncrement counts a snapshot and commits its row later: the calls of a
\* user let through within one window exceed its limit by at most the calls that
\* run at once, for every limit and however rows expire meanwhile.
THEOREM CallsWithinBudget == AccessSpec => []ApiBudget
<1>1. AccessInv => ApiBudget
  <2> SUFFICES ASSUME AccessInv, NEW u \in User
               PROVE  Cardinality(Admitted(u)) <= UserLimit[u] + Cardinality(Call)
    BY DEF ApiBudget, Admitted
  <2>1. Admitted(u) \subseteq DOMAIN log /\ Passing(u) \subseteq Call
    BY DEF Admitted, RowsOf, Passing
  <2>2. /\ Cardinality(Admitted(u)) \in Nat /\ Cardinality(Passing(u)) \in Nat
        /\ Cardinality(Call) \in Nat /\ UserLimit[u] \in Nat
    BY <2>1, RowsCounted, CallsCounted, AccessAssumption DEF AccessInv, AccessTypeOK
  <2>3. Cardinality(Admitted(u)) + Cardinality(Passing(u))
            <= UserLimit[u] + Cardinality(Call)
    BY DEF AccessInv, CallBudget
  <2> QED
    BY <2>2, <2>3
<1> QED
  BY <1>1, AccessInvariance, PTL

-----------------------------------------------------------------------------
(* Logins *)

\* Logins past Allow that may still record a failure of e, and those past AllowIP
\* that may still record one from i.
Trying(e) == {q \in Login : login[q].email = e /\ login[q].pc \in {"compare", "recordEmail"}}
TryingIP(i) == {q \in Login : /\ login[q].ip = i
                              /\ login[q].pc \in {"email", "compare", "recordEmail", "recordIP"}}

\* Ages are not bounded here: pruning and counting do without.
IpFailure == [age : Nat, local : BOOLEAN]

LoginTypes ==
    /\ attempts \in [Email -> Seq(Nat)]
    /\ ipAttempts \in [Ip -> Seq(IpFailure)]
    /\ login \in [Login -> [pc : LoginPc, email : Email, ip : Ip]]

\* Recorded failures and failures that may yet be recorded, together.
EmailBudget ==
    \A e \in Email : Len(attempts[e]) + Cardinality(Trying(e))
                        <= MaxAttempts + Cardinality(Login) - 1

IpBudget ==
    \A i \in Ip : LocalFailures(i) + Cardinality(TryingIP(i))
                        <= Threshold[1] + Cardinality(Login) - 1

LimiterInv == LoginTypes /\ EmailBudget /\ IpBudget

-----------------------------------------------------------------------------
(* Counting failures and logins *)

\* A set of logins is finite, and no larger than the whole.
LEMMA LoginsCounted ==
    ASSUME NEW S \in SUBSET Login
    PROVE  /\ IsFiniteSet(S) /\ Cardinality(S) \in Nat
           /\ Cardinality(S) <= Cardinality(Login) /\ Cardinality(Login) \in Nat
BY LimitAssumption, FS_Subset, FS_CardinalityType

LEMMA IndicesCounted ==
    ASSUME NEW n \in Nat, NEW S \in SUBSET (1..n)
    PROVE  IsFiniteSet(S) /\ Cardinality(S) \in Nat /\ Cardinality(S) <= n
<1>1. IsFiniteSet(1..n) /\ Cardinality(1..n) = n
  BY FS_Interval
<1> QED
  BY <1>1, FS_Subset, FS_CardinalityType

LEMMA FunctionIsSeq ==
    ASSUME NEW S, NEW n \in Nat, NEW f \in [1..n -> S]
    PROVE  f \in Seq(S) /\ Len(f) = n
  OBVIOUS

LEMMA DroppedShorter ==
    ASSUME NEW S, NEW s \in Seq(S), NEW d \in 0..Len(s)
    PROVE  /\ SubSeq(s, d + 1, Len(s)) \in Seq(S)
           /\ Len(SubSeq(s, d + 1, Len(s))) = Len(s) - d
           /\ \A n \in 1..(Len(s) - d) : SubSeq(s, d + 1, Len(s))[n] = s[n + d]
<1>1. \A i \in (d + 1)..Len(s) : s[i] \in S
  OBVIOUS
<1>2. d + 1 \in Int /\ Len(s) \in Int
  OBVIOUS
<1> DEFINE t == SubSeq(s, d + 1, Len(s))
<1>3. /\ t \in Seq(S)
      /\ Len(t) = IF d + 1 <= Len(s) THEN Len(s) - (d + 1) + 1 ELSE 0
      /\ \A i \in 1 .. (Len(s) - (d + 1) + 1) : t[i] = s[(d + 1) + i - 1]
  BY <1>1, <1>2, SubSeqProperties
<1> HIDE DEF t
<1>4. Len(t) = Len(s) - d
  BY <1>3
<1>5. \A n \in 1..(Len(s) - d) : t[n] = s[n + d]
  BY <1>3
<1> QED
  BY <1>3, <1>4, <1>5 DEF t

\* Pruning takes failures away from the front, and nothing else.
LEMMA PrunedShorter ==
    ASSUME NEW s \in Seq(Nat)
    PROVE  Pruned(s) \in Seq(Nat) /\ Len(Pruned(s)) \in Nat /\ Len(Pruned(s)) <= Len(s)
<1> DEFINE expired == {n \in DOMAIN s : \A m \in 1..n : ~Kept(s[m])}
           d == Cardinality(expired)
<1>1. expired \in SUBSET (1..Len(s)) /\ Len(s) \in Nat
  OBVIOUS
<1> HIDE DEF expired
<1>2. d \in 0..Len(s)
  BY <1>1, IndicesCounted
<1> HIDE DEF d
<1>3. Pruned(s) = SubSeq(s, d + 1, Len(s))
  BY DEF Pruned, d, expired
<1> QED
  BY <1>1, <1>2, <1>3, DroppedShorter

LEMMA PrunedIPShorter ==
    ASSUME NEW s \in Seq(IpFailure)
    PROVE  \E d \in 0..Len(s) :
              /\ PrunedIP(s) \in Seq(IpFailure)
              /\ Len(PrunedIP(s)) = Len(s) - d
              /\ \A n \in 1..(Len(s) - d) : PrunedIP(s)[n] = s[n + d]
<1> DEFINE expired == {n \in DOMAIN s : \A m \in 1..n : ~Kept(s[m].age)}
           d == Cardinality(expired)
<1>1. expired \in SUBSET (1..Len(s)) /\ Len(s) \in Nat
  OBVIOUS
<1> HIDE DEF expired
<1>2. d \in 0..Len(s)
  BY <1>1, IndicesCounted
<1> HIDE DEF d
<1>3. PrunedIP(s) = SubSeq(s, d + 1, Len(s))
  BY DEF PrunedIP, d, expired
<1> QED
  BY <1>1, <1>2, <1>3, DroppedShorter

LEMMA LocalsCounted ==
    ASSUME NEW s \in Seq(IpFailure)
    PROVE  /\ IsFiniteSet(Locals(s)) /\ Cardinality(Locals(s)) \in Nat
           /\ Cardinality(Locals(s)) <= Len(s)
<1>1. Locals(s) \in SUBSET (1..Len(s)) /\ Len(s) \in Nat
  BY DEF Locals
<1> QED
  BY <1>1, IndicesCounted

\* Pruning adds no local failure.
LEMMA PrunedLocals ==
    ASSUME NEW s \in Seq(IpFailure)
    PROVE  /\ PrunedIP(s) \in Seq(IpFailure)
           /\ Cardinality(Locals(PrunedIP(s))) <= Cardinality(Locals(s))
<1> DEFINE t == PrunedIP(s)
<1>1. PICK d \in 0..Len(s) : /\ t \in Seq(IpFailure)
                             /\ Len(t) = Len(s) - d
                             /\ \A n \in 1..(Len(s) - d) : t[n] = s[n + d]
  BY PrunedIPShorter
<1> HIDE DEF t
<1>2. DOMAIN t = 1..(Len(s) - d) /\ DOMAIN s = 1..Len(s) /\ Len(s) \in Nat
  BY <1>1
<1> DEFINE f == [n \in Locals(t) |-> n + d]
<1>3. \A n \in Locals(t) : n \in Nat /\ n + d \in Locals(s)
  <2> SUFFICES ASSUME NEW n \in Locals(t) PROVE n \in Nat /\ n + d \in Locals(s)
    OBVIOUS
  <2>1. n \in 1..(Len(s) - d) /\ t[n].local
    BY <1>2 DEF Locals
  <2>2. n + d \in 1..Len(s) /\ t[n] = s[n + d]
    BY <1>1, <1>2, <2>1
  <2> QED
    BY <1>2, <2>1, <2>2 DEF Locals
<1>4. f \in [Locals(t) -> Locals(s)]
  BY <1>3
<1>5. \A m, n \in Locals(t) : f[m] = f[n] => m = n
  BY <1>3
<1>6. f \in Injection(Locals(t), Locals(s))
  BY <1>4, <1>5 DEF Injection, IsInjective
<1> QED
  BY <1>1, <1>6, LocalsCounted, FS_Injection DEF t

LEMMA AppendedLocals ==
    ASSUME NEW s \in Seq(IpFailure), NEW x \in IpFailure
    PROVE  /\ Append(s, x) \in Seq(IpFailure)
           /\ Cardinality(Locals(Append(s, x)))
                 = Cardinality(Locals(s)) + (IF x.local THEN 1 ELSE 0)
<1> DEFINE t == Append(s, x)
           n == Len(s) + 1
<1>1. /\ t \in Seq(IpFailure) /\ Len(t) = n /\ t[n] = x
      /\ \A i \in 1..Len(s) : t[i] = s[i]
  BY AppendProperties
<1> HIDE DEF t
<1>2. DOMAIN t = 1..n /\ DOMAIN s = 1..Len(s) /\ Len(s) \in Nat
  BY <1>1
<1>3. Locals(t) = IF x.local THEN Locals(s) \cup {n} ELSE Locals(s)
  BY <1>1, <1>2 DEF Locals
<1>4. n \notin Locals(s)
  BY <1>2 DEF Locals
<1>5. x.local => Cardinality(Locals(s) \cup {n}) = Cardinality(Locals(s)) + 1
  BY <1>4, LocalsCounted, FS_AddElement
<1>6. Cardinality(Locals(s)) \in Nat
  BY LocalsCounted
<1> QED
  BY <1>1, <1>3, <1>5, <1>6 DEF t
LEMMA FirstTier == 1 \in Tier /\ Threshold[1] \in Nat \ {0}
  BY TierAssumption DEF Tier

\* Without a tier reached, the first one is not.
LEMMA NoTier ==
    ASSUME NEW n \in Nat, TierOf(n) = 0
    PROVE  n < Threshold[1]
<1> DEFINE reached == {t \in Tier : n >= Threshold[t]}
<1>1. Len(Threshold) \in Nat
  BY TierAssumption
<1>2. reached \in SUBSET (1..Len(Threshold))
  BY DEF Tier
<1>3. IsFiniteSet(reached)
  BY <1>1, <1>2, IndicesCounted
<1>4. reached = {}
  BY <1>3, FS_EmptySet DEF TierOf
<1> QED
  BY <1>4, FirstTier

LEMMA LengthsCounted == LimiterInv => \A e \in Email : Len(attempts[e]) \in Nat
  BY DEF LimiterInv, LoginTypes

LEMMA FailuresCounted == LimiterInv => \A i \in Ip : LocalFailures(i) \in Nat
  BY LocalsCounted DEF LimiterInv, LoginTypes, LocalFailures

-----------------------------------------------------------------------------
(* The budgets of logins *)

\* Pruning and resetting only take away; a check that admits has counted; a
\* failure is recorded by a login that was counted as trying.
LEMMA EmailSide ==
    ASSUME LimiterInv, LoginTypes', NEW e \in Email,
           \/ Len(attempts'[e]) <= Len(attempts[e]) /\ Trying(e)' \subseteq Trying(e)
           \/ Len(attempts'[e]) < MaxAttempts
           \/ \E q \in Trying(e) : /\ Len(attempts'[e]) <= Len(attempts[e]) + 1
                                   /\ Trying(e)' \subseteq Trying(e) \ {q}
    PROVE  Len(attempts'[e]) + Cardinality(Trying(e)') <= MaxAttempts + Cardinality(Login) - 1
<1> DEFINE old == Trying(e)
           new == Trying(e)'
           m == Len(attempts[e])
           n == Len(attempts'[e])
<1>1. old \in SUBSET Login /\ new \in SUBSET Login
  BY DEF Trying
<1>2. m \in Nat /\ n \in Nat
  BY DEF LimiterInv, LoginTypes
<1>3. m + Cardinality(old) <= MaxAttempts + Cardinality(Login) - 1
  BY DEF LimiterInv, EmailBudget
<1>4. \/ n <= m /\ new \subseteq old
      \/ n < MaxAttempts
      \/ \E q \in old : n <= m + 1 /\ new \subseteq old \ {q}
  OBVIOUS
<1> HIDE DEF old, new, m, n
<1>5. /\ Cardinality(old) \in Nat /\ Cardinality(new) \in Nat /\ Cardinality(Login) \in Nat
      /\ Cardinality(new) <= Cardinality(Login) /\ IsFiniteSet(old)
  BY <1>1, LoginsCounted
<1>6. MaxAttempts \in Nat
  BY LimitAssumption
<1>7. CASE n <= m /\ new \subseteq old
  <2>1. Cardinality(new) <= Cardinality(old)
    BY <1>5, <1>7, FS_Subset
  <2> QED
    BY <1>2, <1>3, <1>5, <1>6, <1>7, <2>1 DEF n, new
<1>8. CASE n < MaxAttempts
  BY <1>2, <1>5, <1>6, <1>8 DEF n, new
<1>9. ASSUME NEW q \in old, n <= m + 1, new \subseteq old \ {q}
      PROVE  n + Cardinality(new) <= MaxAttempts + Cardinality(Login) - 1
  <2>1. IsFiniteSet(old \ {q}) /\ Cardinality(old \ {q}) = Cardinality(old) - 1
    BY <1>5, FS_RemoveElement
  <2>2. Cardinality(new) <= Cardinality(old) - 1
    BY <1>9, <2>1, FS_Subset
  <2> QED
    BY <1>2, <1>3, <1>5, <1>6, <1>9, <2>2
<1> QED
  BY <1>4, <1>7, <1>8, <1>9 DEF n, new

LEMMA IpSide ==
    ASSUME LimiterInv, LoginTypes', NEW i \in Ip,
           \/ LocalFailures(i)' <= LocalFailures(i) /\ TryingIP(i)' \subseteq TryingIP(i)
           \/ LocalFailures(i)' < Threshold[1]
           \/ \E q \in TryingIP(i) : /\ LocalFailures(i)' <= LocalFailures(i) + 1
                                     /\ TryingIP(i)' \subseteq TryingIP(i) \ {q}
    PROVE  LocalFailures(i)' + Cardinality(TryingIP(i)') <= Threshold[1] + Cardinality(Login) - 1
<1> DEFINE old == TryingIP(i)
           new == TryingIP(i)'
           m == LocalFailures(i)
           n == LocalFailures(i)'
<1>1. old \in SUBSET Login /\ new \in SUBSET Login
  BY DEF TryingIP
<1>2. m \in Nat /\ n \in Nat
  <2>1. ipAttempts[i] \in Seq(IpFailure) /\ ipAttempts'[i] \in Seq(IpFailure)
    BY DEF LimiterInv, LoginTypes
  <2> QED
    BY <2>1, LocalsCounted DEF LocalFailures
<1>3. m + Cardinality(old) <= Threshold[1] + Cardinality(Login) - 1
  BY DEF LimiterInv, IpBudget
<1>4. \/ n <= m /\ new \subseteq old
      \/ n < Threshold[1]
      \/ \E q \in old : n <= m + 1 /\ new \subseteq old \ {q}
  OBVIOUS
<1> HIDE DEF old, new, m, n
<1>5. /\ Cardinality(old) \in Nat /\ Cardinality(new) \in Nat /\ Cardinality(Login) \in Nat
      /\ Cardinality(new) <= Cardinality(Login) /\ IsFiniteSet(old)
  BY <1>1, LoginsCounted
<1>6. Threshold[1] \in Nat
  BY FirstTier
<1>7. CASE n <= m /\ new \subseteq old
  <2>1. Cardinality(new) <= Cardinality(old)
    BY <1>5, <1>7, FS_Subset
  <2> QED
    BY <1>2, <1>3, <1>5, <1>6, <1>7, <2>1 DEF n, new
<1>8. CASE n < Threshold[1]
  BY <1>2, <1>5, <1>6, <1>8 DEF n, new
<1>9. ASSUME NEW q \in old, n <= m + 1, new \subseteq old \ {q}
      PROVE  n + Cardinality(new) <= Threshold[1] + Cardinality(Login) - 1
  <2>1. IsFiniteSet(old \ {q}) /\ Cardinality(old \ {q}) = Cardinality(old) - 1
    BY <1>5, FS_RemoveElement
  <2>2. Cardinality(new) <= Cardinality(old) - 1
    BY <1>9, <2>1, FS_Subset
  <2> QED
    BY <1>2, <1>3, <1>5, <1>6, <1>9, <2>2
<1> QED
  BY <1>4, <1>7, <1>8, <1>9 DEF n, new

-----------------------------------------------------------------------------
(* The steps of logins *)

\* A login goes on to another step.
LEMMA LoginMoves ==
    ASSUME LimiterInv, NEW q \in Login, NEW pc \in LoginPc, LoginGoTo(q, pc)
    PROVE  /\ login' \in [Login -> [pc : LoginPc, email : Email, ip : Ip]]
           /\ login'[q].pc = pc
           /\ login'[q].email = login[q].email
           /\ login'[q].ip = login[q].ip
           /\ \A r \in Login \ {q} : login'[r] = login[r]
  BY DEF LimiterInv, LoginTypes, LoginGoTo

\* An admitted login finds fewer failures than the first tier's threshold.
LEMMA CheckIPStep ==
    ASSUME LimiterInv, NEW q \in Login, NEW e \in Email, NEW i \in Ip, CheckIP(q, e, i)
    PROVE  LimiterInv'
<1> DEFINE s == ipAttempts[i]
           new == [pc |-> "email", email |-> e, ip |-> i]
<1>0. attempts' = attempts /\ login[q].pc = "idle"
  BY DEF CheckIP, LoginAt
<1>1. s \in Seq(IpFailure)
  BY DEF LimiterInv, LoginTypes
<1>2. PrunedIP(s) \in Seq(IpFailure) /\ Cardinality(Locals(PrunedIP(s))) <= Cardinality(Locals(s))
  BY <1>1, PrunedLocals
<1>3. CASE AllowIP(i) /\ login' = [login EXCEPT ![q] = new]
  <2>1. ipAttempts' = [ipAttempts EXCEPT ![i] = PrunedIP(s)] /\ TierOf(Len(PrunedIP(s))) = 0
    BY <1>3 DEF AllowIP
  <2>2. new \in [pc : LoginPc, email : Email, ip : Ip]
    BY DEF LoginPc
  <2>3. /\ login' \in [Login -> [pc : LoginPc, email : Email, ip : Ip]] /\ login'[q] = new
        /\ \A r \in Login \ {q} : login'[r] = login[r]
    BY <1>3, <2>2 DEF LimiterInv, LoginTypes
  <2>4. LoginTypes'
    BY <1>0, <1>2, <2>1, <2>3 DEF LimiterInv, LoginTypes
  <2>5. \A d \in Email : Trying(d)' \subseteq Trying(d)
    BY <2>3 DEF Trying
  <2>6. \A j \in Ip \ {i} : TryingIP(j)' \subseteq TryingIP(j) /\ LocalFailures(j)' = LocalFailures(j)
    <3> SUFFICES ASSUME NEW j \in Ip \ {i}
                 PROVE  TryingIP(j)' \subseteq TryingIP(j) /\ LocalFailures(j)' = LocalFailures(j)
      OBVIOUS
    <3>1. ipAttempts'[j] = ipAttempts[j]
      BY <2>1 DEF LimiterInv, LoginTypes
    <3>2. LocalFailures(j)' = LocalFailures(j)
      BY <3>1 DEF LocalFailures
    <3>3. TryingIP(j)' \subseteq TryingIP(j)
      BY <2>3 DEF TryingIP
    <3> QED
      BY <3>2, <3>3
  <2>7. LocalFailures(i)' < Threshold[1]
    <3>1. ipAttempts'[i] = PrunedIP(s)
      BY <2>1 DEF LimiterInv, LoginTypes
    <3>2. Len(PrunedIP(s)) < Threshold[1]
      BY <1>2, <2>1, NoTier
    <3>3. Cardinality(Locals(PrunedIP(s))) <= Len(PrunedIP(s)) /\ Cardinality(Locals(PrunedIP(s))) \in Nat
      BY <1>2, LocalsCounted
    <3>4. Len(PrunedIP(s)) \in Nat /\ Threshold[1] \in Nat
      BY <1>2, FirstTier
    <3> QED
      BY <3>1, <3>2, <3>3, <3>4 DEF LocalFailures
  <2>8. EmailBudget'
    BY <1>0, <2>4, <2>5, EmailSide, LengthsCounted DEF EmailBudget
  <2>9. IpBudget'
    BY <2>4, <2>6, <2>7, IpSide, FailuresCounted DEF IpBudget
  <2> QED
    BY <2>4, <2>8, <2>9 DEF LimiterInv
<1>4. CASE DenyIP(i) /\ login' = login
  <2>1. ipAttempts' = ipAttempts \/ ipAttempts' = [ipAttempts EXCEPT ![i] = PrunedIP(s)]
    BY <1>4 DEF DenyIP
  <2>2. LoginTypes'
    BY <1>0, <1>2, <1>4, <2>1 DEF LimiterInv, LoginTypes
  <2>3. \A j \in Ip : LocalFailures(j)' <= LocalFailures(j)
    <3> SUFFICES ASSUME NEW j \in Ip PROVE LocalFailures(j)' <= LocalFailures(j)
      OBVIOUS
    <3>1. LocalFailures(j) \in Nat
      BY FailuresCounted
    <3>2. \/ ipAttempts'[j] = ipAttempts[j]
          \/ j = i /\ ipAttempts'[i] = PrunedIP(s)
      BY <2>1 DEF LimiterInv, LoginTypes
    <3> QED
      BY <1>2, <3>1, <3>2 DEF LocalFailures
  <2>4. \A d \in Email : Trying(d)' = Trying(d)
    BY <1>4 DEF Trying
  <2>5. \A j \in Ip : TryingIP(j)' = TryingIP(j)
    BY <1>4 DEF TryingIP
  <2>6. EmailBudget'
    BY <1>0, <2>2, <2>4, EmailSide, LengthsCounted DEF EmailBudget
  <2>7. IpBudget'
    BY <2>2, <2>3, <2>5, IpSide DEF IpBudget
  <2> QED
    BY <2>2, <2>6, <2>7 DEF LimiterInv
<1> QED
  BY <1>3, <1>4 DEF CheckIP

\* A step that leaves the addresses' failures alone and starts no login.
LEMMA IpKept ==
    ASSUME LimiterInv, LoginTypes', ipAttempts' = ipAttempts,
           \A i \in Ip : TryingIP(i)' \subseteq TryingIP(i)
    PROVE  IpBudget'
<1>1. \A i \in Ip : LocalFailures(i)' <= LocalFailures(i)
  BY FailuresCounted DEF LocalFailures
<1> QED
  BY <1>1, IpSide DEF IpBudget

\* Likewise for the e-mails' failures.
LEMMA EmailKept ==
    ASSUME LimiterInv, LoginTypes', attempts' = attempts,
           \A e \in Email : Trying(e)' \subseteq Trying(e)
    PROVE  EmailBudget'
  BY EmailSide, LengthsCounted DEF EmailBudget

LEMMA CheckEmailStep ==
    ASSUME LimiterInv, NEW q \in Login, CheckEmail(q)
    PROVE  LimiterInv'
<1> DEFINE e == login[q].email
           s == attempts[e]
<1>0. ipAttempts' = ipAttempts /\ login[q].pc = "email" /\ e \in Email /\ s \in Seq(Nat)
  BY DEF CheckEmail, LoginAt, LimiterInv, LoginTypes
<1>1. Pruned(s) \in Seq(Nat) /\ Len(Pruned(s)) \in Nat /\ Len(Pruned(s)) <= Len(s)
  BY <1>0, PrunedShorter
<1>2. attempts' = [attempts EXCEPT ![e] = Pruned(s)]
  BY DEF CheckEmail, Allow
<1>3. /\ attempts' \in [Email -> Seq(Nat)] /\ attempts'[e] = Pruned(s)
      /\ \A d \in Email \ {e} : attempts'[d] = attempts[d]
  BY <1>1, <1>2 DEF LimiterInv, LoginTypes
<1>4. PICK pc \in {"compare", "idle"} :
          LoginGoTo(q, pc) /\ (pc = "compare" => Len(Pruned(s)) < MaxAttempts)
  BY DEF CheckEmail, Allow
<1>5. /\ login' \in [Login -> [pc : LoginPc, email : Email, ip : Ip]]
      /\ login'[q].pc = pc /\ login'[q].email = e /\ login'[q].ip = login[q].ip
      /\ \A r \in Login \ {q} : login'[r] = login[r]
  BY <1>4, LoginMoves DEF LoginPc
<1>6. LoginTypes'
  BY <1>0, <1>3, <1>5 DEF LimiterInv, LoginTypes
<1>7. \A i \in Ip : TryingIP(i)' \subseteq TryingIP(i)
  BY <1>0, <1>4, <1>5 DEF TryingIP
<1>8. \A d \in Email : Trying(d)' \subseteq Trying(d) \/ (d = e /\ pc = "compare")
  BY <1>4, <1>5 DEF Trying
<1>9. EmailBudget'
  <2> SUFFICES ASSUME NEW d \in Email
               PROVE  Len(attempts'[d]) + Cardinality(Trying(d)')
                          <= MaxAttempts + Cardinality(Login) - 1
    BY DEF EmailBudget
  <2>1. CASE d = e /\ pc = "compare"
    BY <1>3, <1>4, <1>6, <2>1, EmailSide
  <2>2. CASE Trying(d)' \subseteq Trying(d)
    <3>1. Len(attempts'[d]) <= Len(attempts[d])
      <4>1. Len(attempts[d]) \in Nat
        BY LengthsCounted
      <4>2. attempts'[d] = IF d = e THEN Pruned(s) ELSE attempts[d]
        BY <1>3
      <4> QED
        BY <1>1, <4>1, <4>2
    <3> QED
      BY <1>6, <2>2, <3>1, EmailSide
  <2> QED
    BY <1>8, <2>1, <2>2
<1> QED
  BY <1>0, <1>6, <1>7, <1>9, IpKept DEF LimiterInv

LEMMA CompareStep ==
    ASSUME LimiterInv, NEW q \in Login, Compare(q)
    PROVE  LimiterInv'
<1> DEFINE e == login[q].email
<1>0. ipAttempts' = ipAttempts /\ login[q].pc = "compare" /\ e \in Email
  BY DEF Compare, LoginAt, LimiterInv, LoginTypes
<1>1. PICK pc \in {"recordEmail", "idle", "resetIP"} :
          LoginGoTo(q, pc) /\ (attempts' = attempts \/ attempts' = [attempts EXCEPT ![e] = << >>])
  BY DEF Compare, Reset
<1>2. /\ login' \in [Login -> [pc : LoginPc, email : Email, ip : Ip]]
      /\ login'[q].pc = pc /\ login'[q].email = e /\ login'[q].ip = login[q].ip
      /\ \A r \in Login \ {q} : login'[r] = login[r]
  BY <1>1, LoginMoves DEF LoginPc
<1>3. << >> \in Seq(Nat) /\ Len(<< >>) = 0
  OBVIOUS
<1>4. /\ attempts' \in [Email -> Seq(Nat)]
      /\ \A d \in Email : attempts'[d] = attempts[d] \/ attempts'[d] = << >>
  BY <1>1, <1>3 DEF LimiterInv, LoginTypes
<1>5. LoginTypes'
  BY <1>0, <1>2, <1>4 DEF LimiterInv, LoginTypes
<1>6. \A i \in Ip : TryingIP(i)' \subseteq TryingIP(i)
  BY <1>0, <1>1, <1>2 DEF TryingIP
<1>7. \A d \in Email : Trying(d)' \subseteq Trying(d)
  BY <1>0, <1>2 DEF Trying
<1>8. \A d \in Email : Len(attempts'[d]) <= Len(attempts[d])
  BY <1>3, <1>4, LengthsCounted
<1>9. EmailBudget'
  BY <1>5, <1>7, <1>8, EmailSide DEF EmailBudget
<1> QED
  BY <1>0, <1>5, <1>6, <1>9, IpKept DEF LimiterInv

LEMMA RecordStep ==
    ASSUME LimiterInv, NEW q \in Login, RecordFailure(q)
    PROVE  LimiterInv'
<1> PICK e \in Email : e = login[q].email
  BY DEF LimiterInv, LoginTypes
<1> DEFINE s == attempts[e]
           t == Append(Pruned(s), 0)
<1>0. /\ ipAttempts' = ipAttempts /\ login[q].pc = "recordEmail" /\ s \in Seq(Nat)
      /\ LoginGoTo(q, "recordIP") /\ attempts' = [attempts EXCEPT ![e] = t]
  BY DEF RecordFailure, Record, LoginAt, LimiterInv, LoginTypes
<1>1. Pruned(s) \in Seq(Nat) /\ Len(Pruned(s)) \in Nat /\ Len(Pruned(s)) <= Len(s)
  BY <1>0, PrunedShorter
<1>2. t \in Seq(Nat) /\ Len(t) = Len(Pruned(s)) + 1
  BY <1>1, AppendProperties
<1> HIDE DEF t
<1>3. /\ attempts' \in [Email -> Seq(Nat)] /\ attempts'[e] = t
      /\ \A d \in Email \ {e} : attempts'[d] = attempts[d]
  BY <1>0, <1>2 DEF LimiterInv, LoginTypes
<1>4. /\ login' \in [Login -> [pc : LoginPc, email : Email, ip : Ip]]
      /\ login'[q].pc = "recordIP" /\ login'[q].email = e /\ login'[q].ip = login[q].ip
      /\ \A r \in Login \ {q} : login'[r] = login[r]
  BY <1>0, LoginMoves DEF LoginPc
<1>5. LoginTypes'
  BY <1>0, <1>3, <1>4 DEF LimiterInv, LoginTypes
<1>6. \A i \in Ip : TryingIP(i)' \subseteq TryingIP(i)
  BY <1>0, <1>4 DEF TryingIP
<1>7. q \in Trying(e) /\ Trying(e)' \subseteq Trying(e) \ {q}
  BY <1>0, <1>4 DEF Trying
<1>8. \A d \in Email : Trying(d)' \subseteq Trying(d)
  BY <1>4 DEF Trying
<1>9. EmailBudget'
  <2> SUFFICES ASSUME NEW d \in Email
               PROVE  Len(attempts'[d]) + Cardinality(Trying(d)')
                          <= MaxAttempts + Cardinality(Login) - 1
    BY DEF EmailBudget
  <2>1. CASE d = e
    <3>1. Len(attempts'[e]) <= Len(attempts[e]) + 1
      BY <1>0, <1>1, <1>2, <1>3, LengthsCounted
    <3> QED
      BY <1>5, <1>7, <2>1, <3>1, EmailSide
  <2>2. CASE d # e
    <3>1. Len(attempts'[d]) <= Len(attempts[d])
      BY <1>3, <2>2, LengthsCounted
    <3> QED
      BY <1>5, <1>8, <3>1, EmailSide
  <2> QED
    BY <2>1, <2>2
<1> QED
  BY <1>0, <1>5, <1>6, <1>9, IpKept DEF LimiterInv

\* A failure from an address is recorded.
LEMMA IpRecorded ==
    ASSUME LimiterInv, NEW i \in Ip, NEW local \in BOOLEAN, RecordIP(i, local)
    PROVE  /\ ipAttempts' \in [Ip -> Seq(IpFailure)]
           /\ \A j \in Ip \ {i} : ipAttempts'[j] = ipAttempts[j]
           /\ Cardinality(Locals(ipAttempts'[i]))
                 <= Cardinality(Locals(ipAttempts[i])) + (IF local THEN 1 ELSE 0)
<1> DEFINE s == ipAttempts[i]
           x == [age |-> 0, local |-> local]
           t == Append(PrunedIP(s), x)
<1>1. s \in Seq(IpFailure) /\ ipAttempts' = [ipAttempts EXCEPT ![i] = t]
  BY DEF LimiterInv, LoginTypes, RecordIP
<1>2. x \in IpFailure /\ x.local = local
  BY DEF IpFailure
<1>3. PrunedIP(s) \in Seq(IpFailure) /\ Cardinality(Locals(PrunedIP(s))) <= Cardinality(Locals(s))
  BY <1>1, PrunedLocals
<1> HIDE DEF x
<1>4. t \in Seq(IpFailure) /\ Cardinality(Locals(t))
          = Cardinality(Locals(PrunedIP(s))) + (IF x.local THEN 1 ELSE 0)
  BY <1>2, <1>3, AppendedLocals
<1>5. Cardinality(Locals(s)) \in Nat /\ Cardinality(Locals(PrunedIP(s))) \in Nat
  BY <1>1, <1>3, LocalsCounted
<1> HIDE DEF t
<1>6. ipAttempts' \in [Ip -> Seq(IpFailure)] /\ ipAttempts'[i] = t
  BY <1>1, <1>4 DEF LimiterInv, LoginTypes
<1>7. \A j \in Ip \ {i} : ipAttempts'[j] = ipAttempts[j]
  BY <1>1 DEF LimiterInv, LoginTypes
<1>8. Cardinality(Locals(t)) <= Cardinality(Locals(s)) + (IF local THEN 1 ELSE 0)
  BY <1>2, <1>3, <1>4, <1>5
<1> QED
  BY <1>6, <1>7, <1>8

LEMMA RecordIPStep ==
    ASSUME LimiterInv, NEW q \in Login, RecordFailureIP(q)
    PROVE  LimiterInv'
<1> PICK i \in Ip : i = login[q].ip
  BY DEF LimiterInv, LoginTypes
<1>0. /\ attempts' = attempts /\ login[q].pc = "recordIP"
      /\ LoginGoTo(q, "idle") /\ RecordIP(i, TRUE) /\ TRUE \in BOOLEAN
  BY DEF RecordFailureIP, LoginAt, LimiterInv, LoginTypes
<1>1. /\ ipAttempts' \in [Ip -> Seq(IpFailure)]
      /\ \A j \in Ip \ {i} : ipAttempts'[j] = ipAttempts[j]
      /\ Cardinality(Locals(ipAttempts'[i])) <= Cardinality(Locals(ipAttempts[i])) + 1
  BY <1>0, IpRecorded
<1>2. /\ login' \in [Login -> [pc : LoginPc, email : Email, ip : Ip]]
      /\ login'[q].pc = "idle" /\ login'[q].email = login[q].email /\ login'[q].ip = i
      /\ \A r \in Login \ {q} : login'[r] = login[r]
  BY <1>0, LoginMoves DEF LoginPc
<1>3. LoginTypes'
  BY <1>0, <1>1, <1>2 DEF LimiterInv, LoginTypes
<1>4. \A e \in Email : Trying(e)' \subseteq Trying(e)
  BY <1>2 DEF Trying
<1>5. q \in TryingIP(i) /\ TryingIP(i)' \subseteq TryingIP(i) \ {q}
  BY <1>0, <1>2 DEF TryingIP
<1>6. \A j \in Ip : TryingIP(j)' \subseteq TryingIP(j)
  BY <1>2 DEF TryingIP
<1>7. LocalFailures(i)' <= LocalFailures(i) + 1
  BY <1>1 DEF LocalFailures
<1>8. \A j \in Ip \ {i} : LocalFailures(j)' <= LocalFailures(j)
  BY <1>1, FailuresCounted DEF LocalFailures
<1>9. IpBudget'
  BY <1>0, <1>3, <1>5, <1>6, <1>7, <1>8, IpSide DEF IpBudget
<1> QED
  BY <1>0, <1>3, <1>4, <1>9, EmailKept DEF LimiterInv

LEMMA SucceedsStep ==
    ASSUME LimiterInv, NEW q \in Login, LoginSucceeds(q)
    PROVE  LimiterInv'
<1> DEFINE i == login[q].ip
<1>0. /\ attempts' = attempts /\ i \in Ip /\ LoginGoTo(q, "idle")
      /\ ipAttempts' = [ipAttempts EXCEPT ![i] = << >>]
  BY DEF LoginSucceeds, ResetIP, LimiterInv, LoginTypes
<1>1. << >> \in Seq(IpFailure) /\ Cardinality(Locals(<< >>)) = 0
  <2>1. << >> \in Seq(IpFailure) /\ Len(<< >>) = 0
    OBVIOUS
  <2>2. Cardinality(Locals(<< >>)) \in Nat /\ Cardinality(Locals(<< >>)) <= Len(<< >>)
    BY <2>1, LocalsCounted, Zenon
  <2> QED
    BY <2>1, <2>2
<1>2. /\ ipAttempts' \in [Ip -> Seq(IpFailure)] /\ ipAttempts'[i] = << >>
      /\ \A j \in Ip \ {i} : ipAttempts'[j] = ipAttempts[j]
  BY <1>0, <1>1 DEF LimiterInv, LoginTypes
<1>3. /\ login' \in [Login -> [pc : LoginPc, email : Email, ip : Ip]]
      /\ login'[q].pc = "idle"
      /\ \A r \in Login \ {q} : login'[r] = login[r]
  BY <1>0, LoginMoves DEF LoginPc
<1>4. LoginTypes'
  BY <1>0, <1>2, <1>3 DEF LimiterInv, LoginTypes
<1>5. \A e \in Email : Trying(e)' \subseteq Trying(e)
  BY <1>3 DEF Trying
<1>6. \A j \in Ip : TryingIP(j)' \subseteq TryingIP(j)
  BY <1>3 DEF TryingIP
<1>7. \A j \in Ip : LocalFailures(j)' <= LocalFailures(j)
  BY <1>1, <1>2, FailuresCounted DEF LocalFailures
<1>8. IpBudget'
  BY <1>4, <1>6, <1>7, IpSide DEF IpBudget
<1> QED
  BY <1>0, <1>4, <1>5, <1>8, EmailKept DEF LimiterInv

LEMMA GoogleStep ==
    ASSUME LimiterInv, NEW i \in Ip, GoogleFailure(i)
    PROVE  LimiterInv'
<1>0. UNCHANGED <<attempts, login>> /\ RecordIP(i, FALSE) /\ FALSE \in BOOLEAN
  BY DEF GoogleFailure
<1>1. /\ ipAttempts' \in [Ip -> Seq(IpFailure)]
      /\ \A j \in Ip \ {i} : ipAttempts'[j] = ipAttempts[j]
      /\ Cardinality(Locals(ipAttempts'[i])) <= Cardinality(Locals(ipAttempts[i])) + 0
  BY <1>0, IpRecorded
<1>2. LoginTypes'
  BY <1>0, <1>1 DEF LimiterInv, LoginTypes
<1>3. /\ \A e \in Email : Trying(e)' \subseteq Trying(e)
      /\ \A j \in Ip : TryingIP(j)' \subseteq TryingIP(j)
  BY <1>0 DEF Trying, TryingIP
<1>4. \A j \in Ip : LocalFailures(j)' <= LocalFailures(j)
  BY <1>1, FailuresCounted DEF LocalFailures
<1>5. IpBudget'
  BY <1>2, <1>3, <1>4, IpSide DEF IpBudget
<1> QED
  BY <1>0, <1>2, <1>3, <1>5, EmailKept DEF LimiterInv

LEMMA TickStep ==
    ASSUME LimiterInv, Tick
    PROVE  LimiterInv'
<1>0. login' = login /\ Window + 1 \in Nat
  BY LimitAssumption DEF Tick
<1>1. \A a \in Nat : Older(a, Window + 1) \in Nat
  BY DEF Older
<1>2. ASSUME NEW e \in Email
      PROVE  attempts'[e] \in Seq(Nat) /\ Len(attempts'[e]) = Len(attempts[e])
  <2>1. attempts[e] \in Seq(Nat) /\ attempts'[e] = [n \in DOMAIN attempts[e] |->
                                              Older(attempts[e][n], Window + 1)]
    BY DEF LimiterInv, LoginTypes, Tick
  <2>2. DOMAIN attempts[e] = 1..Len(attempts[e]) /\ Len(attempts[e]) \in Nat
    BY <2>1
  <2>3. attempts'[e] \in [1..Len(attempts[e]) -> Nat]
    <3>1. \A n \in 1..Len(attempts[e]) : attempts[e][n] \in Nat
      BY <2>1
    <3> QED
      BY <1>1, <2>1, <2>2, <3>1
  <2> QED
    BY <2>2, <2>3, FunctionIsSeq
<1>3. ASSUME NEW i \in Ip
      PROVE  /\ ipAttempts'[i] \in Seq(IpFailure)
             /\ Locals(ipAttempts'[i]) = Locals(ipAttempts[i])
  <2> DEFINE s == ipAttempts[i]
             x(n) == [s[n] EXCEPT !.age = Older(@, Window + 1)]
  <2>1. s \in Seq(IpFailure) /\ ipAttempts'[i] = [n \in DOMAIN s |-> x(n)]
    BY DEF LimiterInv, LoginTypes, Tick
  <2>2. DOMAIN s = 1..Len(s) /\ Len(s) \in Nat
    BY <2>1
  <2>3. \A n \in DOMAIN s : x(n) \in IpFailure /\ x(n).local = s[n].local
    <3> SUFFICES ASSUME NEW n \in DOMAIN s PROVE x(n) \in IpFailure /\ x(n).local = s[n].local
      OBVIOUS
    <3>1. s[n] \in IpFailure
      BY <2>1, <2>2
    <3>2. Older(s[n].age, Window + 1) \in Nat
      BY <1>1, <3>1 DEF IpFailure
    <3> HIDE DEF s
    <3> QED
      BY <3>1, <3>2 DEF IpFailure
  <2> HIDE DEF x, s
  <2>4. ipAttempts'[i] \in Seq(IpFailure)
    <3>1. ipAttempts'[i] \in [1..Len(s) -> IpFailure]
      BY <2>1, <2>2, <2>3
    <3> QED
      BY <2>2, <3>1, FunctionIsSeq
  <2>5. Locals(ipAttempts'[i]) = Locals(s)
    BY <2>1, <2>3 DEF Locals
  <2> QED
    BY <2>4, <2>5 DEF s
<1>4. attempts' = [e \in Email |-> attempts'[e]] /\ ipAttempts' = [i \in Ip |-> ipAttempts'[i]]
  BY DEF Tick
<1>5. LoginTypes'
  BY <1>0, <1>2, <1>3, <1>4 DEF LimiterInv, LoginTypes
<1>6. /\ \A e \in Email : Trying(e)' \subseteq Trying(e)
      /\ \A j \in Ip : TryingIP(j)' \subseteq TryingIP(j)
  BY <1>0 DEF Trying, TryingIP
<1>7. \A e \in Email : Len(attempts'[e]) <= Len(attempts[e])
  BY <1>2, LengthsCounted
<1>8. \A j \in Ip : LocalFailures(j)' <= LocalFailures(j)
  BY <1>3, FailuresCounted DEF LocalFailures
<1>9. EmailBudget'
  BY <1>5, <1>6, <1>7, EmailSide DEF EmailBudget
<1>10. IpBudget'
  BY <1>5, <1>6, <1>8, IpSide DEF IpBudget
<1> QED
  BY <1>5, <1>9, <1>10 DEF LimiterInv

LEMMA LimiterStep == LimiterInv /\ [LoginNext]_loginVars => LimiterInv'
<1> SUFFICES ASSUME LimiterInv, [LoginNext]_loginVars PROVE LimiterInv'
  OBVIOUS
<1>1. ASSUME NEW q \in Login, LoginStep(q) PROVE LimiterInv'
  BY <1>1, CheckIPStep, CheckEmailStep, CompareStep, RecordStep, RecordIPStep, SucceedsStep
     DEF LoginStep
<1>2. CASE UNCHANGED loginVars
  BY <1>2 DEF loginVars, LimiterInv, LoginTypes, EmailBudget, IpBudget, Trying, TryingIP,
              LocalFailures
<1> QED
  BY <1>1, <1>2, GoogleStep, TickStep DEF LoginNext

\* Failures of an e-mail that count, and failures of local logins from one address,
\* exceed maxAttempts and the first tier's threshold by the logins that run at
\* once at most: Allow and Record, AllowIP and RecordIP are separate calls with a
\* password comparison between them, but every record uses up a login that was
\* admitted when the count was below the limit.
THEOREM LoginsWithinBudget == LoginSpec => []LoginBudget
<1>1. LoginInit => LimiterInv
  <2> SUFFICES ASSUME LoginInit PROVE LimiterInv
    OBVIOUS
  <2>1. /\ attempts = [e \in Email |-> << >>] /\ ipAttempts = [i \in Ip |-> << >>]
        /\ login \in [Login -> [pc : {"idle"}, email : Email, ip : Ip]]
    BY DEF LoginInit
  <2>2. LoginTypes
    BY <2>1 DEF LoginTypes, LoginPc
  <2>3. \A q \in Login : login[q].pc = "idle"
    BY <2>1
  <2>4. /\ \A e \in Email : Trying(e) = {}
        /\ \A i \in Ip : TryingIP(i) = {} /\ Locals(ipAttempts[i]) = {}
    BY <2>1, <2>3 DEF Trying, TryingIP, Locals
  <2>5. Cardinality({}) = 0 /\ Cardinality(Login) \in Nat
    BY FS_EmptySet, LoginsCounted
  <2>6. EmailBudget
    <3>1. \A e \in Email : Len(attempts[e]) = 0
      BY <2>1
    <3>2. \A e \in Email : Cardinality(Trying(e)) = 0
      BY <2>4, <2>5
    <3>3. MaxAttempts \in Nat \ {0}
      BY LimitAssumption
    <3> QED
      BY <2>5, <3>1, <3>2, <3>3 DEF EmailBudget
  <2>7. IpBudget
    BY <2>4, <2>5, FirstTier DEF IpBudget, LocalFailures
  <2> QED
    BY <2>2, <2>6, <2>7 DEF LimiterInv
<1>2. LimiterInv => LoginBudget
  <2> SUFFICES ASSUME LimiterInv PROVE LoginBudget
    OBVIOUS
  <2>1. \A e \in Email : Trying(e) \in SUBSET Login
    BY DEF Trying
  <2>2. \A i \in Ip : TryingIP(i) \in SUBSET Login
    BY DEF TryingIP
  <2>3. /\ \A e \in Email : Cardinality(Trying(e)) \in Nat
        /\ \A i \in Ip : Cardinality(TryingIP(i)) \in Nat
        /\ Cardinality(Login) \in Nat
    BY <2>1, <2>2, LoginsCounted
  <2>4. MaxAttempts \in Nat /\ Threshold[1] \in Nat
    BY LimitAssumption, FirstTier
  <2> QED
    BY <2>3, <2>4, LengthsCounted, FailuresCounted
       DEF LimiterInv, EmailBudget, IpBudget, LoginBudget
<1> QED
  BY <1>1, <1>2, LimiterStep, PTL DEF LoginSpec
=============================================================================
