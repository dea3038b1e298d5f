----------------------------- MODULE LoginLimiter -----------------------------
(***************************************************************************)
(* The in-memory limiter of local logins (auth/ratelimit.go) and its use   *)
(* in Service.LocalLogin and Service.GoogleCallback: at most MaxAttempts   *)
(* failures of an e-mail address in a window, and bans of growing length   *)
(* for an address the failures come from.                                  *)
(*                                                                         *)
(* The limiter's mutex makes each of its methods one step; a login calls   *)
(* several of them, with a database read and a bcrypt comparison between   *)
(* the check and the record, so logins interleave.  A failure is kept as   *)
(* its age in ticks.  Only the handler's own outcome is in this module:    *)
(* what a successful login issues is in AuthSessions.                      *)
(***************************************************************************)
EXTENDS Integers, Sequences, FiniteSets

CONSTANTS
    Email,
    Ip,
    Login,          \* handler goroutines
    MaxAttempts,    \* failures of an e-mail that lock it
    Window,         \* ticks for which a failure counts
    Threshold,      \* failures from an address that start a ban, per tier
    Duration,       \* ticks a ban of a tier lasts
    MaxFailures     \* bound: failures of one address that are told apart

Tier == 1..Len(Threshold)

ASSUME LimitAssumption ==
    /\ MaxAttempts \in Nat \ {0}
    /\ Window \in Nat
    /\ MaxFailures \in Nat
    /\ IsFiniteSet(Login)
ASSUME TierAssumption ==
    /\ Threshold \in Seq(Nat \ {0}) /\ Threshold # << >>
    /\ Duration \in [Tier -> Nat]
    /\ \A t \in Tier : Threshold[1] <= Threshold[t]

VARIABLES
    attempts,       \* per e-mail, the failures kept, oldest first
    ipAttempts,     \* per address, likewise
    ipBan,          \* per address, the ban's tier (0: none) and age
    login           \* per goroutine, its step, e-mail and address

loginVars == <<attempts, ipAttempts, ipBan, login>>

Age == 0..(Window + 1)                  \* Window + 1: out of the window
BanAge == 0..(Window + 1 + Duration[Len(Duration)])

NoBan == [tier |-> 0, age |-> 0]

\* A failure from an address, and whether a local login made it.
Failure == [age : Age, local : BOOLEAN]

LoginPc == {"idle", "email", "compare", "recordEmail", "recordIP", "resetIP"}

-----------------------------------------------------------------------------
(* The limiter *)

Kept(age) == age <= Window

\* pruneExpired and pruneIPExpired: up to the first failure that counts, the
\* failures go.
Pruned(s) ==
    LET expired == {n \in DOMAIN s : \A m \in 1..n : ~Kept(s[m])}
    IN  SubSeq(s, Cardinality(expired) + 1, Len(s))

PrunedIP(s) ==
    LET expired == {n \in DOMAIN s : \A m \in 1..n : ~Kept(s[m].age)}
    IN  SubSeq(s, Cardinality(expired) + 1, Len(s))

\* Allow for e-mail e: it prunes, then compares.
Allow(e) ==
    /\ Len(Pruned(attempts[e])) < MaxAttempts
    /\ attempts' = [attempts EXCEPT ![e] = Pruned(@)]

Record(e) == attempts' = [attempts EXCEPT ![e] = Append(Pruned(@), 0)]

Reset(e) == attempts' = [attempts EXCEPT ![e] = << >>]

\* The ban of i has not run out.
Banned(i) == ipBan[i].tier # 0 /\ ipBan[i].age < Duration[ipBan[i].tier]

\* The highest tier that n failures reach, 0 if none.
TierOf(n) == Cardinality({t \in Tier : n >= Threshold[t]})

\* AllowIP: a ban that has run out is deleted, then the tiers are looked at.
AllowIP(i) ==
    LET kept == PrunedIP(ipAttempts[i])
    IN  /\ ~Banned(i)
        /\ TierOf(Len(kept)) = 0
        /\ ipAttempts' = [ipAttempts EXCEPT ![i] = kept]
        /\ ipBan' = [ipBan EXCEPT ![i] = NoBan]

\* AllowIP answers no, and may have started a ban.
DenyIP(i) ==
    LET kept == PrunedIP(ipAttempts[i])  tier == TierOf(Len(kept))
    IN  \/ Banned(i) /\ UNCHANGED <<ipAttempts, ipBan>>
        \/ /\ ~Banned(i)
           /\ tier # 0
           /\ ipAttempts' = [ipAttempts EXCEPT ![i] = kept]
           /\ ipBan' = [ipBan EXCEPT ![i] = [tier |-> tier, age |-> 0]]

RecordIP(i, local) ==
    /\ Len(PrunedIP(ipAttempts[i])) < MaxFailures
    /\ ipAttempts' = [ipAttempts EXCEPT
                        ![i] = Append(PrunedIP(@), [age |-> 0, local |-> local])]

ResetIP(i) ==
    /\ ipAttempts' = [ipAttempts EXCEPT ![i] = << >>]
    /\ ipBan' = [ipBan EXCEPT ![i] = NoBan]

-----------------------------------------------------------------------------
(* LocalLogin *)

LoginAt(q, pc) == login[q].pc = pc
LoginGoTo(q, pc) == login' = [login EXCEPT ![q].pc = pc]

\* LocalLogin up to AllowIP.
CheckIP(q, e, i) ==
    /\ LoginAt(q, "idle")
    /\ \/ /\ AllowIP(i)
          /\ login' = [login EXCEPT ![q] = [pc |-> "email", email |-> e, ip |-> i]]
       \/ DenyIP(i) /\ login' = login
    /\ UNCHANGED attempts

\* Mutant: the address's check admits the login without the e-mail's.
CheckEmailSkipped(q) ==
    /\ LoginAt(q, "email")
    /\ LoginGoTo(q, "compare")
    /\ UNCHANGED <<attempts, ipAttempts, ipBan>>

CheckEmail(q) ==
    LET e == login[q].email
    IN  /\ LoginAt(q, "email")
        /\ \/ Allow(e) /\ LoginGoTo(q, "compare")
           \/ /\ Len(Pruned(attempts[e])) >= MaxAttempts
              /\ attempts' = [attempts EXCEPT ![e] = Pruned(@)]
              /\ LoginGoTo(q, "idle")
        /\ UNCHANGED <<ipAttempts, ipBan>>

\* FindByEmail and the bcrypt comparison: no such local account or a wrong
\* password; a read that failed or a disabled account; or the right password,
\* whose first reset is here.
Compare(q) ==
    /\ LoginAt(q, "compare")
    /\ \/ LoginGoTo(q, "recordEmail") /\ UNCHANGED attempts
       \/ LoginGoTo(q, "idle") /\ UNCHANGED attempts
       \/ LoginGoTo(q, "resetIP") /\ Reset(login[q].email)
    /\ UNCHANGED <<ipAttempts, ipBan>>

RecordFailure(q) ==
    /\ LoginAt(q, "recordEmail")
    /\ Record(login[q].email)
    /\ LoginGoTo(q, "recordIP")
    /\ UNCHANGED <<ipAttempts, ipBan>>

RecordFailureIP(q) ==
    /\ LoginAt(q, "recordIP")
    /\ RecordIP(login[q].ip, TRUE)
    /\ LoginGoTo(q, "idle")
    /\ UNCHANGED <<attempts, ipBan>>

LoginSucceeds(q) ==
    /\ LoginAt(q, "resetIP")
    /\ ResetIP(login[q].ip)
    /\ LoginGoTo(q, "idle")
    /\ UNCHANGED attempts

\* GoogleCallback with a wrong state or a failed exchange: it records against
\* the address and never asks AllowIP.
GoogleFailure(i) ==
    /\ RecordIP(i, FALSE)
    /\ UNCHANGED <<attempts, ipBan, login>>

-----------------------------------------------------------------------------
(* Time *)

Older(a, top) == IF a < top THEN a + 1 ELSE a

Tick ==
    /\ attempts' = [e \in Email |->
          [n \in DOMAIN attempts[e] |-> Older(attempts[e][n], Window + 1)]]
    /\ ipAttempts' = [i \in Ip |-> [n \in DOMAIN ipAttempts[i] |->
          [ipAttempts[i][n] EXCEPT !.age = Older(@, Window + 1)]]]
    /\ ipBan' = [i \in Ip |-> IF ipBan[i].tier = 0 THEN NoBan ELSE
          [ipBan[i] EXCEPT !.age = Older(@, Duration[ipBan[i].tier])]]
    /\ UNCHANGED login

-----------------------------------------------------------------------------
LoginInit ==
    /\ attempts = [e \in Email |-> << >>]
    /\ ipAttempts = [i \in Ip |-> << >>]
    /\ ipBan = [i \in Ip |-> NoBan]
    /\ login \in [Login -> [pc : {"idle"}, email : Email, ip : Ip]]

LoginStep(q) ==
    \/ \E e \in Email, i \in Ip : CheckIP(q, e, i)
    \/ CheckEmail(q)
    \/ Compare(q)
    \/ RecordFailure(q)
    \/ RecordFailureIP(q)
    \/ LoginSucceeds(q)

LoginNext ==
    \/ \E q \in Login : LoginStep(q)
    \/ \E i \in Ip : GoogleFailure(i)
    \/ Tick

LoginSpec == LoginInit /\ [][LoginNext]_loginVars

-----------------------------------------------------------------------------
(* Properties *)

LoginTypeOK ==
    /\ attempts \in [Email -> Seq(Age)]
    /\ ipAttempts \in [Ip -> Seq(Failure)]
    /\ ipBan \in [Ip -> [tier : Tier \cup {0}, age : BanAge]]
    /\ login \in [Login -> [pc : LoginPc, email : Email, ip : Ip]]

Locals(s) == {n \in DOMAIN s : s[n].local}
LocalFailures(i) == Cardinality(Locals(ipAttempts[i]))

\* Property: the failures of an e-mail address that count at one time never
\* exceed its maximum by more than the logins that run at once, although Allow
\* and Record are separate steps with a slow comparison between them; nor do
\* those of local logins from one address exceed the first tier's threshold, in
\* whatever order bans run out, resets and Google failures come.
LoginBudget ==
    /\ \A e \in Email : Len(attempts[e]) <= MaxAttempts + Cardinality(Login) - 1
    /\ \A i \in Ip : LocalFailures(i) <= Threshold[1] + Cardinality(Login) - 1
=============================================================================
