----------------------------- MODULE PlannerLease -----------------------------
(***************************************************************************)
(* Planner leadership: one row of service_leases, and the planner loops    *)
(* that acquire or renew it at the start of a tick and then schedule       *)
(* without looking at it again.  Time is discrete.  The row's expires_at   *)
(* and every timer are kept relative to NOW(), so the clock itself is not  *)
(* a variable and no behaviour needs a time bound.                         *)
(***************************************************************************)
EXTENDS Integers

CONSTANTS
    Planner,    \* backend processes with the planner role
    HostName,   \* Planner -> holder_id (os.Hostname)
    NoHolder,   \* the lease row does not exist
    TTL,        \* BACKEND_PLANNER_LEASE_TTL, in time units
    Interval,   \* BACKEND_PLANNER_TICK
    MaxTick     \* the longest a scheduling tick takes

ASSUME TimeAssumption ==
    TTL \in Nat /\ Interval \in Nat \ {0} /\ MaxTick \in Nat

\* Processes have distinct host names: the lease tells them apart by these.
ASSUME HostAssumption ==
    /\ \A p, q \in Planner : HostName[p] = HostName[q] => p = q
    /\ \A p \in Planner : HostName[p] # NoHolder

VARIABLES
    holder,     \* service_leases.holder_id
    left,       \* expires_at - NOW(); -1 once that is negative
    phase,      \* per planner: down, starting, idle or scheduling
    fired,      \* per planner: a tick waits in the ticker's channel
    wait,       \* per planner: time to the ticker's next tick
    elapsed,    \* per planner: age of its scheduling tick
    leaderless  \* how long the holder has been down with another planner up

vars == <<holder, left, phase, fired, wait, elapsed, leaderless>>

Phase == {"down", "starting", "idle", "scheduling"}

Up(p) == phase[p] # "down"

\* The holder's process is down.
HolderDown == \E p \in Planner : holder = HostName[p] /\ ~Up(p)

-----------------------------------------------------------------------------
\* Mutant of Expired: expires_at <= NOW().
ExpiredEarly == left <= 0

\* expires_at < NOW().
Expired == left < 0

\* Mutant of Acquirable: the renewal clause is missing.
AcquirableNoRenew(p) == holder = NoHolder \/ Expired

\* Mutant of Acquirable: the lease never expires.
AcquirableNoExpiry(p) == holder = NoHolder \/ holder = HostName[p]

\* AcquireOrRenew: no row, or the ON CONFLICT ... WHERE clause.
Acquirable(p) == holder = NoHolder \/ Expired \/ holder = HostName[p]

\* A tick that gets the lease goes on to schedule.  The first tick is run when
\* the loop starts, the others as the ticker fires.
Acquire(p) ==
    /\ phase[p] = "starting" \/ (phase[p] = "idle" /\ fired[p])
    /\ Acquirable(p)
    /\ holder'     = HostName[p]
    /\ left'       = TTL
    /\ phase'      = [phase EXCEPT ![p] = "scheduling"]
    /\ fired'      = [fired EXCEPT ![p] = FALSE]
    /\ elapsed'    = [elapsed EXCEPT ![p] = 0]
    /\ leaderless' = 0
    /\ UNCHANGED wait

\* A tick that does not get the lease returns at once.
StandBy(p) ==
    /\ phase[p] = "starting" \/ (phase[p] = "idle" /\ fired[p])
    /\ ~Acquirable(p)
    /\ phase' = [phase EXCEPT ![p] = "idle"]
    /\ fired' = [fired EXCEPT ![p] = FALSE]
    /\ UNCHANGED <<holder, left, wait, elapsed, leaderless>>

\* runTick has enqueued its last batch and returns.
FinishTick(p) ==
    /\ phase[p] = "scheduling"
    /\ phase'   = [phase EXCEPT ![p] = "idle"]
    /\ elapsed' = [elapsed EXCEPT ![p] = 0]
    /\ UNCHANGED <<holder, left, fired, wait, leaderless>>

\* The process stops: killed, shut down, or after a database error in runTick.
\* Nothing releases the lease.
Crash(p) ==
    /\ Up(p)
    /\ phase'   = [phase EXCEPT ![p] = "down"]
    /\ fired'   = [fired EXCEPT ![p] = FALSE]
    /\ wait'    = [wait EXCEPT ![p] = Interval]
    /\ elapsed' = [elapsed EXCEPT ![p] = 0]
    /\ leaderless' = IF \E q \in Planner : q # p /\ Up(q) THEN leaderless ELSE 0
    /\ UNCHANGED <<holder, left>>

\* The process is started again under its host name.
Restart(p) ==
    /\ ~Up(p)
    /\ phase' = [phase EXCEPT ![p] = "starting"]
    /\ wait'  = [wait EXCEPT ![p] = Interval]
    /\ leaderless' = IF holder = HostName[p] THEN 0 ELSE leaderless
    /\ UNCHANGED <<holder, left, fired, elapsed>>

\* time.NewTicker(r.interval) fires with this unit of time.
TickerFires(p) == Up(p) /\ wait[p] = 1

\* One unit of time.  Loops that can move do so first, and no tick takes more
\* than MaxTick.  The ticker's channel holds one tick, later ones are dropped.
Advance ==
    /\ \A p \in Planner :
          /\ phase[p] # "starting"
          /\ phase[p] = "idle" => ~fired[p]
          /\ phase[p] = "scheduling" => elapsed[p] < MaxTick
    /\ left'    = IF left < 0 THEN left ELSE left - 1
    /\ wait'    = [p \in Planner |-> IF ~Up(p) \/ TickerFires(p)
                                       THEN Interval ELSE wait[p] - 1]
    /\ fired'   = [p \in Planner |-> fired[p] \/ TickerFires(p)]
    /\ elapsed' = [p \in Planner |-> IF phase[p] = "scheduling"
                                       THEN elapsed[p] + 1 ELSE elapsed[p]]
    /\ leaderless' = IF HolderDown /\ \E p \in Planner : Up(p)
                       THEN leaderless + 1 ELSE 0
    /\ UNCHANGED <<holder, phase>>

-----------------------------------------------------------------------------
Init ==
    /\ holder  = NoHolder
    /\ left    = -1
    /\ phase   = [p \in Planner |-> "down"]
    /\ fired   = [p \in Planner |-> FALSE]
    /\ wait    = [p \in Planner |-> Interval]
    /\ elapsed = [p \in Planner |-> 0]
    /\ leaderless = 0

Next ==
    \/ Advance
    \/ \E p \in Planner : Acquire(p) \/ StandBy(p) \/ FinishTick(p)
                          \/ Crash(p) \/ Restart(p)

Spec == Init /\ [][Next]_vars

-----------------------------------------------------------------------------
(* Properties *)

\* The type invariant of the lease row and the planner loops.
TypeOK ==
    /\ holder  \in {HostName[p] : p \in Planner} \cup {NoHolder}
    /\ left    \in -1 .. TTL
    /\ phase   \in [Planner -> Phase]
    /\ fired   \in [Planner -> BOOLEAN]
    /\ wait    \in [Planner -> 1 .. Interval]
    /\ elapsed \in [Planner -> 0 .. MaxTick]
    /\ leaderless \in Nat

\* docs/lifecycle.md: "Only one planner instance can schedule tasks at a time."
\* The lease gives this for ticks that do not outlast it, down to the strict
\* comparison of expires_at with NOW().
OneScheduler ==
    \A p, q \in Planner :
        (phase[p] = "scheduling" /\ phase[q] = "scheduling") => p = q

\* Leadership is stable: a planner whose process stays up keeps the lease, also
\* when a slow tick makes the ticker drop ticks.
StableLeadership ==
    [][\A p \in Planner :
          (holder = HostName[p] /\ holder' # holder)
              => phase[p] \in {"down", "starting"}]_vars

\* The lease of a dead leader is taken over once it has expired, at the next
\* tick of any planner that is up: within TTL + Interval.
TakeoverBounded == leaderless <= TTL + Interval
=============================================================================
