---------------------------- MODULE PlannerProofs ----------------------------
(***************************************************************************)
(* Proofs about the planner and the sweeps it emits.  For every set of     *)
(* planners and every TTL, tick interval and longest tick, under the two   *)
(* relations between them that the properties need: one planner schedules, *)
(* it stays the leader, and a dead one is replaced in time.  For every     *)
(* number of days, hours and workers: a covered day is complete and a      *)
(* verified day is never checked again, though the days done are read once *)
(* per sweep.  For any sources and answers: a day's check compares every   *)
(* two of them.                                                            *)
(***************************************************************************)
EXTENDS PlannerLease, CoverageSweep, IntegrityCheck, NumberSets, TLAPS

-----------------------------------------------------------------------------
(* Leadership *)

\* A scheduling planner still holds the lease it took when its tick began.
SchedulerHolds ==
    \A p \in Planner : phase[p] = "scheduling" =>
        holder = HostName[p] /\ left = TTL - elapsed[p]

\* The lease of an idle holder lasts until the tick that renews it, and a slow
\* tick ends no later than the lease with a tick waiting or still to come.
LeaseOutlivesTick ==
    \A p \in Planner : holder = HostName[p] =>
        /\ (phase[p] = "idle" /\ fired[p]) => left >= 0
        /\ (phase[p] = "idle" /\ ~fired[p]) => left >= wait[p]
        /\ (phase[p] = "scheduling" /\ ~fired[p])
              => elapsed[p] + wait[p] <= Interval

-----------------------------------------------------------------------------
\* Every step keeps the types.
LEMMA TypeStep == TypeOK /\ [Next]_vars => TypeOK'
<1> SUFFICES ASSUME TypeOK, [Next]_vars PROVE TypeOK'
  OBVIOUS
<1> USE TimeAssumption
<1>1. ASSUME Advance PROVE TypeOK'
  <2>1. left' \in -1 .. TTL /\ leaderless' \in Nat /\ holder' = holder
    BY <1>1 DEF Advance, TypeOK
  <2>2. wait' \in [Planner -> 1 .. Interval]
    BY <1>1 DEF Advance, TypeOK, TickerFires
  <2>3. elapsed' \in [Planner -> 0 .. MaxTick]
    BY <1>1 DEF Advance, TypeOK
  <2>4. fired' \in [Planner -> BOOLEAN]
    BY <1>1 DEF Advance, TypeOK
  <2> QED
    BY <1>1, <2>1, <2>2, <2>3, <2>4 DEF Advance, TypeOK
<1>2. ASSUME NEW p \in Planner, Acquire(p) PROVE TypeOK'
  BY <1>2 DEF Acquire, TypeOK, Phase
<1>3. ASSUME NEW p \in Planner, StandBy(p) PROVE TypeOK'
  BY <1>3 DEF StandBy, TypeOK, Phase
<1>4. ASSUME NEW p \in Planner, FinishTick(p) PROVE TypeOK'
  BY <1>4 DEF FinishTick, TypeOK, Phase
<1>5. ASSUME NEW p \in Planner, Crash(p) PROVE TypeOK'
  BY <1>5 DEF Crash, TypeOK, Phase
<1>6. ASSUME NEW p \in Planner, Restart(p) PROVE TypeOK'
  BY <1>6 DEF Restart, TypeOK, Phase
<1>7. CASE UNCHANGED vars
  BY <1>7 DEF TypeOK, vars
<1> QED
  BY <1>1, <1>2, <1>3, <1>4, <1>5, <1>6, <1>7 DEF Next

LEMMA TypeCorrect == Spec => []TypeOK
<1>1. Init => TypeOK
  BY TimeAssumption DEF Init, TypeOK, Phase
<1> QED
  BY <1>1, TypeStep, PTL DEF Spec

-----------------------------------------------------------------------------
\* As long as no tick outlasts the lease, nobody acquires the lease under a
\* scheduling planner.
LEMMA SchedulerHoldsStep ==
    ASSUME MaxTick <= TTL
    PROVE  TypeOK /\ SchedulerHolds /\ [Next]_vars => SchedulerHolds'
<1> SUFFICES ASSUME TypeOK, SchedulerHolds, [Next]_vars,
                    NEW q \in Planner, phase'[q] = "scheduling"
             PROVE  holder' = HostName[q] /\ left' = TTL - elapsed'[q]
  BY DEF SchedulerHolds
<1> USE TimeAssumption, HostAssumption
<1>1. CASE Advance
  BY <1>1 DEF Advance, TypeOK, SchedulerHolds
<1>2. ASSUME NEW p \in Planner, Acquire(p)
      PROVE  holder' = HostName[q] /\ left' = TTL - elapsed'[q]
  <2>1. CASE p = q
    BY <1>2, <2>1 DEF Acquire, TypeOK
  <2>2. CASE p # q
    <3>1. holder = HostName[q] /\ left = TTL - elapsed[q]
      <4>1. phase[q] = "scheduling"
        BY <1>2, <2>2 DEF Acquire, TypeOK
      <4> QED BY <4>1 DEF SchedulerHolds
    <3>2. left >= 0
      <4>1. elapsed[q] \in 0 .. MaxTick
        BY DEF TypeOK
      <4> QED BY <3>1, <4>1
    <3>3. ~Expired
      BY <3>2 DEF Expired, TypeOK
    <3>4. ~Acquirable(p)
      BY <2>2, <3>1, <3>3 DEF Acquirable
    <3> QED
      BY <1>2, <3>4 DEF Acquire
  <2> QED
    BY <2>1, <2>2
<1>3. ASSUME NEW p \in Planner, StandBy(p) \/ FinishTick(p) \/ Crash(p) \/ Restart(p)
      PROVE  holder' = HostName[q] /\ left' = TTL - elapsed'[q]
  BY <1>3 DEF StandBy, FinishTick, Crash, Restart, TypeOK, SchedulerHolds
<1>4. CASE UNCHANGED vars
  BY <1>4 DEF vars, SchedulerHolds
<1> QED
  BY <1>1, <1>2, <1>3, <1>4 DEF Next

\* Only one planner schedules at a time, whatever TTL is, if no tick outlasts
\* the lease it starts with (AcquireOrRenew's strict expiry, runTick).
THEOREM OnlyOneSchedules ==
    ASSUME MaxTick <= TTL
    PROVE  Spec => []OneScheduler
<1>1. Init => SchedulerHolds
  BY DEF Init, SchedulerHolds
<1>2. TypeOK /\ SchedulerHolds /\ [Next]_vars => SchedulerHolds'
  BY SchedulerHoldsStep
<1>3. SchedulerHolds => OneScheduler
  BY HostAssumption DEF SchedulerHolds, OneScheduler
<1> QED
  BY <1>1, <1>2, <1>3, TypeCorrect, PTL DEF Spec

-----------------------------------------------------------------------------
\* As long as neither a tick nor the pause between ticks outlasts the lease, a
\* holder that stays up renews in time.
LEMMA LeaseOutlivesTickStep ==
    ASSUME MaxTick <= TTL, Interval <= TTL
    PROVE  TypeOK /\ SchedulerHolds /\ LeaseOutlivesTick /\ [Next]_vars
               => LeaseOutlivesTick'
<1> SUFFICES ASSUME TypeOK, SchedulerHolds, LeaseOutlivesTick, [Next]_vars
             PROVE  LeaseOutlivesTick'
  OBVIOUS
<1> USE TimeAssumption, HostAssumption
<1>1. CASE Advance
  <2> SUFFICES ASSUME NEW q \in Planner, holder = HostName[q]
               PROVE  /\ (phase[q] = "idle" /\ fired'[q]) => left' >= 0
                      /\ (phase[q] = "idle" /\ ~fired'[q]) => left' >= wait'[q]
                      /\ (phase[q] = "scheduling" /\ ~fired'[q])
                            => elapsed'[q] + wait'[q] <= Interval
    BY <1>1 DEF Advance, LeaseOutlivesTick
  <2>1. /\ wait[q] \in 1 .. Interval /\ elapsed[q] \in 0 .. MaxTick
        /\ left \in -1 .. TTL
    BY DEF TypeOK
  <2>2. CASE phase[q] = "idle"
    <3>1. ~fired[q] /\ left >= wait[q]
      BY <1>1, <2>2 DEF Advance, LeaseOutlivesTick
    <3>2. left' = left - 1
      BY <1>1, <2>1, <3>1 DEF Advance
    <3>3. fired'[q] <=> wait[q] = 1
      BY <1>1, <2>2, <3>1 DEF Advance, TickerFires, Up
    <3>4. wait[q] # 1 => wait'[q] = wait[q] - 1
      BY <1>1, <2>2 DEF Advance, TickerFires, Up
    <3> QED
      BY <2>1, <2>2, <3>1, <3>2, <3>3, <3>4
  <2>3. CASE phase[q] = "scheduling"
    <3>1. ~fired'[q] => ~fired[q] /\ wait[q] # 1 /\ wait'[q] = wait[q] - 1
      BY <1>1, <2>3 DEF Advance, TickerFires, Up
    <3>2. elapsed'[q] = elapsed[q] + 1
      BY <1>1, <2>3 DEF Advance
    <3>3. ~fired[q] => elapsed[q] + wait[q] <= Interval
      BY <2>3 DEF LeaseOutlivesTick
    <3> QED
      BY <2>1, <2>3, <3>1, <3>2, <3>3
  <2> QED
    BY <2>2, <2>3
<1>2. ASSUME NEW p \in Planner, Acquire(p) PROVE LeaseOutlivesTick'
  <2>1. /\ \A q \in Planner : holder' = HostName[q] => q = p
        /\ phase'[p] = "scheduling" /\ elapsed'[p] = 0
        /\ wait'[p] \in 1 .. Interval
    BY <1>2 DEF Acquire, TypeOK
  <2> QED
    BY <2>1 DEF LeaseOutlivesTick
<1>3. ASSUME NEW p \in Planner, StandBy(p) PROVE LeaseOutlivesTick'
  <2>1. holder # HostName[p]
    BY <1>3 DEF StandBy, Acquirable
  <2>2. \A q \in Planner : q # p => phase'[q] = phase[q] /\ fired'[q] = fired[q]
    BY <1>3 DEF StandBy, TypeOK
  <2> QED
    BY <1>3, <2>1, <2>2 DEF StandBy, LeaseOutlivesTick
<1>4. ASSUME NEW p \in Planner, FinishTick(p) PROVE LeaseOutlivesTick'
  <2>1. \A q \in Planner : q # p => phase'[q] = phase[q] /\ elapsed'[q] = elapsed[q]
    BY <1>4 DEF FinishTick, TypeOK
  <2>2. /\ phase'[p] = "idle" /\ left = TTL - elapsed[p]
        /\ elapsed[p] \in 0 .. MaxTick /\ wait[p] \in 1 .. Interval
        /\ left' = left /\ wait' = wait /\ fired' = fired /\ holder' = holder
    BY <1>4 DEF FinishTick, TypeOK, SchedulerHolds
  <2>3. left >= 0
    BY <2>2
  <2>4. holder = HostName[p] /\ ~fired[p] => left >= wait[p]
    <3>1. holder = HostName[p] /\ ~fired[p] => elapsed[p] + wait[p] <= Interval
      BY <1>4 DEF FinishTick, LeaseOutlivesTick
    <3> QED BY <2>2, <3>1
  <2> QED
    BY <2>1, <2>2, <2>3, <2>4 DEF LeaseOutlivesTick
<1>5. ASSUME NEW p \in Planner, Crash(p) \/ Restart(p) PROVE LeaseOutlivesTick'
  <2>1. phase'[p] \in {"down", "starting"} /\ holder' = holder /\ left' = left
    BY <1>5 DEF Crash, Restart, TypeOK
  <2>2. \A q \in Planner : q # p =>
           /\ phase'[q] = phase[q] /\ fired'[q] = fired[q]
           /\ wait'[q] = wait[q] /\ elapsed'[q] = elapsed[q]
    BY <1>5 DEF Crash, Restart, TypeOK
  <2> QED
    BY <2>1, <2>2 DEF LeaseOutlivesTick
<1>6. CASE UNCHANGED vars
  BY <1>6 DEF vars, LeaseOutlivesTick
<1> QED
  BY <1>1, <1>2, <1>3, <1>4, <1>5, <1>6 DEF Next

\* A planner that stays up keeps the leadership, for every TTL that is at least
\* the tick interval and the longest tick (AcquireOrRenew, Run).
THEOREM LeadershipIsStable ==
    ASSUME MaxTick <= TTL, Interval <= TTL
    PROVE  Spec => StableLeadership
<1> DEFINE Stable(p) == (holder = HostName[p] /\ holder' # holder)
                            => phase[p] \in {"down", "starting"}
           Inv == TypeOK /\ SchedulerHolds /\ LeaseOutlivesTick
<1>1. ASSUME Inv, [Next]_vars, NEW p \in Planner PROVE Stable(p)
  <2> SUFFICES ASSUME holder = HostName[p], holder' # holder
               PROVE  phase[p] \in {"down", "starting"}
    OBVIOUS
  <2>1. PICK q \in Planner : Acquire(q) /\ q # p
    BY <1>1 DEF Next, Advance, StandBy, FinishTick, Crash, Restart, vars, Acquire
  <2>2. left < 0
    BY <2>1, HostAssumption DEF Acquire, Acquirable, Expired
  <2>3. /\ wait[p] \in 1 .. Interval /\ elapsed[p] \in 0 .. MaxTick
        /\ left \in -1 .. TTL /\ phase[p] \in Phase
    BY <1>1 DEF TypeOK
  <2>4. phase[p] # "scheduling"
    BY <1>1, <2>2, <2>3, TimeAssumption DEF SchedulerHolds
  <2>5. phase[p] # "idle"
    BY <1>1, <2>2, <2>3, TimeAssumption DEF LeaseOutlivesTick
  <2> QED
    BY <2>3, <2>4, <2>5 DEF Phase
<1>2. Inv /\ [Next]_vars => [\A p \in Planner : Stable(p)]_vars
  BY <1>1
<1>3. Init => Inv
  BY TimeAssumption, HostAssumption
     DEF Init, TypeOK, Phase, SchedulerHolds, LeaseOutlivesTick
<1>4. Inv /\ [Next]_vars => Inv'
  BY TypeStep, SchedulerHoldsStep, LeaseOutlivesTickStep
<1> HIDE DEF Inv
<1> QED
  BY <1>2, <1>3, <1>4, PTL DEF Spec, StableLeadership

-----------------------------------------------------------------------------
\* What a leaderless time has been spent on: while the lease runs, on the lease;
\* after that, on the wait for the next tick of every planner that is idle.
TakeoverBudget ==
    /\ left >= 0 => leaderless <= TTL - left
    /\ left < 0 =>
         /\ leaderless <= TTL + Interval
         /\ \A q \in Planner : phase[q] = "idle" /\ ~fired[q]
                => leaderless + wait[q] <= TTL + Interval

\* A unit of time comes out of the lease or out of every idle planner's wait.
LEMMA AdvanceKeepsBudget ==
    ASSUME MaxTick <= TTL, TypeOK, SchedulerHolds, TakeoverBudget, Advance
    PROVE  TakeoverBudget'
<1> USE TimeAssumption
<1>1. /\ left \in -1 .. TTL /\ leaderless \in Nat
      /\ left' = (IF left < 0 THEN left ELSE left - 1)
      /\ leaderless' \in {0, leaderless + 1} /\ phase' = phase
      /\ leaderless' # 0 => \E p \in Planner : Up(p)
  BY DEF Advance, TypeOK
<1>2. CASE left > 0
  BY <1>1, <1>2 DEF TakeoverBudget
<1>3. CASE left <= 0
  <2>1. ASSUME NEW q \in Planner, phase'[q] = "idle", ~fired'[q]
        PROVE  /\ wait[q] \in 1 .. Interval /\ wait'[q] \in 1 .. Interval
               /\ wait'[q] = wait[q] - 1 /\ ~fired[q]
    <3>1. ~fired[q] /\ ~TickerFires(q)
      BY <2>1 DEF Advance
    <3>2. wait[q] \in 1 .. Interval /\ Up(q)
      BY <1>1, <2>1 DEF TypeOK, Up
    <3>3. wait'[q] = wait[q] - 1 /\ wait[q] # 1
      BY <3>1, <3>2 DEF Advance, TickerFires
    <3> QED
      BY <3>1, <3>2, <3>3
  <2>2. left < 0 => leaderless' <= TTL + Interval
    <3> SUFFICES ASSUME left < 0, leaderless' # 0
                 PROVE  leaderless' <= TTL + Interval
      BY <1>1
    <3>1. PICK p \in Planner : Up(p)
      BY <1>1
    <3>2. /\ phase[p] \in Phase /\ wait[p] \in 1 .. Interval
          /\ elapsed[p] \in 0 .. MaxTick
      BY DEF TypeOK
    <3>3. phase[p] # "scheduling"
      BY <1>1, <3>2 DEF SchedulerHolds
    <3>4. phase[p] = "idle" /\ ~fired[p]
      BY <3>1, <3>2, <3>3 DEF Advance, Phase, Up
    <3> QED
      BY <1>1, <3>2, <3>4 DEF TakeoverBudget
  <2>3. left = 0 => leaderless' <= TTL + 1
    BY <1>1 DEF TakeoverBudget
  <2>4. ASSUME NEW q \in Planner, phase'[q] = "idle", ~fired'[q]
        PROVE  leaderless' + wait'[q] <= TTL + Interval
    <3>1. left < 0 => leaderless + wait[q] <= TTL + Interval
      BY <1>1, <2>1, <2>4 DEF TakeoverBudget
    <3> QED
      BY <1>1, <1>3, <2>1, <2>3, <2>4, <3>1
  <2> QED
    BY <1>1, <1>3, <2>2, <2>3, <2>4 DEF TakeoverBudget
<1> QED
  BY <1>1, <1>2, <1>3

\* No step of a planner spends any of the budget.
LEMMA BudgetStep ==
    ASSUME MaxTick <= TTL
    PROVE  TypeOK /\ SchedulerHolds /\ TakeoverBudget /\ [Next]_vars
               => TakeoverBudget'
<1> SUFFICES ASSUME TypeOK, SchedulerHolds, TakeoverBudget, [Next]_vars
             PROVE  TakeoverBudget'
  OBVIOUS
<1> USE TimeAssumption
<1>1. CASE Advance
  BY <1>1, AdvanceKeepsBudget
<1>2. ASSUME NEW p \in Planner, Acquire(p) PROVE TakeoverBudget'
  BY <1>2 DEF Acquire, TakeoverBudget
<1>3. ASSUME NEW p \in Planner, StandBy(p) PROVE TakeoverBudget'
  <2>1. left >= 0
    BY <1>3 DEF StandBy, Acquirable, Expired, TypeOK
  <2> QED
    BY <1>3, <2>1 DEF StandBy, TakeoverBudget, TypeOK
<1>4. ASSUME NEW p \in Planner, FinishTick(p) PROVE TakeoverBudget'
  <2>1. left = TTL - elapsed[p] /\ elapsed[p] \in 0 .. MaxTick
    BY <1>4 DEF FinishTick, SchedulerHolds, TypeOK
  <2> QED
    BY <1>4, <2>1 DEF FinishTick, TakeoverBudget
<1>5. ASSUME NEW p \in Planner, Crash(p) \/ Restart(p) PROVE TakeoverBudget'
  <2>1. /\ left' = left /\ left \in -1 .. TTL
        /\ leaderless \in Nat /\ leaderless' \in {0, leaderless}
        /\ phase'[p] # "idle"
    BY <1>5 DEF Crash, Restart, TypeOK
  <2>2. ASSUME NEW q \in Planner, q # p
        PROVE  /\ phase'[q] = phase[q] /\ fired'[q] = fired[q]
               /\ wait'[q] = wait[q] /\ wait[q] \in 1 .. Interval
    BY <1>5, <2>2 DEF Crash, Restart, TypeOK
  <2>3. ASSUME NEW q \in Planner, phase'[q] = "idle", ~fired'[q], left < 0
        PROVE  leaderless' + wait'[q] <= TTL + Interval
    <3>1. leaderless + wait[q] <= TTL + Interval
      BY <2>1, <2>2, <2>3 DEF TakeoverBudget
    <3> QED
      BY <2>1, <2>2, <2>3, <3>1
  <2>4. (left >= 0 => leaderless' <= TTL - left)
        /\ (left < 0 => leaderless' <= TTL + Interval)
    BY <2>1 DEF TakeoverBudget
  <2> QED
    BY <2>1, <2>3, <2>4 DEF TakeoverBudget
<1>6. CASE UNCHANGED vars
  BY <1>6 DEF vars, TakeoverBudget
<1> QED
  BY <1>1, <1>2, <1>3, <1>4, <1>5, <1>6 DEF Next

\* A dead leader's lease is taken over within TTL + Interval of leaderless time,
\* for every TTL, interval and set of planners, if no tick outlasts the lease
\* (AcquireOrRenew's expiry clause, the ticker of Run).
THEOREM TakeoverIsBounded ==
    ASSUME MaxTick <= TTL
    PROVE  Spec => []TakeoverBounded
<1> DEFINE Inv == TypeOK /\ SchedulerHolds /\ TakeoverBudget
<1>1. Init => Inv
  BY TimeAssumption DEF Init, TypeOK, Phase, SchedulerHolds, TakeoverBudget
<1>2. Inv /\ [Next]_vars => Inv'
  BY TypeStep, SchedulerHoldsStep, BudgetStep
<1>3. Inv => TakeoverBounded
  BY TimeAssumption DEF TypeOK, TakeoverBudget, TakeoverBounded
<1> HIDE DEF Inv
<1> QED
  BY <1>1, <1>2, <1>3, PTL DEF Spec

-----------------------------------------------------------------------------
(* The sweeps *)

\* The pair's lock: one worker at a time has days to look at.
OneSweep ==
    \A v, w \in Worker : (sweep[v].todo # {} /\ sweep[w].todo # {}) => v = w

\* No verified day is among the days an integrity sweep has still to check: what
\* the sweep has read of integrity_coverage is not outdated where it matters.
ChecksUnverified ==
    \A w \in Worker : sweep[w].kind = "integrity"
        => sweep[w].todo \cap GetAllVerifiedDays = {}

SweepInv ==
    /\ hours \in [Day -> 0..Hours]
    /\ integrity \in [Day -> Outcome]
    /\ sweep \in [Worker -> [kind : SweepKind, todo : SUBSET Day]]
    /\ queued \in [SweepKind -> Window \cup {NoWindow}]
    /\ start \in Day /\ yesterday \in Day /\ covered \subseteq Day
    /\ OneSweep
    /\ ChecksUnverified
    /\ CoveredSound

-----------------------------------------------------------------------------
LEMMA DaysAreNaturals == Day \subseteq Nat
BY SweepAssumption DEF Day

\* A step of the loop leaves the other workers alone and shortens one's list.
LEMMA NextDayStep ==
    ASSUME SweepInv, NEW w \in Worker, NEW k \in SweepKind, NEW d \in Day,
           At(w, k, d), NextDay(w)
    PROVE  /\ sweep' \in [Worker -> [kind : SweepKind, todo : SUBSET Day]]
           /\ sweep'[w].todo = sweep[w].todo \ {d}
           /\ \A v \in Worker : sweep'[v].kind = sweep[v].kind
           /\ \A v \in Worker : v # w => sweep'[v] = sweep[v] /\ sweep[v].todo = {}
           /\ OneSweep'
<1>1. sweep[w] \in [kind : SweepKind, todo : SUBSET Day]
  BY DEF SweepInv
<1>2. Min(sweep[w].todo) = d
  BY <1>1, MinIsLeast, DaysAreNaturals DEF At
<1>3. sweep[w] = [kind |-> sweep[w].kind, todo |-> sweep[w].todo]
  BY <1>1
<1>4. sweep' = [sweep EXCEPT ![w] = [kind |-> sweep[w].kind,
                                     todo |-> sweep[w].todo \ {d}]]
  <2>1. [sweep[w] EXCEPT !.todo = sweep[w].todo \ {d}]
            = [kind |-> sweep[w].kind, todo |-> sweep[w].todo \ {d}]
    BY <1>3
  <2>2. sweep' = [sweep EXCEPT ![w] = [sweep[w] EXCEPT !.todo = sweep[w].todo \ {d}]]
    BY <1>2, Zenon DEF NextDay
  <2> QED
    BY <2>1, <2>2
<1>5. \A v \in Worker : v # w => sweep[v].todo = {}
  BY DEF SweepInv, OneSweep, At
<1>6. sweep' \in [Worker -> [kind : SweepKind, todo : SUBSET Day]]
  BY <1>1, <1>4 DEF SweepInv
<1>7. \A v \in Worker : v # w => sweep'[v] = sweep[v]
  BY <1>4 DEF SweepInv
<1>8. sweep'[w] = [kind |-> sweep[w].kind, todo |-> sweep[w].todo \ {d}]
  BY <1>4 DEF SweepInv
<1>9. OneSweep'
  BY <1>5, <1>7 DEF OneSweep
<1> QED
  BY <1>5, <1>6, <1>7, <1>8, <1>9

\* A sweep that starts has read the verified days under the lock.
LEMMA StartStep ==
    ASSUME SweepInv, NEW w \in Worker, NEW k \in SweepKind, StartSweep(w, k)
    PROVE  SweepInv'
<1> DEFINE days == DaysToCheck(queued[k], Done(k))
<1>1. /\ queued[k] # NoWindow /\ ~Locked
      /\ sweep' = [sweep EXCEPT ![w] = [kind |-> k, todo |-> days]]
      /\ queued' = [queued EXCEPT ![k] = NoWindow]
      /\ UNCHANGED <<start, yesterday, hours, daily, covered, integrity>>
  BY DEF StartSweep, storeVars
<1>2. queued[k] \in Window
  BY <1>1 DEF SweepInv
<1>3. days \subseteq Day
  BY <1>2, SweepAssumption DEF DaysToCheck, Window, Day
<1>4. k = "integrity" => days \cap GetAllVerifiedDays = {}
  BY DEF DaysToCheck, Done
<1> HIDE DEF days
<1>5. \A v \in Worker : sweep[v].todo = {}
  BY <1>1 DEF Locked
<1>6. sweep' \in [Worker -> [kind : SweepKind, todo : SUBSET Day]]
  BY <1>1, <1>3 DEF SweepInv
<1>7. /\ sweep'[w] = [kind |-> k, todo |-> days]
      /\ \A v \in Worker : v # w => sweep'[v] = sweep[v]
  BY <1>1 DEF SweepInv
<1>8. OneSweep'
  BY <1>5, <1>7 DEF OneSweep
<1>9. ChecksUnverified'
  BY <1>1, <1>4, <1>5, <1>7 DEF ChecksUnverified, GetAllVerifiedDays
<1>10. queued' \in [SweepKind -> Window \cup {NoWindow}]
  BY <1>1 DEF SweepInv
<1>11. CoveredSound'
  BY <1>1 DEF SweepInv, CoveredSound, Complete
<1> QED
  BY <1>1, <1>6, <1>8, <1>9, <1>10, <1>11 DEF SweepInv

\* A candle adds to a day that may be complete only what it does not have.
LEMMA CandleStep ==
    ASSUME SweepInv, NEW d \in Day, CandleArrives(d)
    PROVE  SweepInv'
<1>1. UNCHANGED <<start, yesterday, covered, integrity, queued, sweep>>
  BY DEF CandleArrives
<1>2. hours' \in [Day -> 0..Hours] /\ daily \subseteq daily'
  BY SweepAssumption DEF CandleArrives, SweepInv
<1>3. \A e \in Day : hours[e] = Hours => hours'[e] = Hours
  BY SweepAssumption DEF CandleArrives, SweepInv
<1>4. CoveredSound'
  BY <1>1, <1>2, <1>3 DEF SweepInv, CoveredSound, Complete
<1> QED
  BY <1>1, <1>2, <1>4 DEF SweepInv, OneSweep, ChecksUnverified, GetAllVerifiedDays

\* A day is covered when it has been found complete, and stays complete.
LEMMA CoverStep ==
    ASSUME SweepInv, NEW w \in Worker, NEW d \in Day, CoverDay(w, d)
    PROVE  SweepInv'
<1>1. /\ At(w, "gap", d) /\ NextDay(w) /\ ValidateDay(d)
      /\ covered' = covered \cup {d}
      /\ UNCHANGED <<start, yesterday, hours, daily, integrity, queued>>
  BY DEF CoverDay, MarkDayComplete, storeVars
<1>2. "gap" \in SweepKind
  BY DEF SweepKind
<1>3. ChecksUnverified'
  BY <1>1, <1>2, NextDayStep DEF SweepInv, ChecksUnverified, GetAllVerifiedDays
<1>4. Complete(d)
  BY <1>1, SweepAssumption DEF ValidateDay, Complete, SweepInv
<1>5. CoveredSound'
  BY <1>1, <1>4 DEF SweepInv, CoveredSound, Complete
<1> QED
  BY <1>1, <1>2, <1>3, <1>5, NextDayStep DEF SweepInv

LEMMA LeaveStep ==
    ASSUME SweepInv, NEW w \in Worker, NEW d \in Day, LeaveDay(w, d)
    PROVE  SweepInv'
<1>1. /\ At(w, "gap", d) /\ NextDay(w)
      /\ UNCHANGED <<start, yesterday, hours, daily, covered, integrity, queued>>
  BY DEF LeaveDay, storeVars
<1>2. "gap" \in SweepKind
  BY DEF SweepKind
<1>3. ChecksUnverified'
  BY <1>1, <1>2, NextDayStep DEF SweepInv, ChecksUnverified, GetAllVerifiedDays
<1>4. CoveredSound'
  BY <1>1 DEF SweepInv, CoveredSound, Complete
<1> QED
  BY <1>1, <1>2, <1>3, <1>4, NextDayStep DEF SweepInv

\* The day checked was not verified, and is not on the list any more.
LEMMA CheckStep ==
    ASSUME SweepInv, NEW w \in Worker, NEW d \in Day, CheckDay(w, d)
    PROVE  /\ SweepInv'
           /\ integrity[d] # "verified"
           /\ \A e \in Day : e # d => integrity'[e] = integrity[e]
<1>1. PICK o \in DayOutcome : RecordResult(d, o)
  BY DEF CheckDay
<1>2. /\ At(w, "integrity", d) /\ NextDay(w)
      /\ UNCHANGED <<start, yesterday, hours, daily, covered, queued>>
  BY DEF CheckDay, storeVars
<1>3. "integrity" \in SweepKind
  BY DEF SweepKind
<1>4. integrity[d] # "verified"
  BY <1>2 DEF At, SweepInv, ChecksUnverified, GetAllVerifiedDays
<1>5. /\ integrity' \in [Day -> Outcome]
      /\ \A e \in Day : e # d => integrity'[e] = integrity[e]
  BY <1>1 DEF RecordResult, SweepInv, DayOutcome, Outcome
<1>6. GetAllVerifiedDays' \subseteq GetAllVerifiedDays \cup {d}
  BY <1>5 DEF GetAllVerifiedDays
<1>7. ChecksUnverified'
  <2> SUFFICES ASSUME NEW v \in Worker, sweep'[v].kind = "integrity"
               PROVE  sweep'[v].todo \cap GetAllVerifiedDays' = {}
    BY DEF ChecksUnverified
  <2>1. CASE v = w
    <3>1. sweep[w].todo \cap GetAllVerifiedDays = {}
      BY <1>2 DEF At, SweepInv, ChecksUnverified
    <3>2. sweep'[w].todo = sweep[w].todo \ {d}
      BY <1>2, <1>3, NextDayStep
    <3> QED
      BY <1>6, <2>1, <3>1, <3>2
  <2>2. CASE v # w
    <3>1. sweep'[v].todo = {}
      BY <1>2, <1>3, <2>2, NextDayStep
    <3> QED
      BY <3>1
  <2> QED
    BY <2>1, <2>2
<1>8. CoveredSound'
  BY <1>2 DEF SweepInv, CoveredSound, Complete
<1> QED
  BY <1>2, <1>3, <1>4, <1>5, <1>7, <1>8, NextDayStep DEF SweepInv

LEMMA AbortStep ==
    ASSUME SweepInv, NEW w \in Worker, SweepAborts(w)
    PROVE  SweepInv'
<1>1. /\ sweep' = [sweep EXCEPT ![w] = Idle]
      /\ UNCHANGED <<start, yesterday, hours, daily, covered, integrity, queued>>
  BY DEF SweepAborts, storeVars
<1>2. Idle \in [kind : SweepKind, todo : SUBSET Day] /\ Idle.todo = {}
  BY DEF Idle, SweepKind
<1>3. sweep' \in [Worker -> [kind : SweepKind, todo : SUBSET Day]]
  BY <1>1, <1>2 DEF SweepInv
<1>4. /\ sweep'[w].todo = {}
      /\ \A v \in Worker : v # w => sweep'[v] = sweep[v]
  BY <1>1, <1>2 DEF SweepInv
<1>5. OneSweep'
  BY <1>4 DEF SweepInv, OneSweep
<1>6. ChecksUnverified'
  BY <1>1, <1>4 DEF SweepInv, ChecksUnverified, GetAllVerifiedDays
<1>7. CoveredSound'
  BY <1>1 DEF SweepInv, CoveredSound, Complete
<1> QED
  BY <1>1, <1>3, <1>5, <1>6, <1>7 DEF SweepInv

\* The planner and the calendar touch no row and no sweep.
LEMMA PlannerStep ==
    ASSUME SweepInv,
           \/ Calendar \/ RealtimeStarts
           \/ BuildGapValidationTasks \/ BuildIntegrityCheckTasks
    PROVE  SweepInv'
<1>1. UNCHANGED <<hours, daily, covered, integrity, sweep>>
  BY DEF Calendar, CursorMovesBack, DayEnds, RealtimeStarts,
     BuildGapValidationTasks, BuildIntegrityCheckTasks, storeVars
<1>2. start' \in Day /\ yesterday' \in Day
  BY SweepAssumption DEF SweepInv, Day, Calendar, CursorMovesBack, DayEnds,
     RealtimeStarts, BuildGapValidationTasks, BuildIntegrityCheckTasks, storeVars
<1>3. queued' \in [SweepKind -> Window \cup {NoWindow}]
  <2>1. [from |-> start, to |-> yesterday] \in Window
    BY DEF SweepInv, Window
  <2> QED
    BY <2>1 DEF SweepInv, Calendar, CursorMovesBack, DayEnds, RealtimeStarts,
       BuildGapValidationTasks, BuildIntegrityCheckTasks, Enqueue
<1>4. OneSweep' /\ ChecksUnverified' /\ CoveredSound'
  BY <1>1 DEF SweepInv, OneSweep, ChecksUnverified, GetAllVerifiedDays,
     CoveredSound, Complete
<1> QED
  BY <1>1, <1>2, <1>3, <1>4 DEF SweepInv

-----------------------------------------------------------------------------
\* Every step keeps the invariant, and no step takes a verified day back.
LEMMA SweepStep ==
    ASSUME SweepInv, SweepNext
    PROVE  /\ SweepInv'
           /\ \A d \in Day : integrity[d] = "verified" => integrity'[d] = "verified"
<1> DEFINE Goal == /\ SweepInv'
                   /\ \A d \in Day : integrity[d] = "verified"
                                        => integrity'[d] = "verified"
<1>1. ASSUME NEW w \in Worker, NEW d \in Day, CheckDay(w, d) PROVE Goal
  BY <1>1, CheckStep
<1>2. ASSUME NEW w \in Worker, NEW d \in Day, CoverDay(w, d) \/ LeaveDay(w, d)
      PROVE  Goal
  BY <1>2, CoverStep, LeaveStep DEF CoverDay, LeaveDay
<1>3. ASSUME NEW w \in Worker, NEW k \in SweepKind, StartSweep(w, k) PROVE Goal
  BY <1>3, StartStep DEF StartSweep
<1>4. ASSUME NEW w \in Worker, SweepAborts(w) PROVE Goal
  BY <1>4, AbortStep DEF SweepAborts
<1>5. ASSUME NEW d \in Day, CandleArrives(d) PROVE Goal
  BY <1>5, CandleStep DEF CandleArrives
<1>6. ASSUME \/ Calendar \/ RealtimeStarts
             \/ BuildGapValidationTasks \/ BuildIntegrityCheckTasks
      PROVE  Goal
  BY <1>6, PlannerStep DEF Calendar, CursorMovesBack, DayEnds, RealtimeStarts,
     BuildGapValidationTasks, BuildIntegrityCheckTasks
<1>7. "gap" \in SweepKind /\ "integrity" \in SweepKind
  BY DEF SweepKind
<1> HIDE DEF Goal
<1>8. Goal
  BY <1>1, <1>2, <1>3, <1>4, <1>5, <1>6, <1>7
  DEF SweepNext, GapNext, IntegrityNext, Abort
<1> QED
  BY <1>8 DEF Goal

LEMMA SweepInvariance == SweepSpec => []SweepInv
<1>1. SweepInit => SweepInv
  <2> SUFFICES ASSUME SweepInit PROVE SweepInv
    OBVIOUS
  <2>1. Idle \in [kind : SweepKind, todo : SUBSET Day] /\ Idle.todo = {}
    BY DEF Idle, SweepKind
  <2>2. hours \in [Day -> 0..Hours] /\ integrity \in [Day -> Outcome]
    BY SweepAssumption DEF SweepInit, Outcome
  <2> QED
    BY <2>1, <2>2 DEF SweepInit, SweepInv, OneSweep, ChecksUnverified, CoveredSound
<1>2. SweepInv /\ [SweepNext]_sweepVars => SweepInv'
  <2>1. CASE UNCHANGED sweepVars
    BY <2>1 DEF sweepVars, storeVars, SweepInv, OneSweep, ChecksUnverified,
       GetAllVerifiedDays, CoveredSound, Complete
  <2> QED
    BY <2>1, SweepStep
<1> QED
  BY <1>1, <1>2, PTL DEF SweepSpec

\* MarkDayComplete is only ever called for a day that has its daily candle and
\* all its hours, and no later write undoes that: GapValidationExecutor may skip
\* a covered day for good.
THEOREM CoveredDaysComplete == SweepSpec => []CoveredSound
<1>1. SweepInv => CoveredSound
  BY DEF SweepInv
<1> QED
  BY <1>1, SweepInvariance, PTL

\* The pair's lock makes the verified days a sweep has read at its start good
\* until its end: no check of a verified day is recorded over the first.
THEOREM VerifiedDaysStay == SweepSpec => VerifiedStays
<1>1. SweepInv /\ [SweepNext]_sweepVars =>
        [\A d \in Day : integrity[d] = "verified" => integrity'[d] = "verified"]_sweepVars
  BY SweepStep
<1> QED
  BY <1>1, SweepInvariance, PTL DEF SweepSpec, VerifiedStays

-----------------------------------------------------------------------------
(* The check of a day *)

\* What the sources answered so far.
CheckInv ==
    /\ results = [s \in Answered |-> results[s]]
    /\ IsFiniteSet(Answered)
    /\ \A s \in Answered : results[s] \in CandleSet

-----------------------------------------------------------------------------
\* How many candles the sources have, and the prices of an hour: finite sets of
\* numbers, so that the largest and the least exist.
LEMMA CountsAre ==
    ASSUME CheckInv
    PROVE  /\ \A s \in Answered : Count(s) \in Nat
           /\ {0} \cup {Count(s) : s \in Answered} \in SUBSET Nat
           /\ IsFiniteSet({0} \cup {Count(s) : s \in Answered})
<1>1. \A s \in Answered : DOMAIN results[s] \in SUBSET CheckHour
  BY DEF CheckInv, CandleSet
<1>2. \A s \in Answered : Count(s) \in Nat
  BY <1>1, IntegrityAssumption, FS_Subset, FS_CardinalityType DEF Count
<1> DEFINE counts == {Count(s) : s \in Answered}
           f == [s \in Answered |-> Count(s)]
<1>3. f \in Surjection(Answered, counts)
  BY DEF Surjection
<1>4. IsFiniteSet(counts)
  BY <1>3, FS_Surjection DEF CheckInv
<1>5. IsFiniteSet(counts \cup {0})
  BY <1>4, FS_AddElement
<1>6. counts \cup {0} = {0} \cup counts
  OBVIOUS
<1> QED
  BY <1>2, <1>5, <1>6

LEMMA PricesAre ==
    ASSUME CheckInv, NEW h
    PROVE  ByTime(h) \in SUBSET Nat /\ IsFiniteSet(ByTime(h))
<1> DEFINE D == {x \in Answered : h \in DOMAIN results[x]}
           f == [s \in D |-> results[s][h]]
<1>1. \A s \in D : results[s][h] \in Nat
  <2> SUFFICES ASSUME NEW s \in D PROVE results[s][h] \in Nat
    OBVIOUS
  <2>1. PICK H \in SUBSET CheckHour : results[s] \in [H -> Quote]
    BY DEF CheckInv, CandleSet
  <2> QED
    BY <2>1, IntegrityAssumption
<1>2. f \in Surjection(D, ByTime(h))
  BY DEF Surjection, ByTime
<1>3. IsFiniteSet(D)
  BY FS_Subset DEF CheckInv
<1> QED
  BY <1>1, <1>2, <1>3, FS_Surjection DEF ByTime

\* No source has fewer candles than another.
LEMMA NoGaps ==
    ASSUME CheckInv
    PROVE  GapCount = 0 <=> \A r, s \in Answered : Count(r) >= Count(s)
<1> DEFINE E == {0} \cup {Count(s) : s \in Answered}
           short == {s \in Answered : Count(s) < Max(E)}
<1>1. /\ \A s \in Answered : Count(s) \in Nat
      /\ E \in SUBSET Nat /\ IsFiniteSet(E)
  BY CountsAre
<1>2. Max(E) \in E /\ Max(E) \in Nat /\ \A y \in E : y <= Max(E)
  BY <1>1, MaxMin
<1>3. GapCount = 0 <=> short = {}
  <2>1. IsFiniteSet(short)
    BY FS_Subset DEF CheckInv
  <2>2. GapCount = Cardinality(short)
    BY DEF GapCount
  <2> QED
    BY <2>1, <2>2, FS_EmptySet
<1>4. ASSUME short = {} PROVE \A r, s \in Answered : Count(r) >= Count(s)
  BY <1>1, <1>2, <1>4
<1>5. ASSUME \A r, s \in Answered : Count(r) >= Count(s) PROVE short = {}
  BY <1>1, <1>2, <1>5
<1> QED
  BY <1>3, <1>4, <1>5

\* The closing prices of an hour, without a 0 among them, are close to each other.
Close(h) ==
    \A r, s \in Answered : h \in DOMAIN results[r] \cap DOMAIN results[s]
        => 0 \in ByTime(h) \/ results[r][h] * 100 <= 102 * results[s][h]

\* Comparing the largest with the least price compares every two.
LEMMA HourDiverges ==
    ASSUME CheckInv, NEW h
    PROVE  ~Diverges(ByTime(h)) <=> Close(h)
<1> DEFINE P == ByTime(h)
<1>1. P \in SUBSET Nat /\ IsFiniteSet(P)
  BY PricesAre
<1>2. \A r \in Answered : h \in DOMAIN results[r] => results[r][h] \in P
  BY DEF ByTime
<1>3. \A p \in P : \E r \in Answered : h \in DOMAIN results[r] /\ p = results[r][h]
  BY DEF ByTime
<1>4. Close(h) <=> (0 \notin P => \A p, q \in P : p * 100 <= 102 * q)
  BY <1>2, <1>3 DEF Close
<1> HIDE DEF P
<1>5. CASE P = {}
  <2>1. Cardinality(P) = 0
    BY <1>5, FS_EmptySet
  <2>2. ~Diverges(P)
    BY <2>1 DEF Diverges
  <2> QED
    BY <1>4, <1>5, <2>2 DEF P
<1>6. CASE P # {}
  <2>1. /\ Max(P) \in P /\ Max(P) \in Nat /\ \A y \in P : y <= Max(P)
        /\ Min(P) \in P /\ Min(P) \in Nat /\ \A y \in P : Min(P) <= y
    BY <1>1, <1>6, MaxMin
  <2>2. Cardinality(P) \in Nat /\ (Cardinality(P) = 1 => \E x : P = {x}) /\ Cardinality(P) # 0
    BY <1>1, <1>6, FS_Singleton, FS_EmptySet, FS_CardinalityType
  <2>3. ASSUME ~Diverges(P), 0 \notin P, NEW p \in P, NEW q \in P PROVE p * 100 <= 102 * q
    <3>1. CASE Cardinality(P) > 1
      <4>1. (Max(P) - Min(P)) * 100 <= 2 * Min(P)
        BY <2>1, <2>3, <3>1 DEF Diverges
      <4>2. p \in Nat /\ q \in Nat /\ p <= Max(P) /\ Min(P) <= q
        BY <1>1, <2>1
      <4> QED
        BY <2>1, <4>1, <4>2
    <3>2. CASE ~(Cardinality(P) > 1)
      <4>1. p = q
        BY <2>2, <3>2
      <4>2. p \in Nat
        BY <1>1
      <4> QED
        BY <4>1, <4>2
    <3> QED
      BY <3>1, <3>2
  <2>4. ASSUME 0 \notin P => \A p, q \in P : p * 100 <= 102 * q PROVE ~Diverges(P)
    <3> SUFFICES ASSUME Min(P) # 0 PROVE ~((Max(P) - Min(P)) * 100 > 2 * Min(P))
      BY DEF Diverges
    <3>1. 0 \notin P
      BY <2>1
    <3>2. Max(P) * 100 <= 102 * Min(P)
      BY <2>1, <2>4, <3>1
    <3> QED
      BY <2>1, <3>2
  <2> QED
    BY <1>4, <2>3, <2>4 DEF P
<1> QED
  BY <1>5, <1>6

LEMMA NoDivergence ==
    ASSUME CheckInv
    PROVE  DivergenceCount = 0 <=> \A h \in CheckHour : Close(h)
<1> DEFINE far == {h \in CheckHour : Diverges(ByTime(h))}
<1>1. IsFiniteSet(far)
  BY IntegrityAssumption, FS_Subset
<1>2. DivergenceCount = 0 <=> far = {}
  BY <1>1, FS_EmptySet DEF DivergenceCount
<1> QED
  BY <1>2, HourDiverges

LEMMA ComparesAll == CheckInv => ChecksCompareAllPairs
<1> SUFFICES ASSUME CheckInv, Cardinality(Answered) >= MinSources
             PROVE  DayPasses <=> \A r, s \in Answered : Within(r, s)
  BY DEF ChecksCompareAllPairs
<1>1. DayPasses <=> GapCount = 0 /\ DivergenceCount = 0
  <2>1. Cardinality(Answered) \in Nat /\ MinSources \in Nat
    BY IntegrityAssumption, FS_CardinalityType DEF CheckInv
  <2> QED
    BY <2>1 DEF DayPasses
<1>2. (\A h \in CheckHour : Close(h)) <=>
        \A r, s \in Answered : \A h \in DOMAIN results[r] \cap DOMAIN results[s] :
            0 \in ByTime(h) \/ results[r][h] * 100 <= 102 * results[s][h]
  <2>1. \A s \in Answered : DOMAIN results[s] \in SUBSET CheckHour
    BY DEF CheckInv, CandleSet
  <2> QED
    BY <2>1 DEF Close
<1> QED
  BY <1>1, <1>2, NoGaps, NoDivergence DEF Within

LEMMA ResultsStep == CheckInv /\ [CheckNext]_checkVars => CheckInv'
<1> SUFFICES ASSUME CheckInv, [CheckNext]_checkVars PROVE CheckInv'
  OBVIOUS
<1>1. CASE results' = results
  BY <1>1 DEF CheckInv, Answered, CandleSet
<1>2. CASE NextCheck
  <2>1. results' = << >> /\ Answered' = {}
    BY <1>2 DEF NextCheck, NoCandles, Answered
  <2>2. IsFiniteSet(Answered')
    BY <2>1, FS_EmptySet
  <2> QED
    BY <2>1, <2>2 DEF CheckInv
<1>3. ASSUME NEW s \in Source, NEW c \in CandleSet,
             results' = [x \in Answered \cup {s} |-> IF x = s THEN c ELSE results[x]]
      PROVE  CheckInv'
  <2>1. Answered' = Answered \cup {s}
    BY <1>3 DEF Answered
  <2>2. IsFiniteSet(Answered')
    BY <2>1, FS_AddElement DEF CheckInv
  <2>3. results' = [x \in Answered' |-> results'[x]]
    BY <1>3, <2>1
  <2>4. \A x \in Answered' : results'[x] \in CandleSet
    BY <1>3, <2>1 DEF CheckInv
  <2> QED
    BY <2>2, <2>3, <2>4 DEF CheckInv, CandleSet
<1> QED
  BY <1>1, <1>2, <1>3 DEF CheckNext, FetchCandles, checkVars

\* An integrity check passes exactly when every two sources that answered agree on
\* the number of candles and, within 2 %, on every hour both have: comparing the
\* extremes of a day, as verifyDay does, misses no pair of sources.
THEOREM ChecksLookAtEveryPair == CheckSpec => []ChecksCompareAllPairs
<1>1. CheckInit => CheckInv
  <2> SUFFICES ASSUME CheckInit PROVE CheckInv
    OBVIOUS
  <2>1. results = << >> /\ Answered = {}
    BY DEF CheckInit, NoCandles, Answered
  <2> QED
    BY <2>1, FS_EmptySet DEF CheckInv
<1> QED
  BY <1>1, ResultsStep, ComparesAll, PTL DEF CheckSpec
=============================================================================
