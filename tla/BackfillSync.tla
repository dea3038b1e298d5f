----------------------------- MODULE BackfillSync -----------------------------
(***************************************************************************)
(* The data pipeline of one trading pair: its sync_status row, the windows *)
(* the scheduler derives from it, and what the executors write back.  The  *)
(* task rows are kept to the statuses that matter here (TaskEngine has the *)
(* protocol by which they are claimed), and the advisory lock of the pair  *)
(* to one execution at a time.                                             *)
(*                                                                         *)
(* Time is in hours, a day has H of them.  The candle of hour h covers     *)
(* [h, h+1), an hourly window is named by its end and so is a daily one,   *)
(* by the day that ends it.                                                *)
(***************************************************************************)
EXTENDS Integers, FiniteSets

CONSTANTS
    H,          \* hours in a day (24)
    Shares,     \* how many windows the round-robin may give the pair in a tick
    Covered,    \* the days marked complete in data_coverage
    Null,       \* SQL NULL, and no execution
    Floor,      \* bound: no window before this hour
    FirstHour,  \* bound: the clock's first
    LastHour,   \* bound: and last hour
    Step,       \* bound: the hours the clock advances by (the code: any)
    MaxFaults,  \* bound: executions that fail or are cut short
    MayCrash    \* whether workers crash

ASSUME TimeAssumption ==
    /\ H \in Nat \ {0} /\ Shares \subseteq Nat /\ Covered \subseteq Nat
    /\ Floor \in Nat /\ FirstHour \in Nat /\ LastHour \in Nat
    /\ Step \in Nat
    /\ MaxFaults \in Nat /\ MayCrash \in BOOLEAN
    /\ Null \notin Int

Day(h) == h \div H

Hour == Floor .. LastHour
Days == Day(Floor) .. Day(LastHour)

\* Task ids.  The ids of the probe and the consolidation carry the day they are
\* scheduled on.
Ticker == <<"live_ticker", 0>>
Id     == ({"1h"} \X Hour) \cup ({"1d", "probe", "consolidation"} \X Days) \cup {Ticker}

Hourly(x)  == x[1] \in {"1h", "probe"}
Daily(x)   == x[1] \in {"1d", "consolidation"}
Backfill(x) == x[1] \in {"1h", "1d", "probe"}

VARIABLES
    now,        \* the current hour
    synced,     \* hourly_last_synced_at
    rt,         \* hourly_realtime_started_at
    hourlyDone, \* hourly_backfill_completed
    dailySynced,\* daily_last_synced_at
    dailyDone,  \* daily_backfill_completed
    candles1h,  \* candles_1h
    candles1d,  \* candles_1d
    status,     \* the task rows; failed ones may have a retry left
    sent,       \* the windows an id has been enqueued and published with
    run,        \* the execution that holds the pair's lock
    snap,       \* the sync row a planner tick has read
    faults      \* executions that have failed or were cut short

syncVars == <<synced, rt, hourlyDone, dailySynced, dailyDone>>
dataVars == <<candles1h, candles1d>>
taskVars == <<status, sent>>
vars     == <<now, syncVars, dataVars, taskVars, run, snap, faults>>

\* LEAST and COALESCE(LEAST(..)): NULL arguments are ignored.
LeastTime(a, b) == IF a = Null \/ b < a THEN b ELSE a

\* The n greatest elements of S.
Newest(S, n) == {e \in S : Cardinality({f \in S : f > e}) < n}

-----------------------------------------------------------------------------
(* The scheduler, on the state s a tick has read *)

Yesterday == Day(now) - 1

\* BuildInitialBackfillTasksLimited: the hourly windows, newest first, from the
\* cursor down, skipping covered days.
HourlyCeiling(s) ==
    IF s.rt # Null /\ s.rt < Yesterday * H THEN s.rt ELSE Yesterday * H

\* Mutant of HourlyCursor: every tick starts over at the ceiling.
HourlyCursorRestart(s) == HourlyCeiling(s)

HourlyCursor(s) ==
    IF s.synced = Null \/ s.synced > HourlyCeiling(s)
      THEN HourlyCeiling(s) ELSE s.synced

HourlyWindows(s, n) ==
    Newest({e \in Floor + 1 .. HourlyCursor(s) : Day(e - 1) \notin Covered}, n)

\* BuildInitialBackfillTasksLimited: the daily windows, once the hourly ones are
\* complete.
DailyCursor(s) ==
    IF s.dailySynced = Null \/ s.dailySynced > Yesterday
      THEN Yesterday ELSE s.dailySynced

DailyWindows(s, n) ==
    Newest({d \in Day(Floor) + 1 .. DailyCursor(s) : d - 1 \notin Covered}, n)

BackfillTasks(s, n) ==
    IF ~s.hourlyDone THEN {"1h"} \X HourlyWindows(s, n)
    ELSE IF ~s.dailyDone THEN {"1d"} \X DailyWindows(s, n)
    ELSE {}

\* BuildBackfillProbeTasks.
ProbeTasks(s) == IF s.synced = Null THEN {} ELSE {<<"probe", Day(now)>>}

\* BuildConsolidationTasks.
ConsolidationTasks(s) ==
    IF s.hourlyDone /\ s.dailyDone THEN {<<"consolidation", Day(now)>>} ELSE {}

\* ActiveBackfillPairs has the pair: probes count as backfill.
Active == \E x \in Id : Backfill(x) /\ status[x] \in {"pending", "running"}

\* What a task is enqueued with: the end of its window, for a ticker the start.
WindowOf(s, x) ==
    CASE x = Ticker        -> now
      [] x[1] = "probe"    -> s.synced
      [] OTHER             -> x[2]

\* The ON CONFLICT clause of Enqueue.  A ticker row whose worker is gone is
\* re-queued after 30s.
Requeueable(x) ==
    \/ status[x] \in {"none", "done", "failed"}
    \/ x = Ticker /\ status[x] = "running" /\ (run # Null => run.id # x)

\* runTick: States, which hides the daily progress of a pair whose hourly
\* backfill is not complete.
ReadStates ==
    /\ snap = Null
    /\ snap' = [synced      |-> synced,
                rt          |-> rt,
                hourlyDone  |-> hourlyDone,
                dailySynced |-> IF hourlyDone THEN dailySynced ELSE Null,
                dailyDone   |-> hourlyDone /\ dailyDone]
    /\ UNCHANGED <<now, syncVars, dataVars, taskVars, run, faults>>

\* runTick: ActiveBackfillPairs, and the two batches that are enqueued.
Plan ==
    /\ snap # Null
    /\ \E n \in Shares :
          LET windows == IF Active THEN {} ELSE BackfillTasks(snap, n)
              emitted == {Ticker} \cup windows \cup ProbeTasks(snap)
                         \cup ConsolidationTasks(snap)
              enq     == {x \in emitted : Requeueable(x)}
          IN  /\ status' = [x \in Id |-> IF x \in enq THEN "pending" ELSE status[x]]
              /\ sent'   = [x \in Id |-> IF x \in enq
                                           THEN sent[x] \cup {WindowOf(snap, x)}
                                           ELSE sent[x]]
    /\ snap' = Null
    /\ UNCHANGED <<now, syncVars, dataVars, run, faults>>

-----------------------------------------------------------------------------
(* The executors *)

\* A worker claims the row, by a message maybe before its retry is due, and gets
\* the pair's lock.  What it executes is the window of the row it has polled or
\* of the message it has fetched, possibly an older one.
Start(x) ==
    /\ run = Null
    /\ status[x] \in {"pending", "failed"}
    /\ \E w \in sent[x] : run' = [id |-> x, window |-> w]
    /\ status' = [status EXCEPT ![x] = "running"]
    /\ UNCHANGED <<now, syncVars, dataVars, sent, snap, faults>>

Settle(st) ==
    /\ status' = [status EXCEPT ![run.id] = st]
    /\ run'    = Null

\* materializeHourly got the candle of the window, and it is upserted.
StoreHourly ==
    /\ run # Null /\ Hourly(run.id)
    /\ candles1h' = candles1h \cup {run.window - 1}
    /\ UNCHANGED <<now, syncVars, candles1d, taskVars, run, snap, faults>>

\* backfillComplete.
BackfillComplete(x) == FALSE

\* Mutant of UpsertHourlyProgress: the last window to finish is the cursor.
UpsertHourlyProgressLast(w, complete) ==
    /\ synced'     = w
    /\ hourlyDone' = (complete \/ (rt # Null /\ w >= rt) \/ hourlyDone)

\* Mutant of UpsertHourlyProgress: the CASE has no ELSE for the stored flag.
UpsertHourlyProgressNoElse(w, complete) ==
    /\ synced'     = LeastTime(synced, w)
    /\ hourlyDone' = (complete \/ (rt # Null /\ w >= rt))

\* UpsertProgress for the hourly intervals.
UpsertHourlyProgress(w, complete) ==
    /\ synced'     = LeastTime(synced, w)
    /\ hourlyDone' = (complete \/ (rt # Null /\ w >= rt) \/ hourlyDone)

\* BackfillExecutor, hourly: progress is recorded after the candles, or without
\* any when the sources have none.
FinishHourly ==
    /\ run # Null /\ Hourly(run.id)
    /\ UpsertHourlyProgress(run.window, BackfillComplete(run.id))
    /\ Settle("done")
    /\ UNCHANGED <<now, rt, dailySynced, dailyDone, dataVars, sent, snap, faults>>

\* Mutant of FinishDaily: a day without hourly candles counts as done.
FinishDailyEmpty ==
    /\ run # Null /\ Daily(run.id)
    /\ candles1d'   = candles1d \cup
          {d \in {run.window - 1} : \E h \in candles1h : Day(h) = d}
    /\ dailySynced' = LeastTime(dailySynced, run.window)
    /\ dailyDone'   = BackfillComplete(run.id)
    /\ Settle("done")
    /\ UNCHANGED <<now, synced, rt, hourlyDone, candles1h, sent, snap, faults>>

\* BackfillExecutor, daily: one candle of whatever hours of the day there are.
FinishDaily ==
    /\ run # Null /\ Daily(run.id)
    /\ \E h \in candles1h : Day(h) = run.window - 1
    /\ candles1d'   = candles1d \cup {run.window - 1}
    /\ dailySynced' = LeastTime(dailySynced, run.window)
    /\ dailyDone'   = BackfillComplete(run.id)
    /\ Settle("done")
    /\ UNCHANGED <<now, synced, rt, hourlyDone, candles1h, sent, snap, faults>>

\* RealtimeExecutor: the sample goes to the market topic, whose consumer may
\* still have it; the cut-over is recorded.
FinishTicker ==
    /\ run # Null /\ run.id = Ticker
    /\ \E got \in SUBSET {run.window} : candles1h' = candles1h \cup got
    /\ rt' = LeastTime(rt, run.window)
    /\ Settle("done")
    /\ UNCHANGED <<now, synced, hourlyDone, dailySynced, dailyDone, candles1d,
                   sent, snap, faults>>

\* The executor returns an error.
FailRun ==
    /\ run # Null
    /\ faults < MaxFaults
    /\ faults' = faults + 1
    /\ Settle("failed")
    /\ UNCHANGED <<now, syncVars, dataVars, sent, snap>>

\* NOW() passes the retry_at of a row that has retries left; a ticker has none.
RetryFallsDue(x) ==
    /\ x # Ticker
    /\ status[x] = "failed"
    /\ status' = [status EXCEPT ![x] = "pending"]
    /\ UNCHANGED <<now, syncVars, dataVars, sent, run, snap, faults>>

\* The worker dies in the middle of an execution; its row stays running.
Crash ==
    /\ run # Null
    /\ MayCrash
    /\ faults < MaxFaults
    /\ faults' = faults + 1
    /\ run'    = Null
    /\ UNCHANGED <<now, syncVars, dataVars, taskVars, snap>>

\* The clock advances.
TimePasses ==
    /\ now + Step <= LastHour
    /\ now' = now + Step
    /\ UNCHANGED <<syncVars, dataVars, taskVars, run, snap, faults>>

-----------------------------------------------------------------------------
Init ==
    /\ now = FirstHour
    /\ synced = Null /\ rt = Null /\ dailySynced = Null
    /\ hourlyDone = FALSE /\ dailyDone = FALSE
    /\ candles1h = {} /\ candles1d = {}
    /\ status = [x \in Id |-> "none"]
    /\ sent = [x \in Id |-> {}]
    /\ run = Null /\ snap = Null
    /\ faults = 0

Planner == ReadStates \/ Plan
Finish  == FinishHourly \/ FinishDaily \/ FinishTicker
Worker  == StoreHourly \/ Finish \/ FailRun \/ \E x \in Id : Start(x)

Next ==
    \/ Planner
    \/ Worker
    \/ Crash
    \/ TimePasses
    \/ \E x \in Id : RetryFallsDue(x)

Spec == Init /\ [][Next]_vars

(* Planner and worker loops keep running, and executions return.  A worker   *)
(* finishes a batch before it fetches the next, so a due row is not passed    *)
(* over for ever in favour of rows of another kind.                          *)
Fairness ==
    /\ WF_vars(Planner)
    /\ WF_vars(Worker)
    /\ SF_vars(\E x \in {"1h"} \X Hour : Start(x))
    /\ SF_vars(\E x \in {"1d"} \X Days : Start(x))
    /\ SF_vars(\E x \in {"probe"} \X Days : Start(x))

FairSpec == Spec /\ Fairness

-----------------------------------------------------------------------------
(* Properties *)

RowStatus == {"none", "pending", "running", "done", "failed"}

\* The type invariant of the sync row, the candles, the task rows and the tick.
TypeOK ==
    /\ now \in Hour
    /\ synced \in Hour \cup {Null}
    /\ rt \in Hour \cup {Null}
    /\ dailySynced \in Days \cup {Null}
    /\ hourlyDone \in BOOLEAN /\ dailyDone \in BOOLEAN
    /\ candles1h \subseteq Hour /\ candles1d \subseteq Days
    /\ status \in [Id -> RowStatus]
    /\ sent \in [Id -> SUBSET (Hour \cup Days)]
    /\ run # Null => run.id \in Id /\ run.window \in sent[run.id]
    /\ faults \in Nat

\* The hourly cursor only ever moves into the past: a late retry of a newer
\* window, or a probe that was enqueued with an older cursor, does not send the
\* backfill back over hours it has already walked.
CursorMonotone ==
    [][synced # Null => (synced' # Null /\ synced' <= synced)]_vars

\* Daily windows exist only for a pair whose hourly backfill is complete: the
\* hourly windows and probes that still run do not take the flag back.
DailyAfterHourly ==
    \A d \in Days : status[<<"1d", d>>] # "none" => hourlyDone

\* The daily cursor stops at a day that has a daily candle, and every daily
\* candle at a day that has an hourly one.
DailyCursorBacked ==
    /\ dailySynced # Null => dailySynced - 1 \in candles1d
    /\ \A d \in candles1d : \E h \in candles1h : Day(h) = d

\* README.md: "Historical backfill walks backwards from yesterday into the past".
\* Unless the hourly backfill is marked complete, it reaches the oldest hour.
BackfillReachesFloor == <>(hourlyDone \/ synced = Floor + 1)

=============================================================================
