-------------------------- MODULE BackfillSyncProofs --------------------------
(***************************************************************************)
(* What BackfillSync promises for every number of hours, windows and       *)
(* faults: the hourly cursor never moves forward, daily windows follow a   *)
(* complete hourly backfill, and the daily cursor follows daily candles.   *)
(***************************************************************************)
EXTENDS BackfillSync, TLAPS

Time == Int \cup {Null}

\* The inductive invariant.  What a tick has read and what a worker executes
\* may be older than the sync row, but a flag they have seen set stays set.
IInv ==
    /\ now \in Int
    /\ synced \in Time
    /\ hourlyDone \in BOOLEAN
    /\ status \in [Id -> RowStatus]
    /\ sent \in [Id -> SUBSET Int]
    /\ run # Null => /\ run.id \in Id
                     /\ run.window \in Int
                     /\ status[run.id] = "running"
    /\ snap # Null => snap.synced \in Time /\ (snap.hourlyDone => hourlyDone)
    /\ DailyAfterHourly

\* Task ids carry a number.
LEMMA IdShape == \A x \in Id : x[2] \in Int
<1> SUFFICES ASSUME NEW x \in Id PROVE x[2] \in Int
  OBVIOUS
<1>1. \A h \in Hour : h \in Int
  BY TimeAssumption DEF Hour
<1>2. \A d \in Days : d \in Int
  BY TimeAssumption DEF Days, Day
<1>3. CASE x \in {"1h"} \X Hour
  BY <1>1, <1>3
<1>4. CASE x \in {"1d", "probe", "consolidation"} \X Days
  BY <1>2, <1>4
<1>5. CASE x = Ticker
  BY <1>5 DEF Ticker
<1> QED BY <1>3, <1>4, <1>5 DEF Id

\* What LEAST makes of a cursor and a window's end.
LEMMA LeastTimeFacts ==
    ASSUME NEW a \in Time, NEW b \in Int
    PROVE  /\ LeastTime(a, b) \in Int
           /\ LeastTime(a, b) # Null
           /\ a # Null => LeastTime(a, b) <= a
BY TimeAssumption DEF LeastTime, Time

\* A tick enqueues integer windows, and daily ones only if it has read that the
\* hourly backfill is complete.
LEMMA PlanStep ==
    ASSUME IInv, Plan
    PROVE  /\ status' \in [Id -> RowStatus]
           /\ sent' \in [Id -> SUBSET Int]
           /\ run # Null => status'[run.id] = "running"
           /\ DailyAfterHourly'
<1> PICK n \in Shares :
      LET windows == IF Active THEN {} ELSE BackfillTasks(snap, n)
          emitted == {Ticker} \cup windows \cup ProbeTasks(snap)
                     \cup ConsolidationTasks(snap)
          enq     == {x \in emitted : Requeueable(x)}
      IN  /\ status' = [x \in Id |-> IF x \in enq THEN "pending" ELSE status[x]]
          /\ sent'   = [x \in Id |-> IF x \in enq
                                       THEN sent[x] \cup {WindowOf(snap, x)}
                                       ELSE sent[x]]
  BY DEF Plan
<1> DEFINE windows == IF Active THEN {} ELSE BackfillTasks(snap, n)
           emitted == {Ticker} \cup windows \cup ProbeTasks(snap)
                      \cup ConsolidationTasks(snap)
           enq     == {x \in emitted : Requeueable(x)}
<1>1. status' = [x \in Id |-> IF x \in enq THEN "pending" ELSE status[x]]
  OBVIOUS
<1>2. sent' = [x \in Id |-> IF x \in enq THEN sent[x] \cup {WindowOf(snap, x)}
                                         ELSE sent[x]]
  OBVIOUS
<1>3. snap # Null /\ hourlyDone' = hourlyDone
  BY DEF Plan, syncVars
<1>4. status' \in [Id -> RowStatus]
  BY <1>1 DEF IInv, RowStatus
<1>5. ASSUME NEW x \in enq, x \in Id PROVE WindowOf(snap, x) \in Int
  <2>1. CASE x = Ticker
    <3>1. x[1] # "probe"
      BY <2>1 DEF Ticker
    <3>2. WindowOf(snap, x) = now
      BY <2>1, <3>1 DEF WindowOf
    <3> QED BY <3>2 DEF IInv
  <2>2. CASE x # Ticker /\ x[1] = "probe"
    <3>1. snap.synced # Null
      BY <2>2 DEF ProbeTasks, BackfillTasks, ConsolidationTasks
    <3> QED BY <2>2, <3>1, <1>3 DEF WindowOf, IInv, Time
  <2>3. CASE x # Ticker /\ x[1] # "probe"
    BY <2>3, <1>5, IdShape DEF WindowOf
  <2> QED BY <2>1, <2>2, <2>3
<1>6. sent' \in [Id -> SUBSET Int]
  BY <1>2, <1>5 DEF IInv
<1>7. DailyAfterHourly'
  <2> SUFFICES ASSUME NEW d \in Days, status'[<<"1d", d>>] # "none"
               PROVE  hourlyDone
    BY <1>3 DEF DailyAfterHourly
  <2>1. <<"1d", d>> \in Id
    BY DEF Id
  <2>2. CASE <<"1d", d>> \in enq
    <3>1. snap.hourlyDone
      BY <2>2 DEF Ticker, BackfillTasks, ProbeTasks, ConsolidationTasks
    <3> QED BY <3>1, <1>3 DEF IInv
  <2>3. CASE <<"1d", d>> \notin enq
    BY <1>1, <2>1, <2>3 DEF IInv, DailyAfterHourly
  <2> QED BY <2>2, <2>3
<1>8. run # Null => status'[run.id] = "running"
  BY <1>1 DEF IInv, Requeueable
<1> QED BY <1>4, <1>6, <1>7, <1>8

\* Settling a row makes no new one, so it leaves the daily windows to a flag
\* that stays set.
LEMMA SettleStep ==
    ASSUME IInv, run # Null, NEW st \in RowStatus, Settle(st),
           hourlyDone => hourlyDone'
    PROVE  /\ status' \in [Id -> RowStatus]
           /\ run' = Null
           /\ DailyAfterHourly'
<1>1. \A x \in Id : status[x] = "none" => status'[x] = "none"
  BY DEF Settle, IInv
<1>2. \A d \in Days : <<"1d", d>> \in Id
  BY DEF Id
<1> QED BY <1>1, <1>2 DEF Settle, IInv, DailyAfterHourly, RowStatus

\* The invariant is inductive.
LEMMA IInvStep ==
    ASSUME IInv, [Next]_vars
    PROVE  IInv'
<1>1. CASE ReadStates
  BY <1>1 DEF ReadStates, IInv, DailyAfterHourly, syncVars, dataVars, taskVars
<1>2. CASE Plan
  <2>1. /\ UNCHANGED <<now, synced, hourlyDone, run>>
        /\ snap' = Null
    BY <1>2 DEF Plan, syncVars
  <2> QED BY <1>2, <2>1, PlanStep DEF IInv
<1>3. CASE StoreHourly
  BY <1>3 DEF StoreHourly, IInv, DailyAfterHourly, syncVars, taskVars
<1>4. CASE FinishHourly
  <2>1. /\ run # Null /\ run.window \in Int
        /\ Settle("done") /\ "done" \in RowStatus
        /\ UpsertHourlyProgress(run.window, BackfillComplete(run.id))
        /\ UNCHANGED <<now, sent, snap>>
    BY <1>4 DEF FinishHourly, IInv, RowStatus
  <2>2. synced' \in Time
    BY <2>1, LeastTimeFacts DEF UpsertHourlyProgress, IInv, Time
  <2>3. hourlyDone' \in BOOLEAN /\ (hourlyDone => hourlyDone')
    BY <2>1 DEF UpsertHourlyProgress, BackfillComplete, IInv
  <2> QED BY <2>1, <2>2, <2>3, SettleStep DEF IInv
<1>5. CASE FinishDaily
  <2>1. /\ run # Null
        /\ Settle("done") /\ "done" \in RowStatus
        /\ UNCHANGED <<now, synced, hourlyDone, sent, snap>>
    BY <1>5 DEF FinishDaily, RowStatus
  <2> QED BY <2>1, SettleStep DEF IInv
<1>6. CASE FinishTicker
  <2>1. /\ run # Null
        /\ Settle("done") /\ "done" \in RowStatus
        /\ UNCHANGED <<now, synced, hourlyDone, sent, snap>>
    BY <1>6 DEF FinishTicker, RowStatus
  <2> QED BY <2>1, SettleStep DEF IInv
<1>7. CASE FailRun
  <2>1. /\ run # Null
        /\ Settle("failed") /\ "failed" \in RowStatus
        /\ UNCHANGED <<now, synced, hourlyDone, sent, snap>>
    BY <1>7 DEF FailRun, RowStatus, syncVars
  <2> QED BY <2>1, SettleStep DEF IInv
<1>8. ASSUME NEW x \in Id, Start(x) PROVE IInv'
  <2>1. PICK w \in sent[x] : run' = [id |-> x, window |-> w]
    BY <1>8 DEF Start
  <2>2. /\ UNCHANGED <<now, synced, hourlyDone, sent, snap>>
        /\ status' = [status EXCEPT ![x] = "running"]
        /\ status[x] # "none"
    BY <1>8 DEF Start, syncVars
  <2>3. w \in Int
    BY <2>1 DEF IInv
  <2>4. DailyAfterHourly'
    BY <2>2 DEF IInv, DailyAfterHourly, Id
  <2> QED BY <2>1, <2>2, <2>3, <2>4 DEF IInv, RowStatus
<1>9. ASSUME NEW x \in Id, RetryFallsDue(x) PROVE IInv'
  <2>1. /\ UNCHANGED <<now, synced, hourlyDone, sent, snap, run>>
        /\ status' = [status EXCEPT ![x] = "pending"]
        /\ status[x] = "failed"
    BY <1>9 DEF RetryFallsDue, syncVars
  <2>2. DailyAfterHourly'
    BY <2>1 DEF IInv, DailyAfterHourly, Id
  <2> QED BY <2>1, <2>2 DEF IInv, RowStatus
<1>10. CASE Crash
  BY <1>10 DEF Crash, IInv, DailyAfterHourly, syncVars, taskVars
<1>11. CASE TimePasses
  BY <1>11, TimeAssumption DEF TimePasses, IInv, DailyAfterHourly, syncVars, taskVars
<1>12. CASE UNCHANGED vars
  BY <1>12 DEF vars, IInv, DailyAfterHourly, syncVars, taskVars
<1> QED
  BY <1>1, <1>2, <1>3, <1>4, <1>5, <1>6, <1>7, <1>8, <1>9, <1>10, <1>11, <1>12
  DEF Next, Planner, Worker, Finish

\* And it holds throughout.
LEMMA Invariance == Spec => []IInv
<1>1. Init => IInv
  <2> SUFFICES ASSUME Init PROVE IInv
    OBVIOUS
  <2>1. now \in Int
    BY TimeAssumption DEF Init
  <2>2. synced \in Time /\ run = Null /\ snap = Null
    BY DEF Init, Time
  <2>3. hourlyDone \in BOOLEAN
    BY Zenon DEF Init
  <2>4. status \in [Id -> RowStatus] /\ sent \in [Id -> SUBSET Int]
    BY DEF Init, RowStatus
  <2>5. DailyAfterHourly
    BY DEF Init, DailyAfterHourly, Id
  <2> QED BY <2>1, <2>2, <2>3, <2>4, <2>5 DEF IInv
<1>2. IInv /\ [Next]_vars => IInv'
  BY IInvStep
<1> QED BY <1>1, <1>2, PTL DEF Spec

\* UpsertProgress and the scheduler never take back what the hourly backfill has
\* completed: a pair has daily windows only once its hourly ones are complete,
\* whatever windows, probes and ticks are still under way.
THEOREM DailyFollowsHourly == Spec => []DailyAfterHourly
<1>1. IInv => DailyAfterHourly
  BY DEF IInv
<1> QED BY <1>1, Invariance, PTL

\* The LEAST of UpsertProgress makes the hourly cursor monotone, for windows and
\* probes executed late, twice, out of order or with an outdated window.
THEOREM CursorNeverMovesForward == Spec => CursorMonotone
<1>1. IInv /\ [Next]_vars =>
        [synced # Null => (synced' # Null /\ synced' <= synced)]_vars
  <2> SUFFICES ASSUME IInv, Next, synced # Null
               PROVE  synced' # Null /\ synced' <= synced
    OBVIOUS
  <2>1. synced \in Int
    BY DEF IInv, Time
  <2>2. CASE FinishHourly
    <3>1. run.window \in Int /\ synced' = LeastTime(synced, run.window)
      BY <2>2 DEF FinishHourly, UpsertHourlyProgress, IInv
    <3> QED BY <3>1, LeastTimeFacts DEF IInv
  <2>3. CASE ~FinishHourly
    <3>1. synced' = synced
      BY <2>3 DEF Next, Planner, Worker, Finish, ReadStates, Plan, StoreHourly,
         FinishDaily, FinishTicker, FailRun, Start, RetryFallsDue, Crash,
         TimePasses, syncVars
    <3> QED BY <2>1, <3>1
  <2> QED BY <2>2, <2>3
<1> QED BY <1>1, Invariance, PTL DEF Spec, CursorMonotone

-----------------------------------------------------------------------------
\* FinishDaily alone moves the daily cursor and writes daily candles, and no
\* step takes a candle back.
LEMMA CandlesKept ==
    ASSUME [Next]_vars
    PROVE  /\ candles1h \subseteq candles1h'
           /\ FinishDaily \/ UNCHANGED <<candles1d, dailySynced>>
BY DEF Next, Planner, Worker, Finish, ReadStates, Plan, StoreHourly, FinishHourly,
   FinishDaily, FinishTicker, FailRun, Start, RetryFallsDue, Crash, TimePasses,
   syncVars, dataVars, vars

\* The daily executor consolidates what hourly candles there are and only then
\* moves the cursor: wherever it stops there is a daily candle, and hourly ones
\* behind each, whatever windows and consolidations have run in which order.
THEOREM DailyCursorIsBacked == Spec => []DailyCursorBacked
<1>1. Init => DailyCursorBacked
  BY DEF Init, DailyCursorBacked
<1>2. DailyCursorBacked /\ [Next]_vars => DailyCursorBacked'
  <2> SUFFICES ASSUME DailyCursorBacked, [Next]_vars PROVE DailyCursorBacked'
    OBVIOUS
  <2>1. CASE UNCHANGED <<candles1d, dailySynced>>
    BY <2>1, CandlesKept DEF DailyCursorBacked
  <2>2. CASE FinishDaily
    <3>1. /\ \E h \in candles1h : Day(h) = run.window - 1
          /\ candles1d' = candles1d \cup {run.window - 1}
          /\ candles1h' = candles1h
      BY <2>2 DEF FinishDaily
    <3>2. \/ dailySynced' = dailySynced /\ dailySynced # Null
          \/ dailySynced' = run.window
      BY <2>2 DEF FinishDaily, LeastTime
    <3> QED
      BY <3>1, <3>2 DEF DailyCursorBacked
  <2> QED
    BY <2>1, <2>2, CandlesKept
<1> QED BY <1>1, <1>2, PTL DEF Spec
=============================================================================
