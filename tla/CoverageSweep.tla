---------------------------- MODULE CoverageSweep ----------------------------
(***************************************************************************)
(* The two daily sweeps over one pair: gap validation, which records in    *)
(* data_coverage the days that have all their candles, and the integrity   *)
(* check, which compares the providers' candles of a day and records the   *)
(* outcome in integrity_coverage.                                          *)
(*                                                                         *)
(* The window of a sweep is fixed when the planner enqueues it: from the   *)
(* backfill cursor, which moves back, to yesterday, which moves forward.   *)
(* The task id carries the planning interval, so a second sweep of a pair  *)
(* may be queued while one runs; the pair's advisory lock keeps them apart *)
(* (module TaskEngine).                                                    *)
(***************************************************************************)
EXTENDS Naturals, FiniteSets, FiniteSetsExt

CONSTANTS
    LastDay,    \* bound: the days are 1..LastDay
    Hours,      \* the hours of a day (24)
    MaxDays,    \* maxDaysPerRun
    Worker      \* goroutines that may execute a sweep

ASSUME SweepAssumption ==
    LastDay \in Nat \ {0} /\ Hours \in Nat \ {0} /\ MaxDays \in Nat \ {0}

Day == 1..LastDay
SweepKind == {"gap", "integrity"}

VARIABLES
    start,      \* the day of HourlyLastSynced
    yesterday,  \* the last closed day
    realtime,   \* HourlyBackfillCompleted, or realtime has started
    hours,      \* per day, how many distinct hourly candles there are
    daily,      \* the days with a raw daily candle
    covered,    \* data_coverage, is_complete
    integrity,  \* integrity_coverage: per day the outcome of its last check
    queued,     \* per kind, the window of the task in the queue
    sweep       \* per worker, the sweep it executes

storeVars == <<start, yesterday, realtime, hours, daily>>
sweepVars == <<storeVars, covered, integrity, queued, sweep>>

Outcome == {"none", "failed", "verified"}
Window == [from : Day, to : Day]
NoWindow == [from |-> 1, to |-> 0]
Idle == [kind |-> "gap", todo |-> {}]

-----------------------------------------------------------------------------
(* Candles and the calendar *)

\* The backfill extends the pair's history by a day.
CursorMovesBack ==
    /\ start > 1
    /\ start' = start - 1
    /\ UNCHANGED <<yesterday, realtime, hours, daily, covered, integrity,
                   queued, sweep>>

DayEnds ==
    /\ yesterday < LastDay
    /\ yesterday' = yesterday + 1
    /\ UNCHANGED <<start, realtime, hours, daily, covered, integrity, queued,
                   sweep>>

RealtimeStarts ==
    /\ ~realtime
    /\ realtime' = TRUE
    /\ UNCHANGED <<start, yesterday, hours, daily, covered, integrity, queued,
                   sweep>>

\* Backfill, realtime and consolidation write candles and delete none.
CandleArrives(d) ==
    /\ \/ /\ hours[d] < Hours
          /\ hours' = [hours EXCEPT ![d] = @ + 1]
          /\ daily' = daily
       \/ /\ d \notin daily
          /\ daily' = daily \cup {d}
          /\ hours' = hours
    /\ UNCHANGED <<start, yesterday, realtime, covered, integrity, queued, sweep>>

-----------------------------------------------------------------------------
(* The planner *)

GetAllCompletedDays == covered

GetAllVerifiedDays == {d \in Day : integrity[d] = "verified"}

Done(k) == IF k = "gap" THEN GetAllCompletedDays ELSE GetAllVerifiedDays

Enqueue(k) == queued' = [queued EXCEPT ![k] = [from |-> start, to |-> yesterday]]

\* A day of the window is not covered.
BuildGapValidationTasks ==
    /\ queued["gap"] = NoWindow
    /\ ~(start..yesterday \subseteq GetAllCompletedDays)
    /\ Enqueue("gap")
    /\ UNCHANGED <<storeVars, covered, integrity, sweep>>

\* Likewise, for a pair that has some history.
BuildIntegrityCheckTasks ==
    /\ queued["integrity"] = NoWindow
    /\ realtime
    /\ ~(start..yesterday \subseteq GetAllVerifiedDays)
    /\ Enqueue("integrity")
    /\ UNCHANGED <<storeVars, covered, integrity, sweep>>

-----------------------------------------------------------------------------
(* The executors: a sweep reads what is done once, then walks the window *)

\* Mutant: days that are done use up the run as well.
DaysToCheckFirst(window, done) ==
    {d \in window.from..window.to : d < window.from + MaxDays /\ d \notin done}

\* The first MaxDays days of the window that are not done.
DaysToCheck(window, done) ==
    {d \in window.from..window.to :
        /\ d \notin done
        /\ Cardinality({e \in window.from..d : e \notin done}) <= MaxDays}

Locked == \E w \in Worker : sweep[w].todo # {}

\* Mutant: sweeps of a pair side by side.
StartSweepUnlocked(w, k) ==
    /\ queued[k] # NoWindow
    /\ sweep[w].todo = {}
    /\ sweep' = [sweep EXCEPT ![w] =
                   [kind |-> k, todo |-> DaysToCheck(queued[k], Done(k))]]
    /\ queued' = [queued EXCEPT ![k] = NoWindow]
    /\ UNCHANGED <<storeVars, covered, integrity>>

\* The task is claimed and the pair's lock taken; the days done are read.
StartSweep(w, k) ==
    /\ queued[k] # NoWindow
    /\ ~Locked
    /\ sweep' = [sweep EXCEPT ![w] =
                   [kind |-> k, todo |-> DaysToCheck(queued[k], Done(k))]]
    /\ queued' = [queued EXCEPT ![k] = NoWindow]
    /\ UNCHANGED <<storeVars, covered, integrity>>

\* The loop's next day.
At(w, k, d) ==
    /\ sweep[w].kind = k
    /\ d \in sweep[w].todo
    /\ \A e \in sweep[w].todo : d <= e

NextDay(w) == sweep' = [sweep EXCEPT ![w].todo = @ \ {Min(@)}]

\* Mutant: an hour may be missing.
ValidateDayOffByOne(d) == d \in daily /\ hours[d] + 1 >= Hours

\* The daily candle and all distinct hours.
ValidateDay(d) == d \in daily /\ hours[d] >= Hours

MarkDayComplete(d) == covered' = covered \cup {d}

CoverDay(w, d) ==
    /\ At(w, "gap", d)
    /\ ValidateDay(d)
    /\ MarkDayComplete(d)
    /\ NextDay(w)
    /\ UNCHANGED <<storeVars, integrity, queued>>

\* Incomplete, or a query fails: the sweep goes on.
LeaveDay(w, d) ==
    /\ At(w, "gap", d)
    /\ NextDay(w)
    /\ UNCHANGED <<storeVars, covered, integrity, queued>>

\* What module IntegrityCheck may find.
DayOutcome == {"verified", "failed"}

RecordResult(d, o) == integrity' = [integrity EXCEPT ![d] = o]

\* MarkDayVerified and RecordResult, or RecordResult alone.
CheckDay(w, d) ==
    /\ At(w, "integrity", d)
    /\ \E o \in DayOutcome : RecordResult(d, o)
    /\ NextDay(w)
    /\ UNCHANGED <<storeVars, covered, queued>>

\* A write fails or the instance dies: the sweep ends, the lock is released.
SweepAborts(w) ==
    /\ sweep[w].todo # {}
    /\ sweep' = [sweep EXCEPT ![w] = Idle]
    /\ UNCHANGED <<storeVars, covered, integrity, queued>>

-----------------------------------------------------------------------------
SweepInit ==
    /\ start \in Day
    /\ yesterday = start
    /\ realtime = FALSE
    /\ hours = [d \in Day |-> 0]
    /\ daily = {}
    /\ covered = {}
    /\ integrity = [d \in Day |-> "none"]
    /\ queued = [k \in SweepKind |-> NoWindow]
    /\ sweep = [w \in Worker |-> Idle]

Calendar == CursorMovesBack \/ DayEnds

GapNext ==
    \/ \E d \in Day : CandleArrives(d)
    \/ BuildGapValidationTasks
    \/ \E w \in Worker :
          \/ StartSweep(w, "gap")
          \/ \E d \in Day : CoverDay(w, d) \/ LeaveDay(w, d)

IntegrityNext ==
    \/ RealtimeStarts
    \/ BuildIntegrityCheckTasks
    \/ \E w \in Worker : StartSweep(w, "integrity") \/ \E d \in Day : CheckDay(w, d)

Abort == \E w \in Worker : SweepAborts(w)

SweepNext == Calendar \/ GapNext \/ IntegrityNext \/ Abort

SweepSpec == SweepInit /\ [][SweepNext]_sweepVars

\* The step of a day at which no query and no write fails.
ValidateCorrectly(w, d) == CoverDay(w, d) \/ (~ValidateDay(d) /\ LeaveDay(w, d))

(* Fairness: the planner keeps enqueueing, the workers take what is queued,  *)
(* and a day that is looked at again and again does not meet an error every  *)
(* time.                                                                     *)
SweepFairness ==
    /\ WF_sweepVars(BuildGapValidationTasks)
    /\ WF_sweepVars(\E w \in Worker : StartSweep(w, "gap"))
    /\ \A d \in Day : SF_sweepVars(\E w \in Worker : ValidateCorrectly(w, d))

-----------------------------------------------------------------------------
(* Properties *)

\* The types of windows, rows and sweeps; a sweep looks at MaxDays days at most.
SweepTypeOK ==
    /\ start \in Day /\ yesterday \in Day /\ realtime \in BOOLEAN
    /\ hours \in [Day -> 0..Hours]
    /\ daily \subseteq Day /\ covered \subseteq Day
    /\ integrity \in [Day -> Outcome]
    /\ queued \in [SweepKind -> Window \cup {NoWindow}]
    /\ sweep \in [Worker -> [kind : SweepKind, todo : SUBSET Day]]

Complete(d) == d \in daily /\ hours[d] = Hours

\* A day in data_coverage, which no sweep looks at again, has its daily candle
\* and the candles of all its hours.
CoveredSound == \A d \in covered : Complete(d)

\* A verified day stays verified: no sweep that has read the days done before
\* overwrites the row with the outcome of a later check.
VerifiedStays ==
    [][\A d \in Day : integrity[d] = "verified" => integrity'[d] = "verified"]_sweepVars

\* The days before d that keep sweeps busy.
Ahead(d) == {e \in start..(d - 1) : ~Complete(e)}

\* A complete day is covered in the end, however many sweeps are cut short, if
\* fewer days than a sweep looks at stay incomplete before it.
CompleteDaysCovered ==
    \A d \in Day :
        <>[](/\ d \in start..yesterday /\ Complete(d)
             /\ Cardinality(Ahead(d)) < MaxDays)
            => <>(d \in covered)
=============================================================================
