------------------------------ MODULE TaskEngine ------------------------------
(***************************************************************************)
(* The task engine of the exchangely backend: the tasks table, the planner *)
(* that enqueues into it, the Kafka topic that advertises what was         *)
(* enqueued, and the worker goroutines (poll loop and topic consumer) that *)
(* claim a row, take the advisory lock of its pair, execute and settle it. *)
(*                                                                         *)
(* One element of Slot is one goroutine that may be inside                 *)
(* Processor.Process: the `concurrency` goroutines of a poll loop, and one *)
(* topic consumer per instance.  Wall-clock time is kept only as the three *)
(* comparisons the SQL makes: retry_at against NOW(), claimed_at against   *)
(* NOW() - 30s, and the retention cut-off of the cleanup.                  *)
(***************************************************************************)
EXTENDS Naturals, FiniteSets

CONSTANTS
    Task,           \* task ids (deterministic, so one row per id)
    Ticker,         \* the live_ticker tasks
    Backfill,       \* the historical_backfill tasks
    Probe,          \* the backfill tasks emitted as daily probes
    Cleanup,        \* the task_cleanup tasks
    Pair,           \* values of pair_symbol
    PairOf,         \* Task -> Pair
    MaxRetry,       \* Task -> 24 for interval 1h, 7 for 1d, 0 for any other
    Instance,       \* backend processes
    Planner,        \* the instances with the planner role
    Slot,           \* goroutines that run Processor.Process
    Consumer,       \* the slots that are topic consumers
    Host,           \* Slot -> Instance
    Limit,          \* worker batch size
    BackfillLimit,  \* backfill share of the worker batch
    NoTask, NoSlot,
    MaxMessages,    \* bound: copies of one task reference in the topic
    MaxFaults       \* bound: crashes and database errors in a behaviour

ASSUME TaskAssumption ==
    /\ Ticker \subseteq Task
    /\ Backfill \subseteq Task \ Ticker
    /\ Probe \subseteq Backfill
    /\ Cleanup \subseteq Task \ (Ticker \cup Backfill)
    /\ PairOf \in [Task -> Pair]
    /\ MaxRetry \in [Task -> Nat]
    /\ NoTask \notin Task

ASSUME SlotAssumption ==
    /\ Planner \subseteq Instance
    /\ Consumer \subseteq Slot
    /\ Host \in [Slot -> Instance]
    /\ NoSlot \notin Slot

ASSUME BoundAssumption ==
    /\ Limit \in Nat
    /\ BackfillLimit \in Nat
    /\ MaxMessages \in Nat
    /\ MaxFaults \in Nat

VARIABLES
    status,     \* tasks.status, "absent" when there is no row
    retries,    \* tasks.retry_count, saturated at MaxRetry + 1
    retryAt,    \* tasks.retry_at: NULL, after NOW() or not after NOW()
    stale,      \* status running and tasks.claimed_at < NOW() - 30s
    topic,      \* uncommitted task references on the Kafka topic
    batch,      \* per instance, fetched by the poll loop and not started
    pc,         \* per slot, where in Process it is
    cur,        \* per slot, the task it processes
    lock,       \* per pair, the slot whose session holds the advisory lock
    tick,       \* per instance, where in runTick its planner is
    active,     \* per instance, activePairs as read in this tick
    faults      \* crashes and database errors so far

rowVars    == <<status, retries, retryAt, stale>>
workVars   == <<batch, pc, cur, lock>>
planVars   == <<tick, active>>
vars       == <<rowVars, topic, workVars, planVars, faults>>

Status   == {"absent", "pending", "running", "completed", "failed"}
RetryAt  == {"null", "future", "past"}
SlotPc   == {"idle", "claim", "lock", "exec", "complete", "fail", "unlock",
             "commit"}
TickPc   == {"idle", "realtime", "followup"}

-----------------------------------------------------------------------------
(* Reading the tasks table *)

Least(m, n) == IF m <= n THEN m ELSE n

\* Pending: the three fetch phases, by task type.
Phase(t) == IF t \in Ticker THEN 1 ELSE IF t \in Backfill THEN 3 ELSE 2

\* Mutant of Due: the fetch queries without `OR retry_at <= NOW()`.
DueOnlyUnretried(t) == status[t] = "pending" /\ retryAt[t] = "null"

\* The WHERE clause shared by the fetch queries.
Due(t) == status[t] = "pending" /\ retryAt[t] # "future"

DueIn(k) == {t \in Task : Due(t) /\ Phase(t) = k}

\* F can be what SELECT ... FROM S LIMIT n returns (ORDER BY left open).
Fetches(F, S, n) == F \subseteq S /\ Cardinality(F) = Least(n, Cardinality(S))

\* B can be what TaskRepository.Pending returns.
PendingReturns(B) ==
    LET In(k) == {t \in B : Phase(t) = k}
        rest  == Limit - Cardinality(In(1))
    IN  /\ Fetches(In(1), DueIn(1), Limit)
        /\ Fetches(In(2), DueIn(2), rest)
        /\ Fetches(In(3), DueIn(3),
                   Least(BackfillLimit, rest - Cardinality(In(2))))

ActiveBackfillPairs ==
    {PairOf[t] : t \in {u \in Backfill : status[u] = "running" \/ Due(u)}}

-----------------------------------------------------------------------------
(* The planner *)

\* Mutant of Requeueable: the 30s clause applies to every task type.
RequeueableAnyStale(t) ==
    \/ status[t] \in {"absent", "completed", "failed"}
    \/ status[t] = "running" /\ stale[t]
    \/ status[t] = "pending" /\ retryAt[t] = "future"

\* Mutant of Requeueable: no 30s clause.
RequeueableNoStale(t) ==
    \/ status[t] \in {"absent", "completed", "failed"}
    \/ status[t] = "pending" /\ retryAt[t] = "future"

\* The WHERE clause of Enqueue's ON CONFLICT, or no conflict at all.
Requeueable(t) ==
    \/ status[t] \in {"absent", "completed", "failed"}
    \/ status[t] = "running" /\ t \in Ticker /\ stale[t]
    \/ status[t] = "pending" /\ retryAt[t] = "future"

\* enqueueBatch: the rows are written in one transaction, then references to
\* the rows written are published, each of which the broker may lose.
EnqueueBatch(S) ==
    LET enq == {t \in S : Requeueable(t)}
    IN  /\ status'  = [t \in Task |-> IF t \in enq THEN "pending" ELSE status[t]]
        /\ retries' = [t \in Task |-> IF t \in enq THEN 0 ELSE retries[t]]
        /\ retryAt' = [t \in Task |-> IF t \in enq THEN "null" ELSE retryAt[t]]
        /\ stale'   = [t \in Task |-> IF t \in enq THEN FALSE ELSE stale[t]]
        /\ \E pub \in SUBSET enq :
              topic' = [t \in Task |-> IF t \in pub
                                         THEN Least(topic[t] + 1, MaxMessages)
                                         ELSE topic[t]]

\* runTick up to the snapshot of activePairs, for a planner that got the lease.
\* A tick outlives its lease, so several instances may be past this point.
TickStart(i) ==
    /\ tick[i] = "idle"
    /\ tick'   = [tick EXCEPT ![i] = "realtime"]
    /\ active' = [active EXCEPT ![i] = ActiveBackfillPairs]
    /\ UNCHANGED <<rowVars, topic, workVars, faults>>

\* The first batch of the tick: BuildRealtimeTasks emits every pair's ticker.
EnqueueRealtime(i) ==
    /\ tick[i] = "realtime"
    /\ EnqueueBatch(Ticker)
    /\ tick' = [tick EXCEPT ![i] = "followup"]
    /\ UNCHANGED <<workVars, active, faults>>

\* The second batch: backfill windows only for pairs not in the snapshot,
\* probes and the time-windowed tasks as the schedule has them, the cleanup
\* task always.
EnqueueFollowUp(i) ==
    /\ tick[i] = "followup"
    /\ \E S \in SUBSET (Task \ Ticker) :
          /\ Cleanup \subseteq S
          /\ \A t \in S \cap (Backfill \ Probe) : PairOf[t] \notin active[i]
          /\ EnqueueBatch(S)
    /\ tick'   = [tick EXCEPT ![i] = "idle"]
    /\ active' = [active EXCEPT ![i] = {}]
    /\ UNCHANGED <<workVars, faults>>

-----------------------------------------------------------------------------
(* The worker: where tasks come from *)

Pollers(i) == {s \in Slot \ Consumer : Host[s] = i}

\* runBatch: the next Pending query waits for the whole previous batch.
FetchPending(i) ==
    /\ batch[i] = {}
    /\ \A s \in Pollers(i) : pc[s] = "idle"
    /\ \E B \in SUBSET Task :
          /\ B # {}
          /\ PendingReturns(B)
          /\ batch' = [batch EXCEPT ![i] = B]
    /\ UNCHANGED <<rowVars, topic, pc, cur, lock, planVars, faults>>

\* runBatch: a free semaphore slot takes the next item, in phase order.
StartItem(s) ==
    /\ s \notin Consumer
    /\ pc[s] = "idle"
    /\ \E t \in batch[Host[s]] :
          /\ \A u \in batch[Host[s]] : Phase(t) <= Phase(u)
          /\ batch' = [batch EXCEPT ![Host[s]] = @ \ {t}]
          /\ cur'   = [cur EXCEPT ![s] = t]
    /\ pc' = [pc EXCEPT ![s] = "claim"]
    /\ UNCHANGED <<rowVars, topic, lock, planVars, faults>>

\* TaskConsumer.Run: FetchMessage.  The reference stays on the topic until it
\* is committed, so after a rebalance another instance fetches it as well.
FetchMessage(s) ==
    /\ s \in Consumer
    /\ pc[s] = "idle"
    /\ \E t \in Task : topic[t] > 0 /\ cur' = [cur EXCEPT ![s] = t]
    /\ pc' = [pc EXCEPT ![s] = "claim"]
    /\ UNCHANGED <<rowVars, topic, batch, lock, planVars, faults>>

\* TaskConsumer.Run: CommitMessages, whatever Process returned.
CommitMessage(s) ==
    /\ pc[s] = "commit"
    /\ topic' = [topic EXCEPT ![cur[s]] = IF @ = 0 THEN 0 ELSE @ - 1]
    /\ pc'    = [pc EXCEPT ![s] = "idle"]
    /\ cur'   = [cur EXCEPT ![s] = NoTask]
    /\ UNCHANGED <<rowVars, batch, lock, planVars, faults>>

-----------------------------------------------------------------------------
(* The worker: Processor.Process *)

\* Process returns to its caller.
Return(s) ==
    /\ pc'  = [pc EXCEPT ![s] = IF s \in Consumer THEN "commit" ELSE "idle"]
    /\ cur' = [cur EXCEPT ![s] = IF s \in Consumer THEN @ ELSE NoTask]

\* Mutant of Claimable: the claim does not look at the status.
ClaimableAny(t) == status[t] # "absent"

Claimable(t) == status[t] \in {"pending", "failed"}

Claim(s) ==
    /\ pc[s] = "claim"
    /\ IF Claimable(cur[s])
         THEN /\ status' = [status EXCEPT ![cur[s]] = "running"]
              /\ stale'  = [stale EXCEPT ![cur[s]] = FALSE]
              /\ pc'     = [pc EXCEPT ![s] = "lock"]
              /\ cur'    = cur
         ELSE Return(s) /\ UNCHANGED <<status, stale>>
    /\ UNCHANGED <<retries, retryAt, topic, batch, lock, planVars, faults>>

\* Mutant of Lock: a try-lock whose result is ignored.
LockWithoutWaiting(s) ==
    /\ pc[s] = "lock"
    /\ lock' = [lock EXCEPT ![PairOf[cur[s]]] = s]
    /\ pc'   = [pc EXCEPT ![s] = "exec"]
    /\ UNCHANGED <<rowVars, topic, batch, cur, planVars, faults>>

\* AdvisoryPairLocker.Lock blocks until no session holds the pair's key.
Lock(s) ==
    /\ pc[s] = "lock"
    /\ lock[PairOf[cur[s]]] = NoSlot
    /\ lock' = [lock EXCEPT ![PairOf[cur[s]]] = s]
    /\ pc'   = [pc EXCEPT ![s] = "exec"]
    /\ UNCHANGED <<rowVars, topic, batch, cur, planVars, faults>>

\* Mutant of ExecuteOk: the prune does not filter on the status.
ExecuteOkPruningAny(s) ==
    /\ pc[s] = "exec"
    /\ \E D \in SUBSET Task :
          /\ cur[s] \notin Cleanup => D = {}
          /\ status'  = [t \in Task |-> IF t \in D THEN "absent" ELSE status[t]]
          /\ retries' = [t \in Task |-> IF t \in D THEN 0 ELSE retries[t]]
          /\ retryAt' = [t \in Task |-> IF t \in D THEN "null" ELSE retryAt[t]]
          /\ stale'   = [t \in Task |-> IF t \in D THEN FALSE ELSE stale[t]]
    /\ pc' = [pc EXCEPT ![s] = "complete"]
    /\ UNCHANGED <<topic, batch, cur, lock, planVars, faults>>

\* PruneOldTasks deletes settled rows only: the ones past the retention period
\* and the ones beyond the newest keepMax.
Prunable(t) == status[t] \in {"completed", "failed"}

\* The executor succeeds.  CleanupExecutor prunes.
ExecuteOk(s) ==
    /\ pc[s] = "exec"
    /\ \E D \in SUBSET {t \in Task : Prunable(t)} :
          /\ cur[s] \notin Cleanup => D = {}
          /\ status'  = [t \in Task |-> IF t \in D THEN "absent" ELSE status[t]]
          /\ retries' = [t \in Task |-> IF t \in D THEN 0 ELSE retries[t]]
          /\ retryAt' = [t \in Task |-> IF t \in D THEN "null" ELSE retryAt[t]]
          /\ stale'   = [t \in Task |-> IF t \in D THEN FALSE ELSE stale[t]]
    /\ pc' = [pc EXCEPT ![s] = "complete"]
    /\ UNCHANGED <<topic, batch, cur, lock, planVars, faults>>

ExecuteError(s) ==
    /\ pc[s] = "exec"
    /\ pc' = [pc EXCEPT ![s] = "fail"]
    /\ UNCHANGED <<rowVars, topic, batch, cur, lock, planVars, faults>>

\* Mutant of Complete: an upsert instead of an update.
CompleteUpserting(s) ==
    /\ pc[s] = "complete"
    /\ status' = [status EXCEPT ![cur[s]] = "completed"]
    /\ stale'  = [stale EXCEPT ![cur[s]] = FALSE]
    /\ pc'     = [pc EXCEPT ![s] = "unlock"]
    /\ UNCHANGED <<retries, retryAt, topic, batch, cur, lock, planVars, faults>>

\* UPDATE ... WHERE id = $1: neither the status nor the claim is looked at.
Complete(s) ==
    /\ pc[s] = "complete"
    /\ status' = [status EXCEPT ![cur[s]] =
                    IF @ = "absent" THEN @ ELSE "completed"]
    /\ stale'  = [stale EXCEPT ![cur[s]] = FALSE]
    /\ pc'     = [pc EXCEPT ![s] = "unlock"]
    /\ UNCHANGED <<retries, retryAt, topic, batch, cur, lock, planVars, faults>>

\* Mutant of Fail: the retry budget counts down from zero.
FailCountingDown(s) ==
    /\ pc[s] = "fail"
    /\ status'  = [status EXCEPT ![cur[s]] = "pending"]
    /\ retryAt' = [retryAt EXCEPT ![cur[s]] = "future"]
    /\ retries' = [retries EXCEPT ![cur[s]] = @ - 1]
    /\ stale'   = [stale EXCEPT ![cur[s]] = FALSE]
    /\ pc'      = [pc EXCEPT ![s] = "unlock"]
    /\ UNCHANGED <<topic, batch, cur, lock, planVars, faults>>

Fail(s) ==
    /\ pc[s] = "fail"
    /\ LET t     == cur[s]
           again == retries[t] < MaxRetry[t]
       IN  IF status[t] = "absent"
             THEN UNCHANGED <<status, retries, retryAt>>
             ELSE /\ status'  = [status EXCEPT ![t] =
                                   IF again THEN "pending" ELSE "failed"]
                  /\ retryAt' = [retryAt EXCEPT ![t] =
                                   IF again THEN "future" ELSE @]
                  /\ retries' = [retries EXCEPT ![t] =
                                   Least(@ + 1, MaxRetry[t] + 1)]
    /\ stale' = [stale EXCEPT ![cur[s]] = FALSE]
    /\ pc'    = [pc EXCEPT ![s] = "unlock"]
    /\ UNCHANGED <<topic, batch, cur, lock, planVars, faults>>

\* The deferred unlock; Process returns.
Unlock(s) ==
    /\ pc[s] = "unlock"
    /\ lock' = [lock EXCEPT ![PairOf[cur[s]]] = NoSlot]
    /\ Return(s)
    /\ UNCHANGED <<rowVars, topic, batch, planVars, faults>>

-----------------------------------------------------------------------------
(* Faults and time *)

\* Claim or Lock returns an error: Process gives up, and after a failed Lock
\* the row it claimed stays running.
ReturnOnError(s) ==
    /\ pc[s] \in {"claim", "lock"}
    /\ faults < MaxFaults
    /\ Return(s)
    /\ faults' = faults + 1
    /\ UNCHANGED <<rowVars, topic, batch, lock, planVars>>

\* Mutant of SettleError: the unlock is not deferred, the early return skips it.
SettleErrorNoUnlock(s) ==
    /\ pc[s] \in {"complete", "fail"}
    /\ faults < MaxFaults
    /\ Return(s)
    /\ faults' = faults + 1
    /\ UNCHANGED <<rowVars, topic, batch, lock, planVars>>

\* Complete or Fail returns an error: the row stays running, the lock goes.
SettleError(s) ==
    /\ pc[s] \in {"complete", "fail"}
    /\ faults < MaxFaults
    /\ pc' = [pc EXCEPT ![s] = "unlock"]
    /\ faults' = faults + 1
    /\ UNCHANGED <<rowVars, topic, batch, cur, lock, planVars>>

\* An instance dies or is stopped, and starts again.  A cancelled context makes
\* Fail fail as well, so a graceful stop leaves the rows as a kill does.  Its
\* sessions end, which frees their advisory locks; its message is redelivered.
Crash(i) ==
    /\ faults < MaxFaults
    /\ faults' = faults + 1
    /\ batch'  = [batch EXCEPT ![i] = {}]
    /\ pc'     = [s \in Slot |-> IF Host[s] = i THEN "idle" ELSE pc[s]]
    /\ cur'    = [s \in Slot |-> IF Host[s] = i THEN NoTask ELSE cur[s]]
    /\ lock'   = [p \in Pair |-> IF lock[p] \in Slot /\ Host[lock[p]] = i
                                   THEN NoSlot ELSE lock[p]]
    /\ tick'   = [tick EXCEPT ![i] = "idle"]
    /\ active' = [active EXCEPT ![i] = {}]
    /\ UNCHANGED <<rowVars, topic>>

\* NOW() passes retry_at (which is read only while the row is pending).
RetryFallsDue(t) ==
    /\ status[t] = "pending" /\ retryAt[t] = "future"
    /\ retryAt' = [retryAt EXCEPT ![t] = "past"]
    /\ UNCHANGED <<status, retries, stale, topic, workVars, planVars, faults>>

\* NOW() passes claimed_at + 30s.
ClaimGrowsStale(t) ==
    /\ status[t] = "running" /\ ~stale[t]
    /\ stale' = [stale EXCEPT ![t] = TRUE]
    /\ UNCHANGED <<status, retries, retryAt, topic, workVars, planVars, faults>>

-----------------------------------------------------------------------------
Init ==
    /\ status  = [t \in Task |-> "absent"]
    /\ retries = [t \in Task |-> 0]
    /\ retryAt = [t \in Task |-> "null"]
    /\ stale   = [t \in Task |-> FALSE]
    /\ topic   = [t \in Task |-> 0]
    /\ batch   = [i \in Instance |-> {}]
    /\ pc      = [s \in Slot |-> "idle"]
    /\ cur     = [s \in Slot |-> NoTask]
    /\ lock    = [p \in Pair |-> NoSlot]
    /\ tick    = [i \in Instance |-> "idle"]
    /\ active  = [i \in Instance |-> {}]
    /\ faults  = 0

PlannerStep(i) == TickStart(i) \/ EnqueueRealtime(i) \/ EnqueueFollowUp(i)

SlotStep(s) ==
    \/ StartItem(s) \/ FetchMessage(s) \/ CommitMessage(s)
    \/ Claim(s) \/ Lock(s) \/ ExecuteOk(s) \/ ExecuteError(s)
    \/ Complete(s) \/ Fail(s) \/ Unlock(s)
    \/ ReturnOnError(s) \/ SettleError(s)

Next ==
    \/ \E i \in Planner : PlannerStep(i)
    \/ \E i \in Instance : FetchPending(i) \/ Crash(i)
    \/ \E s \in Slot : SlotStep(s)
    \/ \E t \in Task : RetryFallsDue(t) \/ ClaimGrowsStale(t)

Spec == Init /\ [][Next]_vars

(* Fairness: every loop of the program keeps running and the clock advances. *)
(* A waiter of pg_advisory_lock is served from the lock manager's queue, in  *)
(* order, hence strong fairness for Lock.  Executors return: their requests  *)
(* carry timeouts.                                                           *)
Fairness ==
    /\ \A i \in Planner : WF_vars(PlannerStep(i))
    /\ \A i \in Instance : WF_vars(FetchPending(i))
    /\ \A s \in Slot : WF_vars(SlotStep(s)) /\ SF_vars(Lock(s))
    /\ \A t \in Task : WF_vars(RetryFallsDue(t)) /\ WF_vars(ClaimGrowsStale(t))

FairSpec == Spec /\ Fairness

-----------------------------------------------------------------------------
(* Properties *)

\* The type invariant of the rows, the topic, the goroutines and the planners.
TypeOK ==
    /\ status  \in [Task -> Status]
    /\ retries \in [Task -> Nat]
    /\ retryAt \in [Task -> RetryAt]
    /\ stale   \in [Task -> BOOLEAN]
    /\ topic   \in [Task -> Nat]
    /\ batch   \in [Instance -> SUBSET Task]
    /\ pc      \in [Slot -> SlotPc]
    /\ cur     \in [Slot -> Task \cup {NoTask}]
    /\ lock    \in [Pair -> Slot \cup {NoSlot}]
    /\ tick    \in [Instance -> TickPc]
    /\ active  \in [Instance -> SUBSET Pair]
    /\ faults  \in Nat

\* Slot s has claimed its task's row and has not settled it.
Holds(s) == pc[s] \in {"lock", "exec", "complete", "fail"}

\* Slot s is between a successful Lock and the deferred unlock.
Locked(s) == pc[s] \in {"exec", "complete", "fail", "unlock"}

\* A task other than a live_ticker is processed by one goroutine at a time, and
\* its row says running for as long as it is: neither a stale fetch, nor a
\* redelivered message, nor a planner tick gets between claim and settlement.
ExclusiveClaim ==
    \A s \in Slot : (Holds(s) /\ cur[s] \notin Ticker) =>
        /\ status[cur[s]] = "running"
        /\ \A r \in Slot : (Holds(r) /\ cur[r] = cur[s]) => r = s

\* No two goroutines execute tasks of one pair at the same time, whatever the
\* task types and even when a stale live_ticker has been claimed twice.
PairMutualExclusion ==
    \A r, s \in Slot :
        (pc[r] = "exec" /\ pc[s] = "exec" /\ PairOf[cur[r]] = PairOf[cur[s]])
            => r = s

\* No advisory lock leaks: a locked pair is locked by a goroutine that is
\* processing a task of that pair and still has its unlock ahead of it, on
\* every error path of Process and after every crash.
NoLockLeak ==
    \A p \in Pair : lock[p] # NoSlot =>
        /\ Locked(lock[p])
        /\ PairOf[cur[lock[p]]] = p

\* A running row of a task other than a live_ticker is released by nobody but
\* the goroutine that claimed it, settling it.  (So a row whose goroutine is
\* gone stays running for ever.)
ReleasedByHolder ==
    [][\A t \in Task \ Ticker :
          (status[t] = "running" /\ status'[t] # "running") =>
              \E s \in Slot : /\ cur[s] = t
                              /\ pc[s] \in {"complete", "fail"}
                              /\ pc'[s] = "unlock"]_vars

\* A pruned row does not come back by a late Complete or Fail of a goroutine
\* that still processes it (a live_ticker claimed twice): rows are created by
\* Enqueue alone, as pending.
NoResurrection ==
    [][\A t \in Task :
          (status[t] = "absent" /\ status'[t] # "absent") =>
              (status'[t] = "pending" /\ retries'[t] = 0)]_vars

\* A live_ticker never stays running for ever, even when the goroutine that
\* claimed it has died: the 30s clause of Enqueue recovers the row.
TickerRecovers ==
    \A t \in Ticker : status[t] = "running" ~> status[t] # "running"

\* A queued task is eventually claimed (or settled by a late worker): cool-down
\* rows fall due and are fetched again, by polling alone.
PendingServed ==
    \A t \in Task : status[t] = "pending" ~> status[t] # "pending"

-----------------------------------------------------------------------------
(* Refinement: the engine is a TaskQueue *)

\* A row, as the queue sees it.
QueueStateOf(t) ==
    CASE status[t] = "absent" -> "absent"
      [] status[t] = "pending" -> "waiting"
      [] status[t] = "running" -> "taken"
      [] OTHER -> "settled"

HoldersOf(t) == {s \in Slot : Holds(s) /\ cur[s] = t}

Queue == INSTANCE TaskQueue WITH
    Shared  <- Ticker,
    Worker  <- Slot,
    queue   <- [t \in Task |-> QueueStateOf(t)],
    holders <- [t \in Task |-> HoldersOf(t)]

\* The rows and goroutines together implement the queue: claims, settlements,
\* planner ticks, prunes, errors and crashes are its steps, so a task is handed
\* to one goroutine at a time and only its holder settles it, whatever the
\* interleaving of fetch, redelivery and claim.
ImplementsQueue == Queue!Spec
=============================================================================
