--------------------------- MODULE TaskEngineProofs ---------------------------
(***************************************************************************)
(* Proofs about TaskEngine for every set of tasks, pairs, instances and    *)
(* goroutines, and every value of the limits.                              *)
(***************************************************************************)
EXTENDS TaskEngine, TLAPS

\* A goroutine that is not idle has a task.
BusyHasTask == \A s \in Slot : pc[s] # "idle" => cur[s] \in Task

\* A goroutine between Lock and unlock holds the lock of its task's pair.
LockedHasLock == \A s \in Slot : Locked(s) => lock[PairOf[cur[s]]] = s

\* The inductive invariant: ExclusiveClaim and NoLockLeak are not inductive
\* without knowing which task a goroutine has and that its lock is its own.
IInv ==
    /\ TypeOK
    /\ BusyHasTask
    /\ ExclusiveClaim
    /\ LockedHasLock
    /\ NoLockLeak

-----------------------------------------------------------------------------
\* What a planner batch leaves of the rows and the topic, whatever it enqueues.
LEMMA EnqueueBatchTypes ==
    ASSUME TypeOK, NEW S \in SUBSET Task, EnqueueBatch(S)
    PROVE  /\ status'  \in [Task -> Status]
           /\ retries' \in [Task -> Nat]
           /\ retryAt' \in [Task -> RetryAt]
           /\ stale'   \in [Task -> BOOLEAN]
           /\ topic'   \in [Task -> Nat]
<1> DEFINE enq == {t \in S : Requeueable(t)}
<1>1. /\ status'  = [t \in Task |-> IF t \in enq THEN "pending" ELSE status[t]]
      /\ retries' = [t \in Task |-> IF t \in enq THEN 0 ELSE retries[t]]
      /\ retryAt' = [t \in Task |-> IF t \in enq THEN "null" ELSE retryAt[t]]
      /\ stale'   = [t \in Task |-> IF t \in enq THEN FALSE ELSE stale[t]]
  BY DEF EnqueueBatch
<1>2. PICK pub \in SUBSET enq :
         topic' = [t \in Task |-> IF t \in pub
                                    THEN Least(topic[t] + 1, MaxMessages)
                                    ELSE topic[t]]
  BY DEF EnqueueBatch
<1>3. \A t \in Task : Least(topic[t] + 1, MaxMessages) \in Nat
  BY BoundAssumption DEF TypeOK, Least
<1> HIDE DEF enq
<1>4. status' \in [Task -> Status] /\ retryAt' \in [Task -> RetryAt]
  BY <1>1 DEF TypeOK, Status, RetryAt
<1>5. retries' \in [Task -> Nat]
  BY <1>1 DEF TypeOK
<1>6. stale' \in [Task -> BOOLEAN]
  BY <1>1, Zenon DEF TypeOK
<1>7. topic' \in [Task -> Nat]
  BY <1>2, <1>3 DEF TypeOK
<1> QED
  BY <1>4, <1>5, <1>6, <1>7

\* A planner batch leaves a running row of a task other than a live_ticker.
LEMMA EnqueueBatchKeepsRunning ==
    ASSUME NEW S \in SUBSET Task, EnqueueBatch(S),
           NEW t \in Task, t \notin Ticker, status[t] = "running"
    PROVE  status'[t] = "running"
BY DEF EnqueueBatch, Requeueable


-----------------------------------------------------------------------------
\* Every step of the engine keeps the types.
LEMMA TypeStep == TypeOK /\ [Next]_vars => TypeOK'
<1> SUFFICES ASSUME TypeOK, [Next]_vars PROVE TypeOK'
  OBVIOUS
<1> USE TaskAssumption, SlotAssumption
<1>1. ASSUME NEW i \in Planner, TickStart(i) PROVE TypeOK'
  <2>1. ActiveBackfillPairs \in SUBSET Pair
    BY DEF ActiveBackfillPairs
  <2> QED
    BY <1>1, <2>1 DEF TickStart, TypeOK, TickPc, rowVars, workVars
<1>2. ASSUME NEW i \in Planner, EnqueueRealtime(i) PROVE TypeOK'
  <2>1. EnqueueBatch(Ticker) /\ Ticker \in SUBSET Task
    BY <1>2 DEF EnqueueRealtime
  <2>2. tick' \in [Instance -> TickPc] /\ UNCHANGED <<workVars, active, faults>>
    BY <1>2 DEF EnqueueRealtime, TypeOK, TickPc
  <2> QED
    BY <2>1, <2>2, EnqueueBatchTypes DEF TypeOK, workVars
<1>3. ASSUME NEW i \in Planner, EnqueueFollowUp(i) PROVE TypeOK'
  <2>1. PICK S \in SUBSET (Task \ Ticker) : EnqueueBatch(S)
    BY <1>3 DEF EnqueueFollowUp
  <2>2. /\ tick' \in [Instance -> TickPc]
        /\ active' \in [Instance -> SUBSET Pair]
        /\ UNCHANGED <<workVars, faults>>
    BY <1>3 DEF EnqueueFollowUp, TypeOK, TickPc
  <2>3. S \in SUBSET Task
    OBVIOUS
  <2> QED
    BY <2>1, <2>2, <2>3, EnqueueBatchTypes DEF TypeOK, workVars
<1>4. ASSUME NEW i \in Instance, FetchPending(i) PROVE TypeOK'
  BY <1>4 DEF FetchPending, TypeOK, rowVars, planVars
<1>5. ASSUME NEW i \in Instance, Crash(i) PROVE TypeOK'
  <2>1. /\ pc' \in [Slot -> SlotPc]
        /\ cur' \in [Slot -> Task \cup {NoTask}]
        /\ lock' \in [Pair -> Slot \cup {NoSlot}]
    BY <1>5 DEF Crash, TypeOK, SlotPc
  <2> QED
    BY <1>5, <2>1 DEF Crash, TypeOK, TickPc, rowVars
<1>6. ASSUME NEW s \in Slot, StartItem(s) PROVE TypeOK'
  BY <1>6 DEF StartItem, TypeOK, SlotPc, rowVars, planVars
<1>7. ASSUME NEW s \in Slot, FetchMessage(s) PROVE TypeOK'
  BY <1>7 DEF FetchMessage, TypeOK, SlotPc, rowVars, planVars
<1>8. ASSUME NEW s \in Slot, CommitMessage(s) PROVE TypeOK'
  <2> DEFINE left(t) == IF topic[t] = 0 THEN 0 ELSE topic[t] - 1
  <2>2. \A t \in Task : left(t) \in Nat
    BY DEF TypeOK
  <2>3. topic' = [topic EXCEPT ![cur[s]] = left(cur[s])]
    BY <1>8 DEF CommitMessage
  <2>1. topic' \in [Task -> Nat]
    <3> HIDE DEF left
    <3> QED BY <2>2, <2>3 DEF TypeOK
  <2> QED
    BY <1>8, <2>1 DEF CommitMessage, TypeOK, SlotPc, rowVars, planVars
<1>9. ASSUME NEW s \in Slot, Claim(s) PROVE TypeOK'
  <2>1. status' \in [Task -> Status]
    BY <1>9 DEF Claim, TypeOK, Status
  <2>2. stale' \in [Task -> BOOLEAN]
    BY <1>9 DEF Claim, TypeOK
  <2>3. pc' \in [Slot -> SlotPc] /\ cur' \in [Slot -> Task \cup {NoTask}]
    BY <1>9 DEF Claim, Return, TypeOK, SlotPc
  <2> QED
    BY <1>9, <2>1, <2>2, <2>3 DEF Claim, TypeOK, planVars
<1>10. ASSUME NEW s \in Slot, Lock(s) PROVE TypeOK'
  BY <1>10 DEF Lock, TypeOK, SlotPc, rowVars, planVars
<1>11. ASSUME NEW s \in Slot, ExecuteOk(s) PROVE TypeOK'
  <2>1. PICK D :
          /\ status'  = [t \in Task |-> IF t \in D THEN "absent" ELSE status[t]]
          /\ retries' = [t \in Task |-> IF t \in D THEN 0 ELSE retries[t]]
          /\ retryAt' = [t \in Task |-> IF t \in D THEN "null" ELSE retryAt[t]]
          /\ stale'   = [t \in Task |-> IF t \in D THEN FALSE ELSE stale[t]]
    BY <1>11 DEF ExecuteOk, Prunable
  <2>2. status' \in [Task -> Status] /\ retries' \in [Task -> Nat]
    BY <2>1 DEF TypeOK, Status
  <2>3. retryAt' \in [Task -> RetryAt]
    BY <2>1 DEF TypeOK, RetryAt
  <2>4. stale' \in [Task -> BOOLEAN]
    BY <2>1, Zenon DEF TypeOK
  <2> QED
    BY <1>11, <2>2, <2>3, <2>4 DEF ExecuteOk, Prunable, TypeOK, SlotPc, planVars
<1>12. ASSUME NEW s \in Slot, ExecuteError(s) PROVE TypeOK'
  BY <1>12 DEF ExecuteError, TypeOK, SlotPc, rowVars, planVars
<1>13. ASSUME NEW s \in Slot, Complete(s) PROVE TypeOK'
  BY <1>13 DEF Complete, TypeOK, SlotPc, Status, planVars
<1>14. ASSUME NEW s \in Slot, Fail(s) PROVE TypeOK'
  <2>1. status' \in [Task -> Status] /\ retryAt' \in [Task -> RetryAt]
    BY <1>14 DEF Fail, TypeOK, Status, RetryAt
  <2>3. retries' \in [Task -> Nat]
    BY <1>14 DEF Fail, TypeOK, Least
  <2>2. /\ stale' \in [Task -> BOOLEAN]
        /\ pc' \in [Slot -> SlotPc]
    BY <1>14 DEF Fail, TypeOK, SlotPc
  <2> QED
    BY <1>14, <2>1, <2>2, <2>3 DEF Fail, TypeOK, planVars
<1>15. ASSUME NEW s \in Slot, Unlock(s) PROVE TypeOK'
  BY <1>15 DEF Unlock, Return, TypeOK, SlotPc, rowVars, planVars
<1>16. ASSUME NEW s \in Slot, ReturnOnError(s) PROVE TypeOK'
  BY <1>16 DEF ReturnOnError, Return, TypeOK, SlotPc, rowVars, planVars
<1>17. ASSUME NEW s \in Slot, SettleError(s) PROVE TypeOK'
  BY <1>17 DEF SettleError, TypeOK, SlotPc, rowVars, planVars
<1>18. ASSUME NEW t \in Task, RetryFallsDue(t) PROVE TypeOK'
  BY <1>18 DEF RetryFallsDue, TypeOK, RetryAt, workVars, planVars
<1>19. ASSUME NEW t \in Task, ClaimGrowsStale(t) PROVE TypeOK'
  BY <1>19 DEF ClaimGrowsStale, TypeOK, workVars, planVars
<1>20. CASE UNCHANGED vars
  BY <1>20 DEF TypeOK, vars, rowVars, workVars, planVars
<1> QED
  BY <1>1, <1>2, <1>3, <1>4, <1>5, <1>6, <1>7, <1>8, <1>9, <1>10, <1>11,
     <1>12, <1>13, <1>14, <1>15, <1>16, <1>17, <1>18, <1>19, <1>20
     DEF Next, PlannerStep, SlotStep

\* The type invariant holds in every reachable state, for every instance.
THEOREM TypeCorrect == Spec => []TypeOK
<1>1. Init => TypeOK
  BY DEF Init, TypeOK, Status, RetryAt, SlotPc, TickPc
<1> QED
  BY <1>1, TypeStep, PTL DEF Spec

-----------------------------------------------------------------------------
\* Steps that leave every row's running status, the goroutines and the locks
\* alone keep the whole invariant.
LEMMA QuietStep ==
    ASSUME IInv, TypeOK', UNCHANGED <<pc, cur, lock>>,
           \A t \in Task \ Ticker :
               status[t] = "running" => status'[t] = "running"
    PROVE  IInv'
<1>1. BusyHasTask' /\ LockedHasLock' /\ NoLockLeak'
  BY DEF IInv, BusyHasTask, LockedHasLock, NoLockLeak, Locked
<1>2. ExclusiveClaim'
  BY DEF IInv, BusyHasTask, ExclusiveClaim, Holds
<1> QED
  BY <1>1, <1>2 DEF IInv

\* One goroutine moves outside the locked section and ends up without a claim:
\* what the invariant says of the others is untouched.
LEMMA UnclaimedStep ==
    ASSUME IInv, TypeOK', NEW s \in Slot,
           ~Holds(s)', ~Locked(s), ~Locked(s)',
           pc'[s] # "idle" => cur'[s] \in Task,
           \A r \in Slot \ {s} : pc'[r] = pc[r] /\ cur'[r] = cur[r],
           UNCHANGED <<status, lock>>
    PROVE  IInv'
<1>1. BusyHasTask'
  BY DEF IInv, BusyHasTask
<1>2. ExclusiveClaim'
  BY DEF IInv, ExclusiveClaim, Holds
<1>3. LockedHasLock'
  BY DEF IInv, LockedHasLock, Locked
<1>4. NoLockLeak'
  BY DEF IInv, NoLockLeak, Locked, TypeOK
<1> QED
  BY <1>1, <1>2, <1>3, <1>4 DEF IInv

\* One goroutine that holds a claim moves within the locked section: only its
\* own row may stop running, and only as it gives up the claim.
LEMMA LockedStep ==
    ASSUME IInv, TypeOK', NEW s \in Slot,
           Holds(s), Locked(s), Locked(s)',
           cur' = cur, lock' = lock,
           \A r \in Slot \ {s} : pc'[r] = pc[r],
           \A t \in Task \ Ticker :
               (status[t] = "running" /\ (Holds(s)' \/ t # cur[s]))
                   => status'[t] = "running"
    PROVE  IInv'
<1>1. BusyHasTask'
  BY DEF IInv, BusyHasTask, Locked
<1>2. ExclusiveClaim'
  <2> SUFFICES ASSUME NEW q \in Slot, Holds(q)', cur[q] \notin Ticker
               PROVE  /\ status'[cur[q]] = "running"
                      /\ \A r \in Slot : (Holds(r)' /\ cur[r] = cur[q]) => r = q
    BY DEF ExclusiveClaim
  <2>1. \A r \in Slot : Holds(r)' => Holds(r)
    BY DEF Holds
  <2>2. /\ status[cur[q]] = "running"
        /\ cur[q] \in Task
        /\ \A r \in Slot : (Holds(r) /\ cur[r] = cur[q]) => r = q
    BY <2>1 DEF IInv, ExclusiveClaim, BusyHasTask, Holds
  <2>3. Holds(s)' \/ cur[q] # cur[s]
    BY <2>2 DEF Holds
  <2> QED
    BY <2>1, <2>2, <2>3
<1>3. LockedHasLock'
  BY DEF IInv, LockedHasLock, Locked
<1>4. NoLockLeak'
  BY DEF IInv, NoLockLeak, Locked, TypeOK
<1> QED
  BY <1>1, <1>2, <1>3, <1>4 DEF IInv

\* Every step keeps the invariant.
LEMMA IInvStep == IInv /\ [Next]_vars => IInv'
<1> SUFFICES ASSUME IInv, [Next]_vars PROVE IInv'
  OBVIOUS
<1> USE TaskAssumption, SlotAssumption
<1>0. TypeOK /\ TypeOK'
  BY TypeStep DEF IInv
<1>1. ASSUME NEW i \in Planner, TickStart(i) PROVE IInv'
  BY <1>0, <1>1, QuietStep DEF TickStart, rowVars, workVars
<1>2. ASSUME NEW i \in Planner, EnqueueRealtime(i) PROVE IInv'
  <2>1. EnqueueBatch(Ticker) /\ Ticker \in SUBSET Task
    BY <1>2 DEF EnqueueRealtime
  <2> QED
    BY <1>0, <1>2, <2>1, QuietStep, EnqueueBatchKeepsRunning
       DEF EnqueueRealtime, workVars
<1>3. ASSUME NEW i \in Planner, EnqueueFollowUp(i) PROVE IInv'
  <2>1. PICK S \in SUBSET (Task \ Ticker) : EnqueueBatch(S)
    BY <1>3 DEF EnqueueFollowUp
  <2>2. S \in SUBSET Task
    OBVIOUS
  <2> QED
    BY <1>0, <1>3, <2>1, <2>2, QuietStep, EnqueueBatchKeepsRunning
       DEF EnqueueFollowUp, workVars
<1>4. ASSUME NEW i \in Instance, FetchPending(i) PROVE IInv'
  BY <1>0, <1>4, QuietStep DEF FetchPending, rowVars
<1>5. ASSUME NEW i \in Instance, Crash(i) PROVE IInv'
  <2>1. \A s \in Slot : pc'[s] = "idle" \/ (pc'[s] = pc[s] /\ cur'[s] = cur[s]
                                            /\ Host[s] # i)
    BY <1>0, <1>5 DEF Crash, TypeOK
  <2>2. BusyHasTask'
    BY <2>1 DEF IInv, BusyHasTask
  <2>3. ExclusiveClaim'
    BY <1>5, <2>1 DEF IInv, ExclusiveClaim, Holds, Crash, rowVars
  <2>4. LockedHasLock'
    <3> SUFFICES ASSUME NEW s \in Slot, Locked(s)'
                 PROVE  lock'[PairOf[cur'[s]]] = s
      BY DEF LockedHasLock
    <3>1. /\ Locked(s) /\ cur'[s] = cur[s] /\ Host[s] # i
          /\ cur[s] \in Task /\ lock[PairOf[cur[s]]] = s
      BY <2>1 DEF Locked, IInv, LockedHasLock, BusyHasTask
    <3> QED
      BY <1>5, <3>1 DEF Crash
  <2>5. NoLockLeak'
    <3> SUFFICES ASSUME NEW p \in Pair, lock'[p] # NoSlot
                 PROVE  Locked(lock[p])' /\ PairOf[cur'[lock'[p]]] = p
                        /\ lock'[p] = lock[p]
      BY DEF NoLockLeak, Locked
    <3>1. lock'[p] = lock[p] /\ lock[p] \in Slot /\ Host[lock[p]] # i
      BY <1>0, <1>5 DEF Crash, TypeOK
    <3>2. Locked(lock[p]) /\ PairOf[cur[lock[p]]] = p
      BY <3>1 DEF IInv, NoLockLeak
    <3>3. pc'[lock[p]] = pc[lock[p]] /\ cur'[lock[p]] = cur[lock[p]]
      BY <1>5, <3>1 DEF Crash
    <3> QED
      BY <3>1, <3>2, <3>3 DEF Locked
  <2> QED
    BY <1>0, <2>2, <2>3, <2>4, <2>5 DEF IInv
<1>6. ASSUME NEW s \in Slot, StartItem(s) PROVE IInv'
  <2>1. PICK t \in Task : cur' = [cur EXCEPT ![s] = t]
    BY <1>0, <1>6 DEF StartItem, TypeOK
  <2> QED
    BY <1>0, <1>6, <2>1, UnclaimedStep
       DEF StartItem, TypeOK, Holds, Locked, rowVars
<1>7. ASSUME NEW s \in Slot, FetchMessage(s) PROVE IInv'
  <2>1. PICK t \in Task : cur' = [cur EXCEPT ![s] = t]
    BY <1>7 DEF FetchMessage
  <2> QED
    BY <1>0, <1>7, <2>1, UnclaimedStep
       DEF FetchMessage, TypeOK, Holds, Locked, rowVars
<1>8. ASSUME NEW s \in Slot, CommitMessage(s) PROVE IInv'
  BY <1>0, <1>8, UnclaimedStep
     DEF CommitMessage, TypeOK, Holds, Locked, rowVars
<1>9. ASSUME NEW s \in Slot, Claim(s) PROVE IInv'
  <2>0. cur[s] \in Task /\ pc[s] = "claim"
    BY <1>9 DEF Claim, IInv, BusyHasTask
  <2>1. CASE ~Claimable(cur[s])
    BY <1>0, <1>9, <2>0, <2>1, UnclaimedStep
       DEF Claim, Return, TypeOK, Holds, Locked
  <2>2. CASE Claimable(cur[s])
    <3>1. /\ status' = [status EXCEPT ![cur[s]] = "running"]
          /\ pc' = [pc EXCEPT ![s] = "lock"] /\ cur' = cur /\ lock' = lock
      BY <1>9, <2>2 DEF Claim
    <3>2. ExclusiveClaim'
      <4>1. \A r \in Slot : (Holds(r) /\ cur[r] \notin Ticker) => cur[r] # cur[s]
        BY <2>2 DEF IInv, ExclusiveClaim, Claimable
      <4>2. \A r \in Slot : Holds(r)' <=> (Holds(r) \/ r = s)
        BY <1>0, <3>1 DEF Holds, TypeOK
      <4>3. \A t \in Task : status'[t] = IF t = cur[s] THEN "running" ELSE status[t]
        BY <1>0, <3>1 DEF TypeOK
      <4>4. \A r \in Slot : Holds(r) => cur[r] \in Task
        BY DEF IInv, BusyHasTask, Holds
      <4> QED
        BY <2>0, <3>1, <4>1, <4>2, <4>3, <4>4 DEF IInv, ExclusiveClaim
    <3>3. BusyHasTask' /\ LockedHasLock' /\ NoLockLeak'
      <4>1. \A r \in Slot : Locked(r)' <=> Locked(r)
        BY <1>0, <2>0, <3>1 DEF Locked, TypeOK
      <4>2. \A r \in Slot : pc'[r] # "idle" => cur[r] \in Task
        BY <1>0, <2>0, <3>1 DEF TypeOK, IInv, BusyHasTask
      <4> QED
        BY <1>0, <3>1, <4>1, <4>2
           DEF IInv, BusyHasTask, LockedHasLock, NoLockLeak, TypeOK
    <3> QED
      BY <1>0, <3>2, <3>3 DEF IInv
  <2> QED
    BY <2>1, <2>2
<1>10. ASSUME NEW s \in Slot, Lock(s) PROVE IInv'
  <2>1. /\ cur[s] \in Task /\ pc[s] = "lock" /\ lock[PairOf[cur[s]]] = NoSlot
        /\ lock' = [lock EXCEPT ![PairOf[cur[s]]] = s]
        /\ pc' = [pc EXCEPT ![s] = "exec"] /\ cur' = cur /\ status' = status
    BY <1>10 DEF Lock, IInv, BusyHasTask, rowVars
  <2>2. \A r \in Slot : (Holds(r)' <=> Holds(r))
                         /\ (Locked(r)' <=> (Locked(r) \/ r = s))
    BY <1>0, <2>1 DEF Holds, Locked, TypeOK
  <2>3. BusyHasTask'
    BY <1>0, <2>1 DEF IInv, BusyHasTask, TypeOK
  <2>4. ExclusiveClaim'
    BY <2>1, <2>2 DEF IInv, ExclusiveClaim
  <2>5. \A p \in Pair : lock'[p] = IF p = PairOf[cur[s]] THEN s ELSE lock[p]
    BY <1>0, <2>1 DEF TypeOK
  <2>6. LockedHasLock'
    <3> SUFFICES ASSUME NEW r \in Slot, Locked(r)'
                 PROVE  lock'[PairOf[cur[r]]] = r
      BY <2>1 DEF LockedHasLock
    <3>1. CASE r = s
      BY <2>1, <2>5, <3>1
    <3>2. CASE r # s
      <4>1. cur[r] \in Task /\ lock[PairOf[cur[r]]] = r
        BY <2>2, <3>2 DEF IInv, LockedHasLock, BusyHasTask, Locked
      <4> QED
        BY <2>1, <2>5, <4>1
    <3> QED
      BY <3>1, <3>2
  <2>7. NoLockLeak'
    BY <1>0, <2>1, <2>2, <2>5 DEF IInv, NoLockLeak, TypeOK
  <2> QED
    BY <1>0, <2>3, <2>4, <2>6, <2>7 DEF IInv
<1>11. ASSUME NEW s \in Slot, ExecuteOk(s) PROVE IInv'
  <2>1. \A t \in Task : status[t] = "running" => status'[t] = "running"
    BY <1>11 DEF ExecuteOk, Prunable
  <2> QED
    BY <1>0, <1>11, <2>1, LockedStep DEF ExecuteOk, Prunable, TypeOK, Holds, Locked
<1>12. ASSUME NEW s \in Slot, ExecuteError(s) PROVE IInv'
  BY <1>0, <1>12, LockedStep DEF ExecuteError, TypeOK, Holds, Locked, rowVars
<1>13. ASSUME NEW s \in Slot, Complete(s) PROVE IInv'
  BY <1>0, <1>13, LockedStep DEF Complete, TypeOK, Holds, Locked
<1>14. ASSUME NEW s \in Slot, Fail(s) PROVE IInv'
  <2>1. \A t \in Task : t # cur[s] => status'[t] = status[t]
    BY <1>0, <1>14 DEF Fail, TypeOK
  <2> QED
    BY <1>0, <1>14, <2>1, LockedStep DEF Fail, TypeOK, Holds, Locked
<1>15. ASSUME NEW s \in Slot, Unlock(s) PROVE IInv'
  <2>1. /\ cur[s] \in Task /\ pc[s] = "unlock"
        /\ lock' = [lock EXCEPT ![PairOf[cur[s]]] = NoSlot]
        /\ pc'[s] \in {"idle", "commit"}
        /\ pc'[s] # "idle" => cur'[s] = cur[s]
        /\ \A r \in Slot \ {s} : pc'[r] = pc[r] /\ cur'[r] = cur[r]
        /\ status' = status
    BY <1>0, <1>15 DEF Unlock, Return, IInv, BusyHasTask, TypeOK, rowVars
  <2>2. \A r \in Slot : (Holds(r)' <=> Holds(r))
                         /\ (Locked(r)' <=> (Locked(r) /\ r # s))
    BY <2>1 DEF Holds, Locked
  <2>3. BusyHasTask'
    BY <2>1 DEF IInv, BusyHasTask
  <2>4. ExclusiveClaim'
    BY <2>1, <2>2 DEF IInv, ExclusiveClaim, Holds
  <2>5. \A p \in Pair : lock'[p] = IF p = PairOf[cur[s]] THEN NoSlot ELSE lock[p]
    BY <1>0, <2>1 DEF TypeOK
  <2>6. lock[PairOf[cur[s]]] = s
    BY <2>1 DEF IInv, LockedHasLock, Locked
  <2>7. LockedHasLock'
    <3> SUFFICES ASSUME NEW r \in Slot, r # s, Locked(r)
                 PROVE  lock'[PairOf[cur[r]]] = r
      BY <2>1, <2>2 DEF LockedHasLock
    <3>1. cur[r] \in Task /\ lock[PairOf[cur[r]]] = r
      BY DEF IInv, LockedHasLock, BusyHasTask, Locked
    <3> QED
      BY <2>5, <2>6, <3>1
  <2>8. NoLockLeak'
    <3> SUFFICES ASSUME NEW p \in Pair, lock'[p] # NoSlot
                 PROVE  Locked(lock[p])' /\ PairOf[cur'[lock'[p]]] = p
      BY DEF NoLockLeak, Locked
    <3>1. lock'[p] = lock[p] /\ p # PairOf[cur[s]] /\ lock[p] \in Slot
      BY <1>0, <2>5 DEF TypeOK
    <3>2. Locked(lock[p]) /\ PairOf[cur[lock[p]]] = p /\ lock[p] # s
      BY <3>1 DEF IInv, NoLockLeak
    <3> QED
      BY <2>1, <3>1, <3>2 DEF Locked
  <2> QED
    BY <1>0, <2>3, <2>4, <2>7, <2>8 DEF IInv
<1>16. ASSUME NEW s \in Slot, ReturnOnError(s) PROVE IInv'
  <2>1. cur[s] \in Task /\ pc[s] \in {"claim", "lock"}
    BY <1>16 DEF ReturnOnError, IInv, BusyHasTask
  <2> QED
    BY <1>0, <1>16, <2>1, UnclaimedStep
       DEF ReturnOnError, Return, TypeOK, Holds, Locked, rowVars
<1>17. ASSUME NEW s \in Slot, SettleError(s) PROVE IInv'
  BY <1>0, <1>17, LockedStep DEF SettleError, TypeOK, Holds, Locked, rowVars
<1>18. ASSUME NEW t \in Task, RetryFallsDue(t) PROVE IInv'
  BY <1>0, <1>18, QuietStep DEF RetryFallsDue, workVars
<1>19. ASSUME NEW t \in Task, ClaimGrowsStale(t) PROVE IInv'
  BY <1>0, <1>19, QuietStep DEF ClaimGrowsStale, workVars
<1>20. CASE UNCHANGED vars
  BY <1>0, <1>20, QuietStep DEF vars, rowVars, workVars
<1> QED
  BY <1>1, <1>2, <1>3, <1>4, <1>5, <1>6, <1>7, <1>8, <1>9, <1>10, <1>11,
     <1>12, <1>13, <1>14, <1>15, <1>16, <1>17, <1>18, <1>19, <1>20
     DEF Next, PlannerStep, SlotStep

\* The inductive invariant holds in every reachable state.
LEMMA Invariance == Spec => []IInv
<1>1. Init => IInv
  <2>1. Init => TypeOK
    BY DEF Init, TypeOK, Status, RetryAt, SlotPc, TickPc
  <2> QED
    BY <2>1 DEF Init, IInv, BusyHasTask, ExclusiveClaim, LockedHasLock,
                NoLockLeak, Holds, Locked
<1> QED
  BY <1>1, IInvStep, PTL DEF Spec

\* Task claims are exclusive: no two goroutines process one task other than a
\* live_ticker, and its row says running while one does (Claim, Enqueue).
THEOREM ClaimsAreExclusive == Spec => []ExclusiveClaim
<1>1. IInv => ExclusiveClaim
  BY DEF IInv
<1> QED
  BY <1>1, Invariance, PTL

\* Advisory locks serialise the executors of a pair (AdvisoryPairLocker.Lock).
THEOREM PairsAreExclusive == Spec => []PairMutualExclusion
<1>1. IInv => PairMutualExclusion
  <2> SUFFICES ASSUME IInv, NEW r \in Slot, NEW s \in Slot,
                      pc[r] = "exec", pc[s] = "exec",
                      PairOf[cur[r]] = PairOf[cur[s]]
               PROVE  r = s
    BY DEF PairMutualExclusion
  <2> QED
    BY DEF IInv, LockedHasLock, Locked
<1> QED
  BY <1>1, Invariance, PTL

\* No advisory lock outlives the Process that took it: the deferred unlock runs
\* on every path, and a process that dies closes its connections.
THEOREM LocksNeverLeak == Spec => []NoLockLeak
<1>1. IInv => NoLockLeak
  BY DEF IInv
<1> QED
  BY <1>1, Invariance, PTL

\* A claimed row of a task other than a live_ticker is released only by the
\* goroutine that claimed it, through Complete or Fail.
THEOREM RowsReleasedByHolder == Spec => ReleasedByHolder
<1> DEFINE Released(t) ==
       (status[t] = "running" /\ status'[t] # "running") =>
           \E s \in Slot : /\ cur[s] = t
                           /\ pc[s] \in {"complete", "fail"}
                           /\ pc'[s] = "unlock"
<1>1. ASSUME TypeOK, [Next]_vars, NEW t \in Task \ Ticker PROVE Released(t)
  <2> USE TaskAssumption, SlotAssumption
  <2>1. ASSUME NEW i \in Planner, EnqueueRealtime(i) PROVE Released(t)
    BY <2>1, <1>1, EnqueueBatchKeepsRunning DEF EnqueueRealtime
  <2>2. ASSUME NEW i \in Planner, EnqueueFollowUp(i) PROVE Released(t)
    <3>1. PICK S \in SUBSET (Task \ Ticker) : EnqueueBatch(S)
      BY <2>2 DEF EnqueueFollowUp
    <3> QED
      BY <1>1, <3>1, EnqueueBatchKeepsRunning
  <2>3. ASSUME NEW s \in Slot, ExecuteOk(s) PROVE Released(t)
    BY <1>1, <2>3 DEF ExecuteOk, Prunable
  <2>4. ASSUME NEW s \in Slot, Claim(s) PROVE Released(t)
    BY <1>1, <2>4 DEF Claim, TypeOK
  <2>5. ASSUME NEW s \in Slot, Complete(s) PROVE Released(t)
    BY <1>1, <2>5 DEF Complete, TypeOK
  <2>6. ASSUME NEW s \in Slot, Fail(s) PROVE Released(t)
    BY <1>1, <2>6 DEF Fail, TypeOK
  <2>7. CASE status' = status
    BY <2>7
  <2> QED
    BY <1>1, <2>1, <2>2, <2>3, <2>4, <2>5, <2>6, <2>7
       DEF Next, PlannerStep, SlotStep, TickStart, FetchPending, Crash,
           StartItem, FetchMessage, CommitMessage, Lock, ExecuteError, Unlock,
           ReturnOnError, SettleError, RetryFallsDue, ClaimGrowsStale,
           vars, rowVars
<1>2. TypeOK /\ [Next]_vars => [\A t \in Task \ Ticker : Released(t)]_vars
  BY <1>1
<1> QED
  BY <1>2, TypeCorrect, PTL DEF Spec, ReleasedByHolder

\* Rows appear by Enqueue alone: Complete and Fail are updates, which leave a
\* pruned row absent.
THEOREM RowsStayDeleted == Spec => NoResurrection
<1> DEFINE Created(t) ==
       (status[t] = "absent" /\ status'[t] # "absent") =>
           (status'[t] = "pending" /\ retries'[t] = 0)
<1>1. ASSUME TypeOK, [Next]_vars, NEW t \in Task PROVE Created(t)
  <2> USE TaskAssumption, SlotAssumption
  <2>1. ASSUME NEW S \in SUBSET Task, EnqueueBatch(S) PROVE Created(t)
    BY <2>1 DEF EnqueueBatch
  <2>2. ASSUME NEW i \in Planner, EnqueueRealtime(i) PROVE Created(t)
    BY <2>1, <2>2 DEF EnqueueRealtime
  <2>3. ASSUME NEW i \in Planner, EnqueueFollowUp(i) PROVE Created(t)
    <3>1. PICK S \in SUBSET (Task \ Ticker) : EnqueueBatch(S)
      BY <2>3 DEF EnqueueFollowUp
    <3>2. S \in SUBSET Task
      OBVIOUS
    <3> QED
      BY <2>1, <3>1, <3>2
  <2>4. ASSUME NEW s \in Slot, ExecuteOk(s) PROVE Created(t)
    BY <2>4 DEF ExecuteOk, Prunable
  <2>5. ASSUME NEW s \in Slot, Claim(s) PROVE Created(t)
    BY <1>1, <2>5 DEF Claim, Claimable, TypeOK
  <2>6. ASSUME NEW s \in Slot, Complete(s) PROVE Created(t)
    BY <1>1, <2>6 DEF Complete, TypeOK
  <2>7. ASSUME NEW s \in Slot, Fail(s) PROVE Created(t)
    BY <1>1, <2>7 DEF Fail, TypeOK
  <2>8. CASE status' = status
    BY <2>8
  <2> QED
    BY <1>1, <2>2, <2>3, <2>4, <2>5, <2>6, <2>7, <2>8
       DEF Next, PlannerStep, SlotStep, TickStart, FetchPending, Crash,
           StartItem, FetchMessage, CommitMessage, Lock, ExecuteError, Unlock,
           ReturnOnError, SettleError, RetryFallsDue, ClaimGrowsStale,
           vars, rowVars
<1>2. TypeOK /\ [Next]_vars => [\A t \in Task : Created(t)]_vars
  BY <1>1
<1> QED
  BY <1>2, TypeCorrect, PTL DEF Spec, NoResurrection

-----------------------------------------------------------------------------
(* The engine implements the queue *)

\* What the queue sees of the rows and of the goroutines.
Rows    == [t \in Task |-> QueueStateOf(t)]
Holding == [t \in Task |-> HoldersOf(t)]

LEMMA QueueStateOfStatus ==
    ASSUME NEW t \in Task, TypeOK
    PROVE  /\ Rows[t] = "absent" <=> status[t] = "absent"
           /\ Rows[t] = "waiting" <=> status[t] = "pending"
           /\ Rows[t] = "taken" <=> status[t] = "running"
           /\ Rows[t] = "settled" <=> status[t] \in {"completed", "failed"}
BY DEF Rows, QueueStateOf, TypeOK, Status

\* A step that leaves the status of the rows leaves the queue's view of them.
LEMMA RowsKept == status' = status => Rows' = Rows
BY DEF Rows, QueueStateOf

\* A step in which nobody claims or lets go leaves the holders.
LEMMA HoldingKept ==
    ASSUME \A s \in Slot : /\ Holds(s)' <=> Holds(s)
                           /\ Holds(s) => cur'[s] = cur[s]
    PROVE  Holding' = Holding
<1>1. \A t \in Task : HoldersOf(t)' = HoldersOf(t)
  BY DEF HoldersOf
<1> QED
  BY <1>1 DEF Holding

\* The same for a step of one goroutine that touches nobody else's.
LEMMA HoldingKeptBySlot ==
    ASSUME TypeOK, NEW s \in Slot,
           \A r \in Slot : r # s => pc'[r] = pc[r] /\ cur'[r] = cur[r],
           Holds(s)' <=> Holds(s), Holds(s) => cur'[s] = cur[s]
    PROVE  Holding' = Holding
BY HoldingKept DEF Holds

\* A goroutine that lets go of its task vanishes from the holders.
LEMMA HoldingWithout ==
    ASSUME NEW W \in SUBSET Slot,
           \A r \in Slot \ W : /\ Holds(r)' <=> Holds(r)
                               /\ Holds(r) => cur'[r] = cur[r],
           \A r \in W : ~Holds(r)'
    PROVE  Holding' = [t \in Task |-> Holding[t] \ W]
<1>1. \A t \in Task : HoldersOf(t)' = HoldersOf(t) \ W
  BY DEF HoldersOf
<1> QED
  BY <1>1 DEF Holding

LEMMA VanishIsStep ==
    ASSUME NEW W \in SUBSET Slot,
           Holding' = [t \in Task |-> Holding[t] \ W],
           Rows' = Rows
    PROVE  Queue!Next
BY DEF Queue!Next, Queue!Vanish, Rows, Holding

\* A batch of the planner is a submission of the rows it writes.
LEMMA EnqueueBatchSubmits ==
    ASSUME TypeOK, NEW S \in SUBSET Task, EnqueueBatch(S), Holding' = Holding
    PROVE  Queue!Next
<1> DEFINE enq == {t \in S : Requeueable(t)}
<1>1. status' = [t \in Task |-> IF t \in enq THEN "pending" ELSE status[t]]
  BY DEF EnqueueBatch
<1>2. \A t \in enq : Rows[t] # "taken" \/ t \in Ticker
  BY QueueStateOfStatus DEF Requeueable
<1>3. Rows' = [t \in Task |-> IF t \in enq THEN "waiting" ELSE Rows[t]]
  BY <1>1 DEF Rows, QueueStateOf
<1>4. Queue!Submit(enq)
  BY <1>2, <1>3 DEF Queue!Submit, Rows, Holding
<1> QED
  BY <1>4 DEF Queue!Next

\* A claim that succeeds hands out the task: nobody holds it, or it is a ticker.
LEMMA ClaimTakes ==
    ASSUME IInv, NEW s \in Slot, Claim(s), Claimable(cur[s])
    PROVE  Queue!Next
<1> DEFINE t == cur[s]
<1>1. t \in Task /\ pc[s] = "claim"
  BY DEF IInv, BusyHasTask, Claim
<1>2. status' = [status EXCEPT ![t] = "running"] /\ cur' = cur
      /\ pc' = [pc EXCEPT ![s] = "lock"]
  BY DEF Claim
<1>3. Rows[t] \in {"waiting", "settled"}
  BY <1>1, QueueStateOfStatus DEF IInv, Claimable
<1>4. HoldersOf(t) = {} \/ t \in Ticker
  BY <1>1 DEF HoldersOf, IInv, ExclusiveClaim, Claimable
<1>5. \A u \in Task : s \notin HoldersOf(u)
  BY <1>1 DEF HoldersOf, Holds
<1>6. Rows' = [Rows EXCEPT ![t] = "taken"]
  BY <1>1, <1>2 DEF Rows, QueueStateOf, IInv, TypeOK
<1>7. \A u \in Task : HoldersOf(u)' = IF u = t THEN HoldersOf(u) \cup {s} ELSE HoldersOf(u)
  <2>1. Holds(s)' /\ ~Holds(s)
    BY <1>1, <1>2 DEF Holds, IInv, TypeOK
  <2>2. \A r \in Slot : r # s => (Holds(r)' <=> Holds(r))
    BY <1>2 DEF Holds, IInv, TypeOK
  <2> QED
    BY <1>2, <2>1, <2>2 DEF HoldersOf
<1>8. Holding' = [Holding EXCEPT ![t] = @ \cup {s}]
  BY <1>1, <1>7 DEF Holding
<1>9. Queue!Take(s, t)
  BY <1>1, <1>3, <1>4, <1>5, <1>6, <1>8 DEF Queue!Take, Rows, Holding
<1> QED
  BY <1>1, <1>9 DEF Queue!Next

\* Complete and Fail are the settlement by the holder.
LEMMA SettlementSettles ==
    ASSUME IInv, NEW s \in Slot, pc[s] \in {"complete", "fail"},
           pc' = [pc EXCEPT ![s] = "unlock"], cur' = cur,
           NEW x \in {"pending", "completed", "failed"},
           status' = [status EXCEPT ![cur[s]] = IF @ = "absent" THEN @ ELSE x]
    PROVE  Queue!Next
<1> DEFINE t == cur[s]
           q == IF x = "pending" THEN "waiting" ELSE "settled"
<1>1. t \in Task /\ Holds(s)
  BY DEF IInv, BusyHasTask, Holds
<1>2. s \in HoldersOf(t)
  BY <1>1 DEF HoldersOf
<1>3. Rows[t] = "taken" \/ t \in Ticker
  BY <1>1, QueueStateOfStatus DEF IInv, ExclusiveClaim
<1>4. Rows' = [Rows EXCEPT ![t] = IF @ = "absent" THEN @ ELSE q]
  BY <1>1 DEF Rows, QueueStateOf, IInv, TypeOK, Status
<1>5. \A u \in Task : HoldersOf(u)' = IF u = t THEN HoldersOf(u) \ {s} ELSE HoldersOf(u)
  <2>1. ~Holds(s)'
    BY <1>1 DEF Holds, IInv, TypeOK
  <2>2. \A r \in Slot : r # s => (Holds(r)' <=> Holds(r))
    BY DEF Holds, IInv, TypeOK
  <2> QED
    BY <2>1, <2>2 DEF HoldersOf
<1>6. Holding' = [Holding EXCEPT ![t] = @ \ {s}]
  BY <1>1, <1>5 DEF Holding
<1>7. Queue!Settle(s, t)
  BY <1>1, <1>2, <1>3, <1>4, <1>6 DEF Queue!Settle, Rows, Holding
<1> QED
  BY <1>1, <1>7 DEF Queue!Next

\* Every step of the engine is a step of the queue or none.
LEMMA QueueStep == IInv /\ [Next]_vars => [Queue!Next]_(Queue!qvars)
<1> SUFFICES ASSUME IInv, [Next]_vars PROVE [Queue!Next]_(Queue!qvars)
  OBVIOUS
<1> USE TaskAssumption, SlotAssumption
<1>0. TypeOK
  BY DEF IInv
<1>a. ASSUME Rows' = Rows, Holding' = Holding PROVE [Queue!Next]_(Queue!qvars)
  BY <1>a DEF Queue!qvars, Rows, Holding
<1>b. ASSUME pc' = pc, cur' = cur PROVE Holding' = Holding
  BY <1>b, HoldingKept DEF Holds
<1>1. ASSUME NEW i \in Planner, EnqueueRealtime(i) PROVE Queue!Next
  BY <1>0, <1>1, <1>b, EnqueueBatchSubmits DEF EnqueueRealtime, workVars
<1>2. ASSUME NEW i \in Planner, EnqueueFollowUp(i) PROVE Queue!Next
  <2>1. PICK S \in SUBSET (Task \ Ticker) : EnqueueBatch(S)
    BY <1>2 DEF EnqueueFollowUp
  <2>2. S \in SUBSET Task
    OBVIOUS
  <2>3. Holding' = Holding
    BY <1>2, <1>b DEF EnqueueFollowUp, workVars
  <2> QED
    BY <1>0, <2>1, <2>2, <2>3, EnqueueBatchSubmits
<1>3. ASSUME NEW s \in Slot, Claim(s) PROVE [Queue!Next]_(Queue!qvars)
  <2>1. CASE Claimable(cur[s])
    BY <1>3, <2>1, ClaimTakes
  <2>2. CASE ~Claimable(cur[s])
    <3>1. Return(s) /\ status' = status /\ pc[s] = "claim"
      BY <1>3, <2>2 DEF Claim
    <3>2. Holding' = Holding
      BY <1>0, <3>1, HoldingKeptBySlot DEF Return, Holds, TypeOK
    <3> QED
      BY <1>a, <3>1, <3>2, RowsKept
  <2> QED
    BY <2>1, <2>2
<1>4. ASSUME NEW s \in Slot, Complete(s) PROVE Queue!Next
  BY <1>4, SettlementSettles DEF Complete
<1>5. ASSUME NEW s \in Slot, Fail(s) PROVE Queue!Next
  <2> DEFINE x == IF retries[cur[s]] < MaxRetry[cur[s]] THEN "pending" ELSE "failed"
  <2>1. cur[s] \in Task
    BY <1>5 DEF Fail, IInv, BusyHasTask
  <2>2. status' = [status EXCEPT ![cur[s]] = IF @ = "absent" THEN @ ELSE x]
    BY <1>0, <1>5, <2>1 DEF Fail, TypeOK
  <2>3. x \in {"pending", "completed", "failed"}
    OBVIOUS
  <2>4. pc[s] \in {"complete", "fail"} /\ pc' = [pc EXCEPT ![s] = "unlock"] /\ cur' = cur
    BY <1>5 DEF Fail
  <2> HIDE DEF x
  <2> QED
    BY <2>2, <2>3, <2>4, SettlementSettles
<1>6. ASSUME NEW s \in Slot, ExecuteOk(s) PROVE Queue!Next
  <2>1. PICK D \in SUBSET {t \in Task : Prunable(t)} :
           status' = [t \in Task |-> IF t \in D THEN "absent" ELSE status[t]]
    BY <1>6 DEF ExecuteOk
  <2>2. \A t \in D : Rows[t] = "settled"
    BY <1>0, QueueStateOfStatus DEF Prunable
  <2>3. Rows' = [t \in Task |-> IF t \in D THEN "absent" ELSE Rows[t]]
    BY <2>1 DEF Rows, QueueStateOf
  <2>4. Holding' = Holding
    BY <1>0, <1>6, HoldingKeptBySlot DEF ExecuteOk, Holds, TypeOK
  <2>5. Queue!Forget(D)
    BY <2>2, <2>3, <2>4 DEF Queue!Forget, Rows, Holding
  <2> QED
    BY <2>5 DEF Queue!Next
<1>7. ASSUME NEW s \in Slot, ReturnOnError(s) \/ SettleError(s) PROVE Queue!Next
  <2>1. /\ \A r \in Slot \ {s} : /\ Holds(r)' <=> Holds(r)
                                 /\ Holds(r) => cur'[r] = cur[r]
        /\ ~Holds(s)'
    BY <1>0, <1>7 DEF ReturnOnError, SettleError, Return, Holds, TypeOK
  <2>2. Holding' = [t \in Task |-> Holding[t] \ {s}]
    <3>1. {s} \in SUBSET Slot /\ \A r \in {s} : ~Holds(r)'
      BY <2>1
    <3> QED
      BY <2>1, <3>1, HoldingWithout
  <2>3. Rows' = Rows
    BY <1>7, RowsKept DEF ReturnOnError, SettleError, rowVars
  <2>4. {s} \in SUBSET Slot
    OBVIOUS
  <2> QED
    BY <2>2, <2>3, <2>4, VanishIsStep, Zenon
<1>8. ASSUME NEW i \in Instance, Crash(i) PROVE Queue!Next
  <2> DEFINE W == {s \in Slot : Host[s] = i}
  <2>1. /\ \A r \in Slot \ W : /\ Holds(r)' <=> Holds(r)
                               /\ Holds(r) => cur'[r] = cur[r]
        /\ \A r \in W : ~Holds(r)'
    BY <1>8 DEF Crash, Holds
  <2>2. Rows' = Rows
    BY <1>8, RowsKept DEF Crash, rowVars
  <2>3. W \in SUBSET Slot
    OBVIOUS
  <2> HIDE DEF W
  <2>4. Holding' = [t \in Task |-> Holding[t] \ W]
    BY <2>1, <2>3, HoldingWithout
  <2> QED
    BY <2>2, <2>3, <2>4, VanishIsStep, Zenon
<1>9. ASSUME NEW s \in Slot,
             \/ StartItem(s) \/ FetchMessage(s) \/ CommitMessage(s)
             \/ Lock(s) \/ ExecuteError(s) \/ Unlock(s)
      PROVE  [Queue!Next]_(Queue!qvars)
  <2>1. \A r \in Slot : r # s => pc'[r] = pc[r] /\ cur'[r] = cur[r]
    BY <1>0, <1>9
       DEF StartItem, FetchMessage, CommitMessage, Lock, ExecuteError, Unlock,
           Return, TypeOK
  <2>2. (Holds(s)' <=> Holds(s)) /\ (Holds(s) => cur'[s] = cur[s])
    BY <1>0, <1>9
       DEF StartItem, FetchMessage, CommitMessage, Lock, ExecuteError, Unlock,
           Return, Holds, TypeOK
  <2>3. status' = status
    BY <1>9
       DEF StartItem, FetchMessage, CommitMessage, Lock, ExecuteError, Unlock, rowVars
  <2> QED
    BY <1>0, <1>a, <2>1, <2>2, <2>3, RowsKept, HoldingKeptBySlot
<1>10. CASE status' = status /\ pc' = pc /\ cur' = cur
  BY <1>10, <1>a, <1>b, RowsKept
<1> QED
  BY <1>1, <1>2, <1>3, <1>4, <1>5, <1>6, <1>7, <1>8, <1>9, <1>10
     DEF Next, PlannerStep, SlotStep, TickStart, FetchPending,
         RetryFallsDue, ClaimGrowsStale, vars, rowVars, workVars

\* Table, topic and goroutines implement the abstract queue: at no moment can
\* its users tell them from a queue that hands a task to one worker at a time.
THEOREM EngineIsAQueue == Spec => ImplementsQueue
<1>1. Init => Queue!Init
  BY DEF Init, Queue!Init, QueueStateOf, HoldersOf, Holds
<1> QED
  BY <1>1, QueueStep, Invariance, PTL DEF Spec, ImplementsQueue, Queue!Spec

=============================================================================
