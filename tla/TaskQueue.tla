------------------------------ MODULE TaskQueue ------------------------------
(***************************************************************************)
(* What the task engine promises its users, the planner that submits tasks *)
(* and the executors that carry them out: a queue that hands a task to one *)
(* worker at a time and keeps it until the worker settles it.  A worker    *)
(* may vanish; a task it held is then handed to nobody else, unless it is  *)
(* of the shared kind, which may be submitted again while it is held.      *)
(***************************************************************************)
EXTENDS FiniteSets

CONSTANTS
    Task,       \* the tasks that can be submitted
    Shared,     \* those that may be held by several workers
    Worker      \* who tasks are handed to

VARIABLES
    queue,      \* per task: absent, waiting, taken or settled
    holders     \* per task: the workers carrying it out

qvars == <<queue, holders>>

QueueState == {"absent", "waiting", "taken", "settled"}

Init ==
    /\ queue = [t \in Task |-> "absent"]
    /\ holders = [t \in Task |-> {}]

\* The tasks of S are submitted, at once.
Submit(S) ==
    /\ \A t \in S : queue[t] # "taken" \/ t \in Shared
    /\ queue' = [t \in Task |-> IF t \in S THEN "waiting" ELSE queue[t]]
    /\ UNCHANGED holders

\* A task is handed to w: nobody has it, or it is shared.
Take(w, t) ==
    /\ queue[t] \in {"waiting", "settled"}
    /\ holders[t] = {} \/ t \in Shared
    /\ \A u \in Task : w \notin holders[u]
    /\ queue' = [queue EXCEPT ![t] = "taken"]
    /\ holders' = [holders EXCEPT ![t] = @ \cup {w}]

\* w is done with t, for good or until it is retried.
Settle(w, t) ==
    /\ w \in holders[t]
    /\ queue[t] = "taken" \/ t \in Shared
    /\ \E q \in {"waiting", "settled"} :
          queue' = [queue EXCEPT ![t] = IF @ = "absent" THEN @ ELSE q]
    /\ holders' = [holders EXCEPT ![t] = @ \ {w}]

\* Workers vanish or give up.
Vanish(W) ==
    /\ holders' = [t \in Task |-> holders[t] \ W]
    /\ UNCHANGED queue

\* Settled tasks are forgotten.
Forget(D) ==
    /\ \A t \in D : queue[t] = "settled"
    /\ queue' = [t \in Task |-> IF t \in D THEN "absent" ELSE queue[t]]
    /\ UNCHANGED holders

Next ==
    \/ \E S \in SUBSET Task : Submit(S) \/ Forget(S)
    \/ \E w \in Worker, t \in Task : Take(w, t) \/ Settle(w, t)
    \/ \E W \in SUBSET Worker : Vanish(W)

Spec == Init /\ [][Next]_qvars
=============================================================================
