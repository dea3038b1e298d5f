------------------------------ MODULE MCPlanner ------------------------------
(* Planner leadership, and the sweeps the planner emits: they share no state, *)
(* so one run explores the lease, either sweep and the day check on its own.  *)
EXTENDS PlannerLease, CoverageSweep, IntegrityCheck

VARIABLE part

MCHostName == [p \in Planner |-> p]

allVars == <<vars, sweepVars, checkVars, part>>

MCInit ==
    /\ part \in {"lease", "gap", "integrity", "check"}
    /\ Init /\ SweepInit /\ CheckInit
    /\ part \in {"lease", "check"} => start = 1

SweepStep(p, A) ==
    /\ part = p
    /\ A
    /\ UNCHANGED <<vars, checkVars, part>>

MCNext ==
    \/ part = "lease" /\ Next /\ UNCHANGED <<sweepVars, checkVars, part>>
    \/ SweepStep("gap", Calendar \/ GapNext \/ Abort)
    \/ SweepStep("integrity", Calendar \/ IntegrityNext \/ Abort)
    \/ part = "check" /\ CheckNext /\ UNCHANGED <<vars, sweepVars, part>>

\* SweepFairness, of the behaviours that sweep.
MCFairness ==
    /\ WF_allVars(SweepStep("gap", BuildGapValidationTasks))
    /\ WF_allVars(SweepStep("gap", \E w \in Worker : StartSweep(w, "gap")))
    /\ \A d \in Day :
          SF_allVars(SweepStep("gap", \E w \in Worker : ValidateCorrectly(w, d)))

MCSpec == MCInit /\ [][MCNext]_allVars /\ MCFairness
=============================================================================
