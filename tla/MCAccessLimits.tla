---------------------------- MODULE MCAccessLimits ----------------------------
(* The login limiter and the API limiter share no state: one run explores each *)
(* of them on its own rather than their product.                               *)
EXTENDS LoginLimiter, ApiAccess, TLC

VARIABLE part

MCThreshold == <<2, 4>>
MCDuration == <<1, 2>>
NarrowLimit == [u \in User |-> 0]      \* one call: the count is of earlier rows
Symmetry ==
    Permutations(Email) \cup Permutations(TokenId)

Init == LoginInit /\ AccessInit /\ part \in {"login", "api"}

Next ==
    \/ part = "login" /\ LoginNext /\ UNCHANGED <<accessVars, part>>
    \/ part = "api" /\ AccessNext /\ UNCHANGED <<loginVars, part>>

Spec == Init /\ [][Next]_<<loginVars, accessVars, part>>
=============================================================================
