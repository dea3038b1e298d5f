----------------------------- MODULE MCPortfolio -----------------------------
(* The parts of the portfolio that share no state but rows written and read: *)
(* one run explores each of them on its own rather than their product.       *)
EXTENDS Holdings, PnL, Valuation, PortfolioStream, TLC

VARIABLE part

MCOrigin == [l \in Link |-> IF l \in Credential THEN "exchange" ELSE "chain"]

Symmetry == Permutations(Request)

allVars == <<holdingVars, trades, valuationVars, portfolioStreamVars, part>>

Init ==
    /\ part \in {"holdings", "pnl", "valuation", "stream"}
    /\ HoldingsInit /\ PnLInit
    /\ IF part = "valuation" THEN ValuationInit
       ELSE portfolio = <<>> /\ closes = [a \in ValuedAsset |-> [t \in Time |-> 0]]
    /\ PortfolioStreamInit
    /\ part # "stream" => holds = {}

Next ==
    \/ /\ part = "holdings" /\ HoldingsNext
       /\ UNCHANGED <<trades, valuationVars, portfolioStreamVars, part>>
    \/ /\ part = "pnl" /\ PnLNext
       /\ UNCHANGED <<holdingVars, valuationVars, portfolioStreamVars, part>>
    \/ /\ part = "valuation" /\ ValuationNext
       /\ UNCHANGED <<holdingVars, trades, portfolioStreamVars, part>>
    \/ /\ part = "stream" /\ PortfolioStreamNext
       /\ UNCHANGED <<holdingVars, trades, valuationVars, part>>

Spec == Init /\ [][Next]_allVars
=============================================================================
