------------------------------- MODULE Valuation -------------------------------
(***************************************************************************)
(* ValuationEngine: the current value of a portfolio with its allocation   *)
(* percentages, and its historical value.  Percentages are in hundredths,  *)
(* to which the code rounds them; its floating-point error is left out.    *)
(***************************************************************************)
EXTENDS Integers, Sequences, SequencesExt, FiniteSetsExt

CONSTANTS
    ValuedAsset,    \* assets of the holdings
    Amount,         \* quantities of a holding
    Price,          \* prices of a ticker or close
    LastTime,       \* candle timestamps are 1..LastTime
    MaxHeld         \* bound: holdings

ASSUME ValuationAssumption ==
    /\ Amount \subseteq Nat \ {0}
    /\ Price \subseteq Nat \ {0}
    /\ LastTime \in Nat /\ MaxHeld \in Nat

VARIABLES
    portfolio,  \* ListByUserID: a sequence of holdings
    closes      \* candles of the assets: time -> close, 0 where there is none

valuationVars == <<portfolio, closes>>

Time == 1..LastTime
HeldAmount == [asset : ValuedAsset, quantity : Amount]

\* The ticker's price is the last close; 0, no price, is an error to the engine.
GetTickerPrice(a) ==
    LET times == {t \in Time : closes[a][t] # 0}
    IN  IF times = {} THEN 0 ELSE closes[a][Max(times)]

-----------------------------------------------------------------------------
(* ComputeValuation *)

Priced(n) == GetTickerPrice(portfolio[n].asset) # 0

CurrentValue ==
    [n \in DOMAIN portfolio |-> portfolio[n].quantity * GetTickerPrice(portfolio[n].asset)]

TotalValue == SumFunction(CurrentValue)

\* roundTo2 of the percentages, half away from zero.
Rounded ==
    [n \in DOMAIN portfolio |-> (20000 * CurrentValue[n] + TotalValue) \div (2 * TotalValue)]

\* Mutant: the residual is left where it is.
AllocationUnadjusted == Rounded

\* The first of the largest; there is none where every share rounds to 0.
Largest ==
    {n \in DOMAIN portfolio :
        /\ Priced(n) /\ Rounded[n] > 0
        /\ \A m \in DOMAIN portfolio :
              Priced(m) => Rounded[m] < Rounded[n] \/ (Rounded[m] = Rounded[n] /\ n <= m)}

\* adjustAllocationRounding: the largest takes the residual.
Allocation ==
    LET residual == 10000 - SumFunctionOnSet(Rounded, {n \in DOMAIN portfolio : Priced(n)})
    IN  [n \in DOMAIN portfolio |-> Rounded[n] + (IF n \in Largest THEN residual ELSE 0)]

-----------------------------------------------------------------------------
(* ComputeHistorical *)

Timestamps == {t \in Time : \E n \in DOMAIN portfolio : closes[portfolio[n].asset][t] # 0}

\* sort.Slice of distinct numbers.
Sorted(S) ==
    CHOOSE s \in [1..Cardinality(S) -> S] : \A i, j \in DOMAIN s : i < j => s[i] < s[j]

\* Mutant: a gap counts as nothing.
CarryNothing(known, t) == [a \in ValuedAsset |-> closes[a][t]]

\* lastKnown after timestamp t.
Carry(known, t) ==
    [a \in ValuedAsset |-> IF closes[a][t] # 0 THEN closes[a][t] ELSE known[a]]

ValueAt(known) ==
    SumFunction([n \in DOMAIN portfolio |->
                    portfolio[n].quantity * known[portfolio[n].asset]])

\* One timestamp: prices are carried forward and the value is a point more.
Point(acc, t) ==
    [known  |-> Carry(acc.known, t),
     points |-> Append(acc.points, ValueAt(Carry(acc.known, t)))]

\* The points in order of time.
Historical ==
    FoldLeft(Point, [known |-> [a \in ValuedAsset |-> 0], points |-> <<>>],
             Sorted(Timestamps)).points

-----------------------------------------------------------------------------
ValuationInit ==
    /\ portfolio \in SeqOf(HeldAmount, MaxHeld)
    /\ closes = [a \in ValuedAsset |-> [t \in Time |-> 0]]

\* Candles arrive in any order, and the latest is overwritten as it moves.
RecordCandle(a, t, p) ==
    /\ closes[a][t] # p
    /\ closes' = [closes EXCEPT ![a][t] = p]
    /\ UNCHANGED portfolio

ValuationNext ==
    \E a \in ValuedAsset, t \in Time, p \in Price : RecordCandle(a, t, p)

ValuationSpec == ValuationInit /\ [][ValuationNext]_valuationVars

\* The allocations of a priced portfolio sum to exactly 100 %, none is negative
\* or given to a holding without a price, and rounding moves each of them by
\* less than a hundredth per holding.
AllocationsSum ==
    TotalValue > 0 =>
        /\ SumFunction(Allocation) = 10000
        /\ \A n \in DOMAIN portfolio :
              /\ Allocation[n] >= 0
              /\ ~Priced(n) => Allocation[n] = 0
              /\ LET off == Allocation[n] * TotalValue - 10000 * CurrentValue[n]
                     max == Len(portfolio) * TotalValue
                 IN  -max <= off /\ off <= max

\* The last close of an asset up to a time.
LastClose(a, t) ==
    LET seen == {s \in 1..t : closes[a][s] # 0}
    IN  IF seen = {} THEN 0 ELSE closes[a][Max(seen)]

\* The historical value at a timestamp is the value at the last close of every
\* asset up to then, whichever assets have a candle at the timestamp itself.
HistoryCarriesForward ==
    LET stamps == Sorted(Timestamps)
    IN  /\ Len(Historical) = Len(stamps)
        /\ \A n \in DOMAIN stamps :
              Historical[n] =
                  SumFunction([m \in DOMAIN portfolio |->
                      portfolio[m].quantity * LastClose(portfolio[m].asset, stamps[n])])
=============================================================================
