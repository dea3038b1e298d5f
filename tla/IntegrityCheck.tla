---------------------------- MODULE IntegrityCheck ----------------------------
(***************************************************************************)
(* How the integrity sweep decides about a day: it asks the configured     *)
(* providers for the day's hourly candles, one after the other, and        *)
(* compares what they return.                                              *)
(***************************************************************************)
EXTENDS Naturals, FiniteSets, FiniteSetsExt

CONSTANTS
    Source,     \* the providers
    MinSources, \* how many have to answer for a comparison
    CheckHour,  \* the hours of a day
    Quote       \* closing prices

ASSUME IntegrityAssumption ==
    /\ MinSources \in Nat \ {0, 1}
    /\ Quote \subseteq Nat
    /\ IsFiniteSet(CheckHour)

VARIABLES
    results,    \* the candles of the sources that answered, by source
    asked       \* the sources asked so far

checkVars == <<results, asked>>

\* Candles by hour, or nothing.
CandleSet == UNION {[H -> Quote] : H \in SUBSET CheckHour}
NoCandles == <<>>

Answered == DOMAIN results

\* A source that does not support the pair or fails is left out.
FetchCandles(s) ==
    /\ s \notin asked
    /\ asked' = asked \cup {s}
    /\ \/ results' = results
       \/ \E c \in CandleSet :
             results' = [x \in Answered \cup {s} |-> IF x = s THEN c ELSE results[x]]

-----------------------------------------------------------------------------
(* verifyDay, once every source was asked *)

Count(s) == Cardinality(DOMAIN results[s])

\* The sources with fewer candles than another one.
GapCount ==
    LET expected == Max({0} \cup {Count(s) : s \in Answered})
    IN  Cardinality({s \in Answered : Count(s) < expected})

\* The closing prices of an hour, of the sources that have it.
ByTime(h) == {results[s][h] : s \in {x \in Answered : h \in DOMAIN results[x]}}

\* Mutant: the spread as a share of the highest price.
DivergesOfHighest(prices) ==
    /\ Cardinality(prices) > 1
    /\ Min(prices) # 0
    /\ (Max(prices) - Min(prices)) * 100 > 2 * Max(prices)

\* The spread is more than 2 % of the lowest price, unless that is 0.
Diverges(prices) ==
    /\ Cardinality(prices) > 1
    /\ Min(prices) # 0
    /\ (Max(prices) - Min(prices)) * 100 > 2 * Min(prices)

DivergenceCount == Cardinality({h \in CheckHour : Diverges(ByTime(h))})

\* The day passes; so it does if there are too few sources to compare.
DayPasses ==
    \/ Cardinality(Answered) < MinSources
    \/ GapCount = 0 /\ DivergenceCount = 0

-----------------------------------------------------------------------------
CheckInit == results = NoCandles /\ asked = {}

\* The next day is checked afresh.
NextCheck == asked = Source /\ results' = NoCandles /\ asked' = {}

CheckNext == NextCheck \/ \E s \in Source : FetchCandles(s)

CheckSpec == CheckInit /\ [][CheckNext]_checkVars

-----------------------------------------------------------------------------
(* Properties *)

\* r reports every hour s reports, and no more than 2 % above it.
Within(r, s) ==
    /\ Count(r) >= Count(s)
    /\ \A h \in DOMAIN results[r] \cap DOMAIN results[s] :
          0 \in ByTime(h) \/ results[r][h] * 100 <= 102 * results[s][h]

\* A day that was compared passes if and only if no two of its sources differ,
\* in the number of candles or by more than the allowed divergence, although the
\* code looks at the extremes only.
ChecksCompareAllPairs ==
    (asked = Source /\ Cardinality(Answered) >= MinSources) =>
        (DayPasses <=> \A r, s \in Answered : Within(r, s))
=============================================================================
