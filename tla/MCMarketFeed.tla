----------------------------- MODULE MCMarketFeed -----------------------------
EXTENDS MarketFeed

CONSTANTS p1, p2, k1, k2

\* Two sources of p1, one of which corrects a candle, and a source of p2.
MCQuote == {
    [pair |-> p1, source |-> k1, bucket |-> 1, price |-> 2],
    [pair |-> p1, source |-> k1, bucket |-> 1, price |-> 3],
    [pair |-> p1, source |-> k2, bucket |-> 2, price |-> 1],
    [pair |-> p2, source |-> k1, bucket |-> 1, price |-> 1] }

OnePairQuote == {q \in MCQuote : q.pair = p1}
=============================================================================
