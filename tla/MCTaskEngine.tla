---------------------------- MODULE MCTaskEngine ----------------------------
(* Instances of TaskEngine for TLC. *)
EXTENDS TaskEngine

CONSTANTS bf, tk, cl, pb,   \* a backfill window, a ticker, the cleanup, a probe
          btc, all,         \* a trading pair and the "*" of the cleanup
          i1, i2,           \* backend instances
          p1, p2, c1        \* poll goroutines and a topic consumer

MCPairOf == [t \in Task |-> IF t = cl THEN all ELSE btc]

\* One retry stands for the 24 and 7 of the code; tickers are never retried.
MCMaxRetry == [t \in Task |-> IF t \in Ticker THEN 0 ELSE 1]

\* Goroutines spread over two instances, or all in one.
MCTwoHosts == [s \in Slot |-> IF s = p1 THEN i1 ELSE i2]

MCOneHost == [s \in Slot |-> i1]
=============================================================================
