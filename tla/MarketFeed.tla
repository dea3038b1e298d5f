------------------------------ MODULE MarketFeed ------------------------------
(***************************************************************************)
(* Live prices, from the market topic to the browser: the market event     *)
(* consumer (messaging/kafka), the ingest service that keeps raw candles   *)
(* and rebuilds the hourly candle, the ticker cache and the subscriptions  *)
(* of MarketService, and the ticker streams that serve them.               *)
(*                                                                         *)
(* One process, one topic partition and one hour.  The process may crash   *)
(* between any two steps: an error of the consumer ends it too.  What the  *)
(* ticker query returns is represented by the rows it is computed from.    *)
(***************************************************************************)
EXTENDS Integers, Sequences, SequencesExt, FiniteSetsExt

CONSTANTS
    Pair,
    Source,         \* market data providers
    Bucket,         \* candle timestamps within the hour
    Price,
    Quote,          \* candles the providers may give
    Stream,         \* GET /api/v1/tickers/stream connections
    Reader,         \* GET /api/v1/ticker requests
    CacheSize,
    MaxEvents,      \* bound: events published
    MaxBatch,       \* marketEventMaxBatch
    MaxFaults       \* bound: crashes and failed queries

ASSUME BucketAssumption == Bucket \subseteq Nat /\ IsFiniteSet(Bucket)
ASSUME PriceAssumption == Price \subseteq Nat \ {0} /\ IsFiniteSet(Price)
ASSUME FeedAssumption ==
    /\ IsFiniteSet(Source)
    /\ CacheSize \in Nat \ {0}
    /\ MaxBatch \in Nat \ {0}
    /\ MaxEvents \in Nat
    /\ MaxFaults \in Nat

VARIABLES
    topic,      \* the partition of the market topic
    committed,  \* the consumer group's offset
    consumer,   \* the consumer: its step, its batch, the groups to ingest
    raw,        \* raw_candles of the hour, per pair, bucket and source
    hourly,     \* candles_1h, per pair
    cache,      \* MarketService.tickerCache
    stream,     \* the streams: subscription, step, what was sent
    reader,     \* the requests
    faults

vars == <<topic, committed, consumer, raw, hourly, cache, stream, reader, faults>>

Event == [pair : Pair, source : Source, bucket : Bucket, price : Price]

ASSUME QuoteAssumption == Quote \subseteq Event

NoPrice == 0
Raw == [Bucket \X Source -> Price \cup {NoPrice}]
NoRaw == [k \in Bucket \X Source |-> NoPrice]

\* An average is kept as a sum and a count.
Average == [sum : Nat, count : Nat]
Candle == [open : Average, close : Average, high : Nat, low : Nat]
NoCandle == [open |-> [sum |-> 0, count |-> 0], close |-> [sum |-> 0, count |-> 0],
             high |-> 0, low |-> 0]

Snapshot == [raw : Raw, hourly : Candle]
NoSnapshot == [raw |-> NoRaw, hourly |-> NoCandle]

ConsumerPc == {"idle", "raw", "hourly", "invalidate", "queue", "commit"}
ConsumerRecord == [pc : ConsumerPc, from : Nat, upto : Nat, todo : SUBSET Nat,
                   left : SUBSET Stream, waking : SUBSET Stream]
Idle == [pc |-> "idle", from |-> 0, upto |-> 0, todo |-> {},
         left |-> {}, waking |-> {}]

StreamPc == {"closed", "wait", "drain", "load", "store"}
StreamRecord == [pc : StreamPc, wake : BOOLEAN, pending : SUBSET Pair,
                 todo : SUBSET Pair, loading : SUBSET Pair, seen : Snapshot,
                 sent : [Pair -> Snapshot]]
Closed == [pc |-> "closed", wake |-> FALSE, pending |-> {}, todo |-> {},
           loading |-> {}, seen |-> NoSnapshot, sent |-> [p \in Pair |-> NoSnapshot]]

ReaderRecord == [pc : {"idle", "store"}, pair : Pair, seen : Snapshot]

-----------------------------------------------------------------------------
(* Consolidation *)

Filled(r) == {k \in DOMAIN r : r[k] # NoPrice}
BucketsOf(r) == {k[1] : k \in Filled(r)}

\* The average price of the sources that have a candle in bucket b.
AverageAt(r, b) ==
    LET at == {k \in Filled(r) : k[1] = b}
    IN  [sum |-> MapThenSumSet(LAMBDA k : r[k], at),
         count |-> Cardinality(at)]

\* FromRaw for one hour.  A snapshot candle's open, high, low and close are its
\* price; a table row is unique per bucket and source, so there is nothing to
\* deduplicate.
FromRaw(r) ==
    LET prices == {r[k] : k \in Filled(r)}
    IN  [open |-> AverageAt(r, Min(BucketsOf(r))),
         close |-> AverageAt(r, Max(BucketsOf(r))),
         high |-> Max(prices), low |-> Min(prices)]

-----------------------------------------------------------------------------
(* The market topic and its consumer *)

\* RealtimeExecutor publishes what the providers say; the events of one call
\* reach the topic one by one.
Publish(e) ==
    /\ Len(topic) < MaxEvents
    /\ topic' = Append(topic, e)
    /\ UNCHANGED <<committed, consumer, raw, hourly, cache, stream, reader, faults>>

\* handleBatch groups the events after m up to n by pair, in the order in which
\* the pairs first come up: a group stands for itself by its first event.
Groups(m, n) ==
    {k \in (m + 1)..n : \A j \in (m + 1)..(k - 1) : topic[j].pair # topic[k].pair}

\* The pair of the group that is being ingested.
Current == topic[Min(consumer.todo)].pair

\* Mutant: the offset is committed as soon as the batch is there.
FetchBatchCommitted(n) ==
    /\ consumer.pc = "idle"
    /\ committed < n /\ n <= Len(topic) /\ n <= committed + MaxBatch
    /\ consumer' = [Idle EXCEPT !.pc = "raw", !.from = committed, !.upto = n,
                                !.todo = Groups(committed, n)]
    /\ committed' = n
    /\ UNCHANGED <<topic, raw, hourly, cache, stream, reader, faults>>

\* Mutant: the consumer waits until the batch is full.
FetchBatchFull(n) ==
    /\ consumer.pc = "idle"
    /\ n = committed + MaxBatch /\ n <= Len(topic)
    /\ consumer' = [Idle EXCEPT !.pc = "raw", !.from = committed, !.upto = n,
                                !.todo = Groups(committed, n)]
    /\ UNCHANGED <<topic, committed, raw, hourly, cache, stream, reader, faults>>

\* FetchMessage and collectBatch: some of the events there are; handleBatch
\* groups them.
FetchBatch(n) ==
    /\ consumer.pc = "idle"
    /\ committed < n /\ n <= Len(topic) /\ n <= committed + MaxBatch
    /\ consumer' = [Idle EXCEPT !.pc = "raw", !.from = committed, !.upto = n,
                                !.todo = Groups(committed, n)]
    /\ UNCHANGED <<topic, committed, raw, hourly, cache, stream, reader, faults>>

\* UpsertRawCandles: the events of the first pair, in one transaction.
UpsertRawCandles ==
    LET p == Current
        EventsAt(b, s) == {n \in (consumer.from + 1)..consumer.upto :
                /\ topic[n].pair = p /\ topic[n].bucket = b /\ topic[n].source = s}
    IN  /\ consumer.pc = "raw"
        /\ raw' = [raw EXCEPT ![p] = [k \in Bucket \X Source |->
                     IF EventsAt(k[1], k[2]) = {} THEN raw[p][k]
                     ELSE topic[Max(EventsAt(k[1], k[2]))].price]]
        /\ consumer' = [consumer EXCEPT !.pc = "hourly"]
        /\ UNCHANGED <<topic, committed, hourly, cache, stream, reader, faults>>

\* RawCandles, FromRaw and UpsertCandles: nobody else writes this hour.
UpsertCandles ==
    LET p == Current
    IN  /\ consumer.pc = "hourly"
        /\ hourly' = [hourly EXCEPT ![p] = FromRaw(raw[p])]
        /\ consumer' = [consumer EXCEPT !.pc = "invalidate"]
        /\ UNCHANGED <<topic, committed, raw, cache, stream, reader, faults>>

Open == {s \in Stream : stream[s].pc # "closed"}

\* NotifyUpdate: the pair's cache entry goes, then, with the list of
\* subscriptions locked, every one of them is queued the pair.
Invalidate ==
    /\ consumer.pc = "invalidate"
    /\ cache' = [cache EXCEPT ![Current] = NoSnapshot]
    /\ consumer' = [consumer EXCEPT !.pc = "queue", !.left = Open]
    /\ UNCHANGED <<topic, committed, raw, hourly, stream, reader, faults>>

\* queuePair: the pair, under the subscription's mutex.
QueuePair(s) ==
    /\ consumer.pc = "queue" /\ consumer.waking = {}
    /\ s \in consumer.left
    /\ stream' = [stream EXCEPT ![s].pending = @ \cup {Current}]
    /\ consumer' = [consumer EXCEPT !.left = @ \ {s}, !.waking = {s}]
    /\ UNCHANGED <<topic, committed, raw, hourly, cache, reader, faults>>

\* Mutant: no signal when the stream is busy.
WakeIfWaiting(s) ==
    /\ s \in consumer.waking
    /\ stream' = [stream EXCEPT ![s].wake = @ \/ stream[s].pc = "wait"]
    /\ consumer' = [consumer EXCEPT !.waking = {}]
    /\ UNCHANGED <<topic, committed, raw, hourly, cache, reader, faults>>

\* queuePair: the signal, into a channel that holds one.
Wake(s) ==
    /\ s \in consumer.waking
    /\ stream' = [stream EXCEPT ![s].wake = TRUE]
    /\ consumer' = [consumer EXCEPT !.waking = {}]
    /\ UNCHANGED <<topic, committed, raw, hourly, cache, reader, faults>>

\* IngestRealtimeCandles is done with the pair.
NextPair ==
    LET rest == consumer.todo \ {Min(consumer.todo)}
    IN  /\ consumer.pc = "queue" /\ consumer.left = {} /\ consumer.waking = {}
        /\ consumer' = [consumer EXCEPT !.todo = rest,
                                        !.pc = IF rest = {} THEN "commit" ELSE "raw"]
        /\ UNCHANGED <<topic, committed, raw, hourly, cache, stream, reader, faults>>

CommitMessages ==
    /\ consumer.pc = "commit"
    /\ committed' = consumer.upto
    /\ consumer' = Idle
    /\ UNCHANGED <<topic, raw, hourly, cache, stream, reader, faults>>

-----------------------------------------------------------------------------
(* MarketService.Ticker and the ticker streams *)

\* MarketRepository.Ticker: what the query reads.
Ticker(p) == [raw |-> raw[p], hourly |-> hourly[p]]

\* The map is emptied when it is full, then takes the entry.
Cached(p, seen) ==
    LET used == {q \in Pair : cache[q] # NoSnapshot}
    IN  IF Cardinality(used) >= CacheSize
        THEN [q \in Pair |-> IF q = p THEN seen ELSE NoSnapshot]
        ELSE [cache EXCEPT ![p] = seen]

\* The stream subscribes; it is sent no snapshot.  Subscribe waits while
\* NotifyUpdate holds the list.
Subscribe(s) ==
    /\ stream[s].pc = "closed"
    /\ consumer.pc # "queue"
    /\ stream' = [stream EXCEPT ![s] = [Closed EXCEPT !.pc = "wait"]]
    /\ UNCHANGED <<topic, committed, consumer, raw, hourly, cache, reader, faults>>

\* The client goes away or a write fails, and Unsubscribe.
Unsubscribe(s) ==
    /\ stream[s].pc = "wait"
    /\ consumer.pc # "queue"
    /\ stream' = [stream EXCEPT ![s] = Closed]
    /\ UNCHANGED <<topic, committed, consumer, raw, hourly, cache, reader, faults>>

ReceiveUpdate(s) ==
    /\ stream[s].pc = "wait" /\ stream[s].wake
    /\ stream' = [stream EXCEPT ![s].wake = FALSE, ![s].pc = "drain"]
    /\ UNCHANGED <<topic, committed, consumer, raw, hourly, cache, reader, faults>>

DrainPendingPairs(s) ==
    /\ stream[s].pc = "drain"
    /\ stream' = [stream EXCEPT ![s].todo = stream[s].pending, ![s].pending = {},
                                ![s].pc = "load"]
    /\ UNCHANGED <<topic, committed, consumer, raw, hourly, cache, reader, faults>>

\* Ticker for the next pair: from the cache, or from the tables, to be cached in
\* a step of its own.
LoadTicker(s, p) ==
    /\ stream[s].pc = "load" /\ p \in stream[s].todo
    /\ \/ /\ cache[p] # NoSnapshot
          /\ stream' = [stream EXCEPT ![s].todo = @ \ {p}, ![s].sent[p] = cache[p]]
       \/ /\ cache[p] = NoSnapshot
          /\ stream' = [stream EXCEPT ![s].todo = @ \ {p}, ![s].loading = {p},
                                      ![s].seen = Ticker(p), ![s].pc = "store"]
    /\ UNCHANGED <<topic, committed, consumer, raw, hourly, cache, reader, faults>>

\* The query fails: the pair is skipped.
SkipTicker(s, p) ==
    /\ stream[s].pc = "load" /\ p \in stream[s].todo /\ cache[p] = NoSnapshot
    /\ faults < MaxFaults
    /\ faults' = faults + 1
    /\ stream' = [stream EXCEPT ![s].todo = @ \ {p}]
    /\ UNCHANGED <<topic, committed, consumer, raw, hourly, cache, reader>>

StoreTicker(s, p) ==
    /\ stream[s].pc = "store" /\ p \in stream[s].loading
    /\ cache' = Cached(p, stream[s].seen)
    /\ stream' = [stream EXCEPT ![s].loading = {}, ![s].sent[p] = stream[s].seen,
                                ![s].seen = NoSnapshot, ![s].pc = "load"]
    /\ UNCHANGED <<topic, committed, consumer, raw, hourly, reader, faults>>

\* The message is written, if there is something new to say.
Emit(s) ==
    /\ stream[s].pc = "load" /\ stream[s].todo = {}
    /\ stream' = [stream EXCEPT ![s].pc = "wait"]
    /\ UNCHANGED <<topic, committed, consumer, raw, hourly, cache, reader, faults>>

\* GET /api/v1/ticker on a pair that is not cached.
ReadTicker(r, p) ==
    /\ reader[r].pc = "idle"
    /\ cache[p] = NoSnapshot /\ Ticker(p) # NoSnapshot
    /\ reader' = [reader EXCEPT ![r] = [pc |-> "store", pair |-> p, seen |-> Ticker(p)]]
    /\ UNCHANGED <<topic, committed, consumer, raw, hourly, cache, stream, faults>>

StoreRead(r) ==
    /\ reader[r].pc = "store"
    /\ cache' = Cached(reader[r].pair, reader[r].seen)
    /\ reader' = [reader EXCEPT ![r].pc = "idle", ![r].seen = NoSnapshot]
    /\ UNCHANGED <<topic, committed, consumer, raw, hourly, stream, faults>>

-----------------------------------------------------------------------------
(* Faults *)

\* The process ends and is started again: the topic, the group's offset and the
\* tables are what it finds.
Crash ==
    /\ faults < MaxFaults
    /\ faults' = faults + 1
    /\ consumer' = Idle
    /\ cache' = [p \in Pair |-> NoSnapshot]
    /\ stream' = [s \in Stream |-> Closed]
    /\ reader' = [r \in Reader |-> [reader[r] EXCEPT !.pc = "idle", !.seen = NoSnapshot]]
    /\ UNCHANGED <<topic, committed, raw, hourly>>

-----------------------------------------------------------------------------
Init ==
    /\ topic = << >> /\ committed = 0 /\ consumer = Idle
    /\ raw = [p \in Pair |-> NoRaw]
    /\ hourly = [p \in Pair |-> NoCandle]
    /\ cache = [p \in Pair |-> NoSnapshot]
    /\ stream = [s \in Stream |-> Closed]
    /\ reader = [r \in Reader |->
                    [pc |-> "idle", pair |-> CHOOSE p \in Pair : TRUE, seen |-> NoSnapshot]]
    /\ faults = 0

Consume ==
    \/ \E n \in 1..MaxEvents : FetchBatch(n)
    \/ UpsertRawCandles
    \/ UpsertCandles
    \/ Invalidate
    \/ \E s \in Stream : QueuePair(s) \/ Wake(s)
    \/ NextPair
    \/ CommitMessages

StreamStep(s) ==
    \/ ReceiveUpdate(s)
    \/ DrainPendingPairs(s)
    \/ \E p \in Pair : LoadTicker(s, p) \/ StoreTicker(s, p)
    \/ Emit(s)

Next ==
    \/ \E e \in Quote : Publish(e)
    \/ Consume
    \/ \E s \in Stream : StreamStep(s) \/ Subscribe(s) \/ Unsubscribe(s)
    \/ \E s \in Stream, p \in Pair : SkipTicker(s, p)
    \/ \E r \in Reader : StoreRead(r) \/ \E p \in Pair : ReadTicker(r, p)
    \/ Crash

Spec == Init /\ [][Next]_vars

(***************************************************************************)
(* The consumer's loop and a stream's goroutine go on while the process is *)
(* up; a fetch waits 50 ms at most for more events.                        *)
(***************************************************************************)
Fairness ==
    /\ WF_vars(Consume)
    /\ \A s \in Stream : WF_vars(StreamStep(s))

FairSpec == Spec /\ Fairness

-----------------------------------------------------------------------------
(* Properties *)

TypeOK ==
    /\ topic \in Seq(Event)
    /\ committed \in 0..Len(topic)
    /\ consumer \in ConsumerRecord
    /\ raw \in [Pair -> Raw]
    /\ hourly \in [Pair -> Candle]
    /\ cache \in [Pair -> Snapshot]
    /\ stream \in [Stream -> StreamRecord]
    /\ reader \in [Reader -> ReaderRecord]
    /\ faults \in 0..MaxFaults

\* What the events say of pair p: the last price per bucket and source.
Published(p) ==
    [k \in Bucket \X Source |->
        LET at == {n \in DOMAIN topic : /\ topic[n].pair = p
                                        /\ topic[n].bucket = k[1]
                                        /\ topic[n].source = k[2]}
        IN  IF at = {} THEN NoPrice ELSE topic[Max(at)].price]

\* Property: once the group's offset is at the end of the topic, the raw candles
\* are the last ones published and every hourly candle is their consolidation,
\* whatever crashes left half done and however often an event came again.
FeedConverges ==
    consumer.pc = "idle" /\ committed = Len(topic) =>
        \A p \in Pair :
            /\ raw[p] = Published(p)
            /\ Filled(raw[p]) # {} => hourly[p] = FromRaw(raw[p])

\* Property: a stream never waits with a changed pair pending and no signal on
\* its way, although the signal may be dropped because one is already there.
NoLostWakeup ==
    \A s \in Stream :
        stream[s].pending # {} =>
            \/ stream[s].wake
            \/ stream[s].pc = "drain"
            \/ s \in consumer.waking

\* Property: every event published is consumed and every changed pair is taken
\* from its queue, after at most MaxFaults crashes.
FeedDelivers ==
    /\ \A n \in 1..MaxEvents : Len(topic) >= n ~> committed >= n
    /\ \A s \in Stream, p \in Pair :
            p \in stream[s].pending ~> p \notin stream[s].pending

\* Property: a stream that has been told a pair's price is told of every later
\* one: it does not stay with a price that the tables have left.
StreamCatchesUp ==
    \A s \in Stream, p \in Pair :
        [](stream[s].sent[p] # NoSnapshot /\ stream[s].sent[p] # Ticker(p)
             => <>(stream[s].sent[p] \in {NoSnapshot, Ticker(p)}))
=============================================================================
