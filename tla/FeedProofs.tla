----------------------------- MODULE FeedProofs -----------------------------
(***************************************************************************)
(* What the streams a browser follows promise, for any number of streams,  *)
(* pairs, sources and viewers, crashes and failed queries: the tables they *)
(* are served from end up with what was published, no change of a price    *)
(* and no commit of headlines goes unnoticed by an open stream, and no     *)
(* warning is hidden that nobody has seen.                                 *)
(***************************************************************************)
EXTENDS MarketFeed, NewsFeed, SystemStatus, NumberSets, SequenceTheorems, TLAPS

-----------------------------------------------------------------------------
(* News *)

\* The shape of the two records; what a stream shows may be anything.
Shape ==
    /\ \A s \in NewsSource : fetcher[s] = [pc |-> fetcher[s].pc, items |-> fetcher[s].items]
    /\ DOMAIN fetcher = NewsSource
    /\ newsStream = [t \in NewsStream |->
                        [pc     |-> newsStream[t].pc,
                         signal |-> newsStream[t].signal,
                         view   |-> newsStream[t].view]]

\* A stream that may show something old, and what makes up for it.
Owed(t) ==
    /\ newsStream[t].pc \in {"write", "wait"}
    /\ newsStream[t].view \notin ListNews \cup {NullNews}

Announced(t) == newsStream[t].signal \/ \E s \in NewsSource : fetcher[s].pc = "notify"

NewsInv == Shape /\ OldNewsIsSignalled

LEMMA ShapeStep == Shape /\ [NewsNext]_newsVars => Shape'
<1> SUFFICES ASSUME Shape, [NewsNext]_newsVars PROVE Shape'
  OBVIOUS
<1>1. ASSUME NEW s \in NewsSource, NEW items \in Items, FetchRSS(s, items) PROVE Shape'
  BY <1>1 DEF Shape, FetchRSS
<1>2. ASSUME NEW s \in NewsSource, UpsertNews(s) \/ UpsertFails(s) PROVE Shape'
  BY <1>2 DEF Shape, UpsertNews, UpsertFails, NoFetch
<1>3. ASSUME NEW s \in NewsSource, Notify(s) PROVE Shape'
  <2>1. ASSUME NEW t \in NewsStream
        PROVE  newsStream'[t] = [pc     |-> newsStream'[t].pc,
                                 signal |-> newsStream'[t].signal,
                                 view   |-> newsStream'[t].view]
    <3>1. newsStream[t] = [pc |-> newsStream[t].pc, signal |-> newsStream[t].signal,
                           view |-> newsStream[t].view]
      BY DEF Shape
    <3>2. newsStream'[t] = Signalled(newsStream[t])
      BY <1>3 DEF Notify
    <3>3. CASE newsStream[t].pc = "closed"
      BY <3>1, <3>2, <3>3 DEF Signalled
    <3>4. CASE newsStream[t].pc # "closed"
      <4>1. newsStream'[t] = [pc |-> newsStream[t].pc, signal |-> TRUE,
                              view |-> newsStream[t].view]
        BY <3>1, <3>2, <3>4 DEF Signalled
      <4> QED
        BY <4>1
    <3> QED
      BY <3>3, <3>4
  <2>2. newsStream' = [t \in NewsStream |-> newsStream'[t]]
    BY <1>3 DEF Notify
  <2>3. /\ \A r \in NewsSource :
              fetcher'[r] = [pc |-> fetcher'[r].pc, items |-> fetcher'[r].items]
        /\ DOMAIN fetcher' = NewsSource
    BY <1>3 DEF Shape, Notify, NoFetch
  <2> QED
    BY <2>1, <2>2, <2>3 DEF Shape
<1>4. ASSUME NEW t \in NewsStream, OpenNews(t) \/ WriteNews(t) \/ ReceiveNews(t) PROVE Shape'
  BY <1>4 DEF Shape, OpenNews, WriteNews, ReceiveNews
<1>5. ASSUME NEW t \in NewsStream, ListItems(t) PROVE Shape'
  <2>1. PICK view : newsStream' = [newsStream EXCEPT ![t].pc = "write", ![t].view = view]
    BY <1>5 DEF ListItems
  <2>2. UNCHANGED fetcher
    BY <1>5 DEF ListItems
  <2>3. ASSUME NEW u \in NewsStream
        PROVE  newsStream'[u] = [pc     |-> newsStream'[u].pc,
                                 signal |-> newsStream'[u].signal,
                                 view   |-> newsStream'[u].view]
    <3>1. newsStream[u] = [pc |-> newsStream[u].pc, signal |-> newsStream[u].signal,
                           view |-> newsStream[u].view]
      BY DEF Shape
    <3>2. CASE u # t
      <4>1. newsStream'[u] = newsStream[u]
        BY <2>1, <3>2 DEF Shape
      <4> QED
        BY <3>1, <4>1
    <3>3. CASE u = t
      <4>1. newsStream'[u] = [newsStream[u] EXCEPT !.pc = "write", !.view = view]
        BY <2>1, <3>3 DEF Shape
      <4>2. newsStream'[u] = [pc |-> "write", signal |-> newsStream[u].signal, view |-> view]
        BY <3>1, <4>1
      <4> QED
        BY <4>2
    <3> QED
      BY <3>2, <3>3
  <2>4. newsStream' = [u \in NewsStream |-> newsStream'[u]]
    BY <2>1 DEF Shape
  <2> QED
    BY <2>2, <2>3, <2>4 DEF Shape
<1>6. ASSUME NEW t \in NewsStream, CloseNews(t) PROVE Shape'
  BY <1>6 DEF Shape, CloseNews, NewsClosed
<1>7. CASE UNCHANGED newsVars
  BY <1>7 DEF Shape, newsVars
<1> QED
  BY <1>1, <1>2, <1>3, <1>4, <1>5, <1>6, <1>7 DEF NewsNext

\* The list is a function of the table.
LEMMA ListOfTable == news' = news => ListNews' = ListNews
BY DEF ListNews, Stored

LEMMA SignalStep == NewsInv /\ [NewsNext]_newsVars => OldNewsIsSignalled'
<1> SUFFICES ASSUME NewsInv, [NewsNext]_newsVars, NEW c \in NewsStream, Owed(c)'
             PROVE  Announced(c)'
  BY DEF OldNewsIsSignalled, Owed, Announced
<1>0. Owed(c) => Announced(c)
  BY DEF NewsInv, OldNewsIsSignalled, Owed, Announced
<1>1. ASSUME NEW s \in NewsSource, NEW items \in Items, FetchRSS(s, items)
      PROVE  Announced(c)'
  <2>1. Owed(c)
    BY <1>1, ListOfTable DEF Owed, FetchRSS
  <2>2. \A r \in NewsSource : fetcher[r].pc = "notify" => fetcher'[r].pc = "notify"
    BY <1>1 DEF FetchRSS, NewsInv, Shape
  <2> QED
    BY <1>0, <1>1, <2>1, <2>2 DEF Announced, FetchRSS
\* The commit itself: its fetch is about to signal.
<1>2. ASSUME NEW s \in NewsSource, UpsertNews(s) PROVE Announced(c)'
  BY <1>2 DEF UpsertNews, Announced, NewsInv, Shape
<1>3. ASSUME NEW s \in NewsSource, UpsertFails(s) PROVE Announced(c)'
  <2>1. Owed(c)
    BY <1>3, ListOfTable DEF Owed, UpsertFails
  <2>2. \A r \in NewsSource : fetcher[r].pc = "notify" => fetcher'[r].pc = "notify"
    BY <1>3 DEF UpsertFails, NewsInv, Shape
  <2> QED
    BY <1>0, <1>3, <2>1, <2>2 DEF Announced, UpsertFails
\* The signal: every open stream has one now.
<1>4. ASSUME NEW s \in NewsSource, Notify(s) PROVE Announced(c)'
  <2>1. newsStream'[c] = Signalled(newsStream[c])
    BY <1>4 DEF Notify
  <2>2. newsStream[c].pc # "closed"
    BY <2>1 DEF Signalled, Owed
  <2>3. newsStream[c] = [pc |-> newsStream[c].pc, signal |-> newsStream[c].signal,
                         view |-> newsStream[c].view]
    BY DEF NewsInv, Shape
  <2>4. newsStream'[c].signal
    BY <2>1, <2>2, <2>3 DEF Signalled
  <2> QED
    BY <2>4 DEF Announced
<1>5. ASSUME NEW t \in NewsStream,
             OpenNews(t) \/ ListItems(t) \/ WriteNews(t) \/ ReceiveNews(t) \/ CloseNews(t)
      PROVE  Announced(c)'
  <2>1. news' = news /\ fetcher' = fetcher /\ ListNews' = ListNews
    BY <1>5, ListOfTable
       DEF OpenNews, ListItems, WriteNews, ReceiveNews, CloseNews
  <2>2. CASE newsStream'[c] = newsStream[c]
    BY <1>0, <2>1, <2>2 DEF Owed, Announced
  <2>3. CASE t = c /\ ListItems(c)
    <3>1. PICK view \in ListNews \cup {NullNews} :
             newsStream' = [newsStream EXCEPT ![c].pc = "write", ![c].view = view]
      BY <2>3 DEF ListItems
    <3>2. newsStream'[c] = [newsStream[c] EXCEPT !.pc = "write", !.view = view]
      BY <3>1 DEF NewsInv, Shape
    <3>3. newsStream[c] = [pc |-> newsStream[c].pc, signal |-> newsStream[c].signal,
                           view |-> newsStream[c].view]
      BY DEF NewsInv, Shape
    <3>4. newsStream'[c].view = view
      BY <3>2, <3>3
    <3> QED
      BY <2>1, <3>4 DEF Owed
  <2>4. CASE t = c /\ WriteNews(c)
    BY <1>0, <2>1, <2>4 DEF WriteNews, Owed, Announced, NewsInv, Shape
  <2>5. CASE t = c /\ (OpenNews(c) \/ ReceiveNews(c))
    BY <2>5 DEF OpenNews, ReceiveNews, Owed, NewsInv, Shape
  <2>6. CASE t = c /\ CloseNews(c)
    BY <2>6 DEF CloseNews, NewsClosed, Owed, NewsInv, Shape
  <2>7. CASE t # c
    <3>1. newsStream'[c] = newsStream[c]
      BY <1>5, <2>7
         DEF OpenNews, ListItems, WriteNews, ReceiveNews, CloseNews, NewsInv, Shape
    <3> QED
      BY <3>1, <2>2
  <2> QED
    BY <1>5, <2>3, <2>4, <2>5, <2>6, <2>7
<1>6. CASE UNCHANGED newsVars
  BY <1>0, <1>6, ListOfTable DEF newsVars, Owed, Announced
<1> QED
  BY <1>1, <1>2, <1>3, <1>4, <1>5, <1>6 DEF NewsNext

\* A stream of /api/v1/news/stream that shows an old list has a signal in its
\* channel, or a fetch that has committed is about to send one.
THEOREM NoNewsUnnoticed == NewsSpec => []OldNewsIsSignalled
<1>1. NewsInit => NewsInv
  BY DEF NewsInit, NewsInv, Shape, OldNewsIsSignalled, NoFetch, NewsClosed
<1>2. NewsInv /\ [NewsNext]_newsVars => NewsInv'
  BY ShapeStep, SignalStep DEF NewsInv
<1>3. NewsInv => OldNewsIsSignalled
  BY DEF NewsInv
<1> QED
  BY <1>1, <1>2, <1>3, PTL DEF NewsSpec

-----------------------------------------------------------------------------
(* Warnings *)

\* A warning is its id and its text, and no more.
IsWarning(w) == w = [id |-> w.id, detail |-> w.detail]

\* The fields of a viewer's record that the argument needs.
IsViewer(q) ==
    /\ q = [f \in DOMAIN q |-> q[f]]
    /\ {"built", "screen", "hidden"} \subseteq DOMAIN q

ViewerShape == viewer = [v \in Viewer |-> viewer[v]] /\ \A v \in Viewer : IsViewer(viewer[v])

\* What is on a screen has been shown, and a dismissal names a warning that has
\* been shown, by its id and its text.
WarningsInv ==
    /\ ViewerShape
    /\ \A v \in Viewer : \A w \in viewer[v].built : IsWarning(w)
    /\ \A w \in shown : IsWarning(w)
    /\ \A v \in Viewer : viewer[v].screen \subseteq shown
    /\ HiddenWasShown
    /\ \A d \in dismissed : \E w \in shown : w.id = d.id /\ w.detail = d.fingerprint

LEMMA WarningsAre ==
    ASSUME NEW source \in DOMAIN AfterSource, NEW w \in Warnings[source]
    PROVE  IsWarning(w)
<1>1. source \in {"health", "sync", "failed", "tickers"}
  BY DEF AfterSource
<1>2. \A kind, subject, detail : IsWarning(Warning(kind, subject, detail))
  BY DEF IsWarning, Warning
<1>3. \E kind, subject, detail : w = Warning(kind, subject, detail)
  <2>1. CASE source = "health"
    BY <2>1 DEF Warnings
  <2>2. CASE source = "sync"
    BY <2>2 DEF Warnings
  <2>3. CASE source = "failed"
    BY <2>3 DEF Warnings
  <2>4. CASE source = "tickers"
    BY <2>4 DEF Warnings
  <2> QED
    BY <1>1, <2>1, <2>2, <2>3, <2>4
<1> QED
  BY <1>2, <1>3

\* A request of one viewer that neither shows nor hides anything.
LEMMA ViewerReads ==
    ASSUME WarningsInv, NEW v \in Viewer, NEW x, IsViewer(x),
           \A w \in x.built : IsWarning(w),
           x.screen = viewer[v].screen, x.hidden = viewer[v].hidden,
           viewer' = [viewer EXCEPT ![v] = x], UNCHANGED <<dismissed, shown>>
    PROVE  WarningsInv'
<1>1. \A u \in Viewer : viewer'[u] = IF u = v THEN x ELSE viewer[u]
  BY DEF WarningsInv, ViewerShape
<1>2. ViewerShape'
  BY <1>1 DEF WarningsInv, ViewerShape
<1> QED
  BY <1>1, <1>2 DEF WarningsInv, HiddenWasShown

LEMMA ViewerSet ==
    ASSUME WarningsInv, NEW v \in Viewer, NEW pc, NEW b, \A w \in b : IsWarning(w),
           viewer' = [viewer EXCEPT ![v].pc = pc, ![v].built = b], UNCHANGED <<dismissed, shown>>
    PROVE  WarningsInv'
<1> DEFINE x == [viewer[v] EXCEPT !.pc = pc, !.built = b]
<1>1. viewer' = [viewer EXCEPT ![v] = x]
  BY DEF WarningsInv, ViewerShape
<1>2. /\ IsViewer(x) /\ x.built = b
      /\ x.screen = viewer[v].screen /\ x.hidden = viewer[v].hidden
  BY DEF WarningsInv, ViewerShape, IsViewer
<1> HIDE DEF x
<1> QED
  BY <1>1, <1>2, ViewerReads

LEMMA ActiveStep ==
    ASSUME WarningsInv, NEW v \in Viewer, ActiveWarnings(v)
    PROVE  WarningsInv'
<1> DEFINE hidden == {w \in viewer[v].built : IsDismissed(w)}
           list == viewer[v].built \ hidden
           x == [pc |-> "idle", built |-> {}, screen |-> list, hidden |-> hidden]
<1>1. viewer' = [viewer EXCEPT ![v] = x] /\ shown' = shown \cup list /\ UNCHANGED dismissed
  BY DEF ActiveWarnings
<1>2. \A w \in viewer[v].built : IsWarning(w)
  BY DEF WarningsInv
<1>3. hidden \subseteq shown
  <2> SUFFICES ASSUME NEW w \in viewer[v].built, IsDismissed(w) PROVE w \in shown
    OBVIOUS
  <2>1. PICK d \in dismissed : d.id = w.id /\ d.fingerprint = w.detail
    BY DEF IsDismissed, Fingerprint
  <2>2. PICK seen \in shown : seen.id = d.id /\ seen.detail = d.fingerprint
    BY DEF WarningsInv
  <2>3. seen = [id |-> seen.id, detail |-> seen.detail]
    BY DEF WarningsInv, IsWarning
  <2>4. w = [id |-> w.id, detail |-> w.detail]
    BY <1>2 DEF IsWarning
  <2> QED
    BY <2>1, <2>2, <2>3, <2>4
<1>4. x.built = {} /\ x.screen = list /\ x.hidden = hidden
  OBVIOUS
<1>5. \A u \in Viewer : viewer'[u] = IF u = v THEN x ELSE viewer[u]
  BY <1>1 DEF WarningsInv, ViewerShape
<1>6. ViewerShape'
  BY <1>1, <1>5 DEF WarningsInv, ViewerShape, IsViewer
<1>7. \A w \in shown' : IsWarning(w)
  BY <1>1, <1>2 DEF WarningsInv
<1> HIDE DEF x, list, hidden
<1>8. \A u \in Viewer : /\ \A w \in viewer'[u].built : IsWarning(w)
                        /\ viewer'[u].screen \subseteq shown'
                        /\ viewer'[u].hidden \subseteq shown'
  BY <1>1, <1>3, <1>4, <1>5 DEF WarningsInv, HiddenWasShown
<1>9. \A d \in dismissed' : \E w \in shown' : w.id = d.id /\ w.detail = d.fingerprint
  BY <1>1 DEF WarningsInv
<1> QED
  BY <1>6, <1>7, <1>8, <1>9 DEF WarningsInv, HiddenWasShown

LEMMA WarningsStep == WarningsInv /\ [TaskStreamNext \/ WarningsNext]_statusVars => WarningsInv'
<1> SUFFICES ASSUME WarningsInv, [TaskStreamNext \/ WarningsNext]_statusVars PROVE WarningsInv'
  OBVIOUS
<1>1. ASSUME UNCHANGED <<viewer, dismissed, shown>> PROVE WarningsInv'
  BY <1>1 DEF WarningsInv, ViewerShape, HiddenWasShown
<1>2. CASE TaskStreamNext
  <2>1. UNCHANGED <<viewer, dismissed, shown>>
    BY <1>2 DEF TaskStreamNext, Change, NotifyUpdate, OpenTasks, Produce, ReadPart, Offer,
                Register, ReceiveSignal, Poll, HandlerReceives, CloseTasks
  <2> QED
    BY <1>1, <2>1
<1>3. CASE Change(TablesChange \/ HealthChanges)
  BY <1>1, <1>3 DEF Change
<1>4. ASSUME NEW v \in Viewer, GetWarnings(v) \/ WarningsFail(v) PROVE WarningsInv'
  <2>1. PICK pc, b : b = {} /\ viewer' = [viewer EXCEPT ![v].pc = pc, ![v].built = b]
    BY <1>4, Zenon DEF GetWarnings, WarningsFail
  <2>2. UNCHANGED <<dismissed, shown>>
    BY <1>4 DEF GetWarnings, WarningsFail
  <2>3. \A w \in b : IsWarning(w)
    BY <2>1
  <2> QED
    BY <2>1, <2>2, <2>3, ViewerSet, Zenon
<1>5. ASSUME NEW v \in Viewer, TickersUnread(v) PROVE WarningsInv'
  <2> DEFINE x == [viewer[v] EXCEPT !.pc = "dismissed"]
  <2>1. viewer' = [viewer EXCEPT ![v] = x] /\ UNCHANGED <<dismissed, shown>>
    BY <1>5 DEF TickersUnread
  <2>2. /\ IsViewer(x) /\ x.built = viewer[v].built
        /\ x.screen = viewer[v].screen /\ x.hidden = viewer[v].hidden
    BY DEF WarningsInv, ViewerShape, IsViewer
  <2>3. \A w \in x.built : IsWarning(w)
    BY <2>2 DEF WarningsInv
  <2> HIDE DEF x
  <2> QED
    BY <2>1, <2>2, <2>3, ViewerReads
<1>6. ASSUME NEW v \in Viewer, NEW source \in DOMAIN AfterSource, ReadSource(v, source)
      PROVE  WarningsInv'
  <2> DEFINE built == viewer[v].built \cup Warnings[source]
             pc == AfterSource[source]
  <2>1. viewer' = [viewer EXCEPT ![v].pc = pc, ![v].built = built]
    BY <1>6 DEF ReadSource, WarningsInv, ViewerShape
  <2>2. UNCHANGED <<dismissed, shown>>
    BY <1>6 DEF ReadSource
  <2>3. \A w \in built : IsWarning(w)
    BY WarningsAre DEF WarningsInv
  <2> HIDE DEF built, pc
  <2> QED
    BY <2>1, <2>2, <2>3, ViewerSet
<1>7. ASSUME NEW v \in Viewer, NEW w \in viewer[v].screen, DismissWarning(v, w)
      PROVE  WarningsInv'
  <2>1. UNCHANGED <<viewer, shown>> /\ w \in shown
    BY <1>7 DEF DismissWarning, WarningsInv
  <2>2. \A d \in dismissed' : d \in dismissed \/ d = [id |-> w.id, fingerprint |-> w.detail]
    BY <1>7 DEF DismissWarning, Fingerprint
  <2> QED
    BY <2>1, <2>2 DEF WarningsInv, ViewerShape, HiddenWasShown
<1>8. CASE UNCHANGED statusVars
  BY <1>1, <1>8 DEF statusVars
<1> QED
  BY <1>2, <1>3, <1>4, <1>5, <1>6, <1>7, <1>8, ActiveStep DEF WarningsNext

\* A warning that a response of /api/v1/system/warnings leaves out because it was
\* dismissed has been on a screen before with exactly this text.
THEOREM NothingUnseenIsHidden == StatusSpec => []HiddenWasShown
<1>1. StatusInit => WarningsInv
  BY DEF StatusInit, WarningsInv, ViewerShape, IsViewer, HiddenWasShown
<1>2. WarningsInv => HiddenWasShown
  BY DEF WarningsInv
<1> QED
  BY <1>1, <1>2, WarningsStep, PTL DEF StatusSpec

-----------------------------------------------------------------------------
(* Live prices: signals *)

\* The fields of a stream's record that the argument needs.
IsStream(q) ==
    /\ q = [f \in DOMAIN q |-> q[f]]
    /\ {"pc", "wake", "pending"} \subseteq DOMAIN q

StreamsShape == stream = [s \in Stream |-> stream[s]] /\ \A s \in Stream : IsStream(stream[s])

ConsumerShape ==
    /\ consumer = [f \in DOMAIN consumer |-> consumer[f]]
    /\ {"pc", "from", "upto", "todo", "left", "waking"} \subseteq DOMAIN consumer

\* The consumer signals the streams one after the other, while it holds the list
\* of subscriptions.
OneIsWoken ==
    /\ consumer.waking # {} => consumer.pc = "queue"
    /\ \A s, t \in consumer.waking : s = t

WakeInv == StreamsShape /\ ConsumerShape /\ OneIsWoken /\ NoLostWakeup

LEMMA ClosedStream ==
    /\ IsStream(Closed) /\ Closed.pending = {}
    /\ IsStream([Closed EXCEPT !.pc = "wait"]) /\ [Closed EXCEPT !.pc = "wait"].pending = {}
  BY DEF Closed, IsStream

\* One stream changes, and is still told of what is pending.
LEMMA StreamChanges ==
    ASSUME WakeInv, NEW s \in Stream, NEW x, IsStream(x),
           x.pending # {} => x.wake \/ x.pc = "drain" \/ s \in consumer.waking,
           stream' = [stream EXCEPT ![s] = x], UNCHANGED consumer
    PROVE  WakeInv'
<1>1. \A t \in Stream : stream'[t] = IF t = s THEN x ELSE stream[t]
  BY DEF WakeInv, StreamsShape
<1>2. StreamsShape'
  BY <1>1 DEF WakeInv, StreamsShape
<1>3. NoLostWakeup'
  BY <1>1 DEF WakeInv, NoLostWakeup
<1> QED
  BY <1>2, <1>3 DEF WakeInv, ConsumerShape, OneIsWoken

\* A step of the consumer that leaves nobody to wake.
LEMMA ConsumerMoves ==
    ASSUME WakeInv, consumer.waking = {}, UNCHANGED stream, ConsumerShape', consumer'.waking = {}
    PROVE  WakeInv'
  BY DEF WakeInv, StreamsShape, OneIsWoken, NoLostWakeup

\* NotifyUpdate queues and signals one stream at a time; the consumer's other steps
\* leave the streams alone and have nobody to wake.
LEMMA ConsumerStep ==
    ASSUME WakeInv, Consume
    PROVE  WakeInv'
<1>1. consumer.pc # "queue" => consumer.waking = {}
  BY DEF WakeInv, OneIsWoken
<1>2. ASSUME NEW n, FetchBatch(n) PROVE WakeInv'
  <2>1. ConsumerShape' /\ consumer'.waking = {}
    BY <1>2 DEF FetchBatch, Idle, ConsumerShape
  <2> QED
    BY <1>1, <1>2, <2>1, ConsumerMoves DEF FetchBatch
<1>3. CASE UpsertRawCandles
  <2>1. consumer' = [consumer EXCEPT !.pc = "hourly"] /\ UNCHANGED stream /\ consumer.pc = "raw"
    BY <1>3 DEF UpsertRawCandles
  <2>2. ConsumerShape' /\ consumer'.waking = {}
    BY <1>1, <2>1 DEF WakeInv, ConsumerShape
  <2> QED
    BY <1>1, <2>1, <2>2, ConsumerMoves
<1>4. CASE UpsertCandles
  <2>1. /\ consumer' = [consumer EXCEPT !.pc = "invalidate"]
        /\ UNCHANGED stream /\ consumer.pc = "hourly"
    BY <1>4 DEF UpsertCandles
  <2>2. ConsumerShape' /\ consumer'.waking = {}
    BY <1>1, <2>1 DEF WakeInv, ConsumerShape
  <2> QED
    BY <1>1, <2>1, <2>2, ConsumerMoves
<1>5. CASE Invalidate
  <2>1. ConsumerShape' /\ consumer'.waking = {}
    BY <1>1, <1>5 DEF Invalidate, WakeInv, ConsumerShape
  <2> QED
    BY <1>1, <1>5, <2>1, ConsumerMoves DEF Invalidate
<1>6. CASE NextPair
  <2>1. ConsumerShape' /\ consumer'.waking = {}
    BY <1>6 DEF NextPair, WakeInv, ConsumerShape
  <2> QED
    BY <1>6, <2>1, ConsumerMoves DEF NextPair
<1>7. CASE CommitMessages
  <2>1. ConsumerShape' /\ consumer'.waking = {}
    BY <1>7 DEF CommitMessages, Idle, ConsumerShape
  <2> QED
    BY <1>1, <1>7, <2>1, ConsumerMoves DEF CommitMessages
<1>8. ASSUME NEW s \in Stream, QueuePair(s) PROVE WakeInv'
  <2> DEFINE x == [stream[s] EXCEPT !.pending = @ \cup {Current}]
  <2>1. ConsumerShape' /\ OneIsWoken' /\ consumer'.waking = {s}
    BY <1>8 DEF QueuePair, WakeInv, ConsumerShape, OneIsWoken
  <2>2. stream' = [stream EXCEPT ![s] = x]
    BY <1>8 DEF QueuePair
  <2>3. IsStream(x)
    BY DEF WakeInv, StreamsShape, IsStream
  <2>4. \A t \in Stream : stream'[t] = IF t = s THEN x ELSE stream[t]
    BY <2>2 DEF WakeInv, StreamsShape
  <2> HIDE DEF x
  <2>5. StreamsShape'
    BY <2>2, <2>3, <2>4 DEF WakeInv, StreamsShape
  <2>6. consumer.waking = {}
    BY <1>8 DEF QueuePair
  <2>7. NoLostWakeup'
    BY <2>1, <2>4, <2>6 DEF WakeInv, NoLostWakeup
  <2> QED
    BY <2>1, <2>5, <2>7 DEF WakeInv
<1>9. ASSUME NEW s \in Stream, Wake(s) PROVE WakeInv'
  <2> DEFINE x == [stream[s] EXCEPT !.wake = TRUE]
  <2>1. ConsumerShape' /\ OneIsWoken' /\ consumer'.waking = {}
    BY <1>9 DEF Wake, WakeInv, ConsumerShape, OneIsWoken
  <2>2. stream' = [stream EXCEPT ![s] = x]
    BY <1>9 DEF Wake
  <2>3. IsStream(x) /\ x.wake
    BY DEF WakeInv, StreamsShape, IsStream
  <2>4. \A t \in Stream : stream'[t] = IF t = s THEN x ELSE stream[t]
    BY <2>2 DEF WakeInv, StreamsShape
  <2> HIDE DEF x
  <2>5. StreamsShape'
    BY <2>2, <2>3, <2>4 DEF WakeInv, StreamsShape
  <2>6. \A t \in consumer.waking : t = s
    BY <1>9 DEF Wake, WakeInv, OneIsWoken
  <2>7. NoLostWakeup'
    BY <2>3, <2>4, <2>6 DEF WakeInv, NoLostWakeup
  <2> QED
    BY <2>1, <2>5, <2>7 DEF WakeInv
<1> QED
  BY <1>2, <1>3, <1>4, <1>5, <1>6, <1>7, <1>8, <1>9 DEF Consume

\* A stream takes the signal before it empties its queue.
LEMMA StreamActs ==
    ASSUME WakeInv, NEW s \in Stream,
           StreamStep(s) \/ Subscribe(s) \/ Unsubscribe(s) \/ \E p \in Pair : SkipTicker(s, p)
    PROVE  WakeInv'
<1> DEFINE q == stream[s]
<1>1. IsStream(q)
  BY DEF WakeInv, StreamsShape
<1>2. q.pending # {} => q.wake \/ q.pc = "drain" \/ s \in consumer.waking
  BY DEF WakeInv, NoLostWakeup
<1>3. CASE Subscribe(s)
  <2>1. stream' = [stream EXCEPT ![s] = [Closed EXCEPT !.pc = "wait"]] /\ UNCHANGED consumer
    BY <1>3 DEF Subscribe
  <2> QED
    BY <2>1, ClosedStream, StreamChanges
<1>4. CASE Unsubscribe(s)
  <2>1. stream' = [stream EXCEPT ![s] = Closed] /\ UNCHANGED consumer
    BY <1>4 DEF Unsubscribe
  <2> QED
    BY <2>1, ClosedStream, StreamChanges
<1>5. CASE ReceiveUpdate(s)
  <2> DEFINE x == [q EXCEPT !.wake = FALSE, !.pc = "drain"]
  <2>1. stream' = [stream EXCEPT ![s] = x] /\ UNCHANGED consumer
    BY <1>5 DEF ReceiveUpdate, WakeInv, StreamsShape
  <2>2. IsStream(x) /\ x.pc = "drain"
    BY <1>1 DEF IsStream
  <2> HIDE DEF x
  <2> QED
    BY <2>1, <2>2, StreamChanges
<1>6. CASE DrainPendingPairs(s)
  <2> DEFINE x == [q EXCEPT !.todo = q.pending, !.pending = {}, !.pc = "load"]
  <2>1. stream' = [stream EXCEPT ![s] = x] /\ UNCHANGED consumer
    BY <1>6 DEF DrainPendingPairs, WakeInv, StreamsShape
  <2>2. IsStream(x) /\ x.pending = {}
    BY <1>1 DEF IsStream
  <2> HIDE DEF x
  <2> QED
    BY <2>1, <2>2, StreamChanges
<1>7. ASSUME NEW p \in Pair, LoadTicker(s, p) PROVE WakeInv'
  <2>1. q.pc = "load" /\ UNCHANGED consumer
    BY <1>7 DEF LoadTicker
  <2>2. CASE stream' = [stream EXCEPT ![s].todo = @ \ {p}, ![s].sent[p] = cache[p]]
    <3> DEFINE x == [q EXCEPT !.todo = q.todo \ {p}, !.sent[p] = cache[p]]
    <3>1. stream' = [stream EXCEPT ![s] = x]
      BY <2>2 DEF WakeInv, StreamsShape
    <3>2. IsStream(x) /\ x.pending = q.pending /\ x.wake = q.wake
      <4> HIDE DEF q
      <4> QED
        BY <1>1 DEF IsStream
    <3> HIDE DEF x
    <3> QED
      BY <1>2, <2>1, <3>1, <3>2, StreamChanges
  <2>3. CASE stream' = [stream EXCEPT ![s].todo = @ \ {p}, ![s].loading = {p},
                                      ![s].seen = Ticker(p), ![s].pc = "store"]
    <3> DEFINE x == [q EXCEPT !.todo = q.todo \ {p}, !.loading = {p}, !.seen = Ticker(p),
                              !.pc = "store"]
    <3>1. stream' = [stream EXCEPT ![s] = x]
      BY <2>3 DEF WakeInv, StreamsShape
    <3>2. IsStream(x) /\ x.pending = q.pending /\ x.wake = q.wake
      <4> HIDE DEF q
      <4> QED
        BY <1>1 DEF IsStream
    <3> HIDE DEF x
    <3> QED
      BY <1>2, <2>1, <3>1, <3>2, StreamChanges
  <2> QED
    BY <1>7, <2>2, <2>3 DEF LoadTicker
<1>8. ASSUME NEW p \in Pair, SkipTicker(s, p) PROVE WakeInv'
  <2> DEFINE x == [q EXCEPT !.todo = q.todo \ {p}]
  <2>1. stream' = [stream EXCEPT ![s] = x] /\ UNCHANGED consumer /\ q.pc = "load"
    BY <1>8 DEF SkipTicker
  <2>2. IsStream(x) /\ x.pending = q.pending /\ x.wake = q.wake
    BY <1>1 DEF IsStream
  <2> HIDE DEF x
  <2> QED
    BY <1>2, <2>1, <2>2, StreamChanges
<1>9. ASSUME NEW p \in Pair, StoreTicker(s, p) PROVE WakeInv'
  <2> DEFINE x == [q EXCEPT !.loading = {}, !.sent[p] = q.seen, !.seen = NoSnapshot, !.pc = "load"]
  <2>1. stream' = [stream EXCEPT ![s] = x] /\ UNCHANGED consumer /\ q.pc = "store"
    <3>1. stream' = [stream EXCEPT ![s].loading = {}, ![s].sent[p] = stream[s].seen,
                                   ![s].seen = NoSnapshot, ![s].pc = "load"]
      BY <1>9 DEF StoreTicker
    <3>2. s \in DOMAIN stream /\ stream = [z \in Stream |-> stream[z]]
      BY DEF WakeInv, StreamsShape
    <3>3. stream' = [stream EXCEPT ![s] = x]
      BY <3>1, <3>2
    <3> QED
      BY <1>9, <3>3 DEF StoreTicker
  <2>2. IsStream(x) /\ x.pending = q.pending /\ x.wake = q.wake
    <3> HIDE DEF q
    <3> QED
      BY <1>1 DEF IsStream
  <2> HIDE DEF x
  <2> QED
    BY <1>2, <2>1, <2>2, StreamChanges
<1>10. CASE Emit(s)
  <2> DEFINE x == [q EXCEPT !.pc = "wait"]
  <2>1. stream' = [stream EXCEPT ![s] = x] /\ UNCHANGED consumer /\ q.pc = "load"
    BY <1>10 DEF Emit
  <2>2. IsStream(x) /\ x.pending = q.pending /\ x.wake = q.wake
    BY <1>1 DEF IsStream
  <2> HIDE DEF x
  <2> QED
    BY <1>2, <2>1, <2>2, StreamChanges
<1> QED
  BY <1>3, <1>4, <1>5, <1>6, <1>7, <1>8, <1>9, <1>10 DEF StreamStep

LEMMA WakeStep == WakeInv /\ [Next]_vars => WakeInv'
<1> SUFFICES ASSUME WakeInv, [Next]_vars PROVE WakeInv'
  OBVIOUS
<1>1. ASSUME UNCHANGED <<stream, consumer>> PROVE WakeInv'
  BY <1>1 DEF WakeInv, StreamsShape, ConsumerShape, OneIsWoken, NoLostWakeup
<1>2. ASSUME NEW e, Publish(e) PROVE WakeInv'
  BY <1>1, <1>2 DEF Publish
<1>3. ASSUME NEW r, NEW p, StoreRead(r) \/ ReadTicker(r, p) PROVE WakeInv'
  BY <1>1, <1>3 DEF StoreRead, ReadTicker
<1>4. CASE Crash
  <2>1. consumer' = Idle /\ stream' = [s \in Stream |-> Closed]
    BY <1>4 DEF Crash
  <2>2. StreamsShape' /\ NoLostWakeup'
    BY <2>1, ClosedStream DEF StreamsShape, NoLostWakeup
  <2>3. ConsumerShape' /\ OneIsWoken'
    BY <2>1 DEF Idle, ConsumerShape, OneIsWoken
  <2> QED
    BY <2>2, <2>3 DEF WakeInv
<1>5. CASE UNCHANGED vars
  BY <1>1, <1>5 DEF vars
<1> QED
  BY <1>2, <1>3, <1>4, <1>5, ConsumerStep, StreamActs DEF Next

\* A ticker stream with changed pairs pending has a signal in its channel, is about
\* to drain them, or is the one NotifyUpdate is signalling: queuePair drops a
\* signal only when one is there, which stands for every pair queued until then.
THEOREM NoWakeupIsLost == Spec => []NoLostWakeup
<1>1. Init => WakeInv
  <2> SUFFICES ASSUME Init PROVE WakeInv
    OBVIOUS
  <2>1. consumer = Idle /\ stream = [s \in Stream |-> Closed]
    BY DEF Init
  <2>2. StreamsShape /\ NoLostWakeup
    BY <2>1, ClosedStream DEF StreamsShape, NoLostWakeup
  <2>3. ConsumerShape /\ OneIsWoken
    BY <2>1 DEF Idle, ConsumerShape, OneIsWoken
  <2> QED
    BY <2>2, <2>3 DEF WakeInv
<1>2. WakeInv => NoLostWakeup
  BY DEF WakeInv
<1> QED
  BY <1>1, <1>2, WakeStep, PTL DEF Spec

-----------------------------------------------------------------------------
(* Live prices: the tables *)

Keys == Bucket \X Source

TablesShape ==
    /\ raw = [p \in Pair |-> raw[p]] /\ hourly = [p \in Pair |-> hourly[p]]
    /\ \A p \in Pair : raw[p] = [k \in Keys |-> raw[p][k]]

\* Event n is about pair p and key k of the raw candles.
About(n, p, k) == topic[n].pair = p /\ topic[n].bucket = k[1] /\ topic[n].source = k[2]

\* No event after m up to n is.
NoneAbout(p, k, m, n) == \A j \in (m + 1)..n : ~About(j, p, k)

\* The raw candles of p are at least as new as event n: each is an event's that no
\* later one up to n replaces.  It may be newer than n: what a crash left of a
\* larger batch.
Reached(p, n) ==
    \A k \in Keys :
        \/ raw[p][k] = NoPrice /\ NoneAbout(p, k, 0, n)
        \/ \E j \in DOMAIN topic : /\ About(j, p, k)
                                   /\ raw[p][k] = topic[j].price
                                   /\ NoneAbout(p, k, j, n)

Consolidated(p) == Filled(raw[p]) # {} => hourly[p] = FromRaw(raw[p])

\* The hourly candle of p is right, or an event after n will have it rebuilt.
Settled(p, n) == Consolidated(p) \/ \E j \in (n + 1)..Len(topic) : topic[j].pair = p

\* The pairs of the groups that are left, the one in hand included.
Waiting == {topic[k].pair : k \in consumer.todo}

InHand(p, steps) == p = Current /\ consumer.pc \in steps

\* The batch in hand: what is not waiting any more has reached its end.
BatchOK ==
    consumer.pc # "idle" =>
        /\ consumer.from = committed
        /\ consumer.upto \in (committed + 1)..Len(topic)
        /\ consumer.todo \in SUBSET ((committed + 1)..consumer.upto)
        /\ consumer.pc = "commit" <=> consumer.todo = {}
        /\ \A p \in Pair : p \notin Waiting \/ InHand(p, {"hourly", "invalidate", "queue"})
              => Reached(p, consumer.upto)
        /\ \A p \in Pair : p \notin Waiting \/ InHand(p, {"invalidate", "queue"})
              => Settled(p, consumer.upto)

TablesOK == \A p \in Pair : Reached(p, committed) /\ Settled(p, committed)

FeedInv ==
    /\ topic \in Seq(Event) /\ committed \in 0..Len(topic)
    /\ ConsumerShape /\ TablesShape
    /\ TablesOK /\ BatchOK

-----------------------------------------------------------------------------
LEMMA TopicFacts ==
    ASSUME FeedInv
    PROVE  /\ Len(topic) \in Nat /\ DOMAIN topic = 1..Len(topic) /\ committed \in Nat
           /\ committed <= Len(topic)
           /\ \A n \in 1..Len(topic) : topic[n].pair \in Pair
<1>1. topic \in Seq(Event) /\ committed \in 0..Len(topic)
  BY DEF FeedInv
<1>2. Len(topic) \in Nat /\ DOMAIN topic = 1..Len(topic)
  BY <1>1
<1>3. \A n \in 1..Len(topic) : topic[n] \in Event
  BY <1>1, <1>2
<1>4. \A n \in 1..Len(topic) : topic[n].pair \in Pair
  BY <1>3 DEF Event
<1> QED
  BY <1>1, <1>2, <1>4

\* The group in hand.
LEMMA CurrentIs ==
    ASSUME FeedInv, consumer.pc # "idle", consumer.todo # {}
    PROVE  /\ Min(consumer.todo) \in consumer.todo
           /\ Min(consumer.todo) \in (committed + 1)..consumer.upto
           /\ consumer.upto \in Nat /\ consumer.upto <= Len(topic)
           /\ Current \in Waiting /\ Current \in Pair
<1> DEFINE T == consumer.todo
           m == committed + 1
           n == consumer.upto
<1>1. m \in Nat /\ n \in Nat /\ n <= Len(topic) /\ T \in SUBSET (m..n) /\ T # {}
  BY TopicFacts DEF FeedInv, BatchOK
<1>2. Min(T) \in T
  BY <1>1, IntervalMaxMin
<1>3. Min(T) \in m..n /\ Min(T) \in 1..Len(topic)
  BY <1>1, <1>2, TopicFacts
<1> QED
  BY <1>1, <1>2, <1>3, TopicFacts DEF Current, Waiting

\* A step that changes neither the topic, the offset nor the tables.
LEMMA TablesKept ==
    ASSUME UNCHANGED <<topic, raw, hourly>>
    PROVE  \A p, n : Reached(p, n)' = Reached(p, n) /\ Settled(p, n)' = Settled(p, n)
  BY DEF Reached, Settled, Consolidated, NoneAbout, About

LEMMA ConsumerGoesOn ==
    ASSUME FeedInv, UNCHANGED <<topic, committed, raw, hourly>>, ConsumerShape',
           consumer'.from = consumer.from, consumer'.upto = consumer.upto,
           consumer'.todo = consumer.todo,
           \/ consumer'.pc = consumer.pc
           \/ consumer.pc = "invalidate" /\ consumer'.pc = "queue"
    PROVE  FeedInv'
<1>1. Waiting' = Waiting /\ Current' = Current
  BY DEF Waiting, Current
<1>2. TablesShape' /\ TablesOK'
  BY TablesKept DEF FeedInv, TablesShape, TablesOK
<1>3. BatchOK'
  <2> SUFFICES ASSUME consumer'.pc # "idle" PROVE BatchOK'
    BY DEF BatchOK
  <2>1. consumer.pc # "idle"
    OBVIOUS
  <2>2. \A p \in Pair : InHand(p, {"hourly", "invalidate", "queue"})'
                            => InHand(p, {"hourly", "invalidate", "queue"})
    BY <1>1 DEF InHand
  <2>3. \A p \in Pair : InHand(p, {"invalidate", "queue"})' => InHand(p, {"invalidate", "queue"})
    BY <1>1 DEF InHand
  <2>4. consumer'.pc = "commit" <=> consumer'.todo = {}
    BY <2>1 DEF FeedInv, BatchOK
  <2>5. \A p \in Pair : p \notin Waiting' \/ InHand(p, {"hourly", "invalidate", "queue"})'
                          => Reached(p, consumer.upto)'
    BY <1>1, <2>1, <2>2, TablesKept DEF FeedInv, BatchOK
  <2>6. \A p \in Pair : p \notin Waiting' \/ InHand(p, {"invalidate", "queue"})'
                          => Settled(p, consumer.upto)'
    BY <1>1, <2>1, <2>3, TablesKept DEF FeedInv, BatchOK
  <2> QED
    BY <2>1, <2>4, <2>5, <2>6 DEF FeedInv, BatchOK
<1> QED
  BY <1>2, <1>3 DEF FeedInv
-----------------------------------------------------------------------------
(* The steps *)

\* An event more: what was said of the earlier ones stays true.
LEMMA PublishStep ==
    ASSUME FeedInv, NEW e \in Quote, Publish(e)
    PROVE  FeedInv'
<1>1. /\ topic' = Append(topic, e) /\ e \in Event
      /\ UNCHANGED <<committed, consumer, raw, hourly>>
  BY QuoteAssumption DEF Publish
<1>2. topic \in Seq(Event)
  BY DEF FeedInv
<1>3. topic' \in Seq(Event) /\ Len(topic') = Len(topic) + 1
      /\ \A n \in 1..Len(topic) : topic'[n] = topic[n]
  BY <1>1, <1>2, AppendProperties
<1>4. DOMAIN topic' = 1..(Len(topic) + 1) /\ DOMAIN topic = 1..Len(topic) /\ Len(topic) \in Nat
  BY <1>2, <1>3
<1>5. ASSUME NEW p \in Pair, NEW n \in 0..Len(topic), Reached(p, n) PROVE Reached(p, n)'
  <2> SUFFICES ASSUME NEW k \in Keys
               PROVE  \/ raw'[p][k] = NoPrice /\ NoneAbout(p, k, 0, n)'
                      \/ \E j \in DOMAIN topic' : /\ About(j, p, k)'
                                                  /\ raw'[p][k] = topic'[j].price
                                                  /\ NoneAbout(p, k, j, n)'
    BY DEF Reached
  <2>1. \A j \in 1..Len(topic) : About(j, p, k)' <=> About(j, p, k)
    BY <1>3 DEF About
  <2>2. \A m \in Nat : NoneAbout(p, k, m, n) => NoneAbout(p, k, m, n)'
    BY <1>4, <2>1 DEF NoneAbout
  <2>3. CASE raw[p][k] = NoPrice /\ NoneAbout(p, k, 0, n)
    BY <1>1, <2>2, <2>3
  <2>4. ASSUME NEW j \in DOMAIN topic, About(j, p, k), raw[p][k] = topic[j].price,
               NoneAbout(p, k, j, n)
        PROVE  /\ j \in DOMAIN topic' /\ About(j, p, k)' /\ raw'[p][k] = topic'[j].price
               /\ NoneAbout(p, k, j, n)'
    BY <1>1, <1>3, <1>4, <2>1, <2>2, <2>4
  <2> QED
    BY <1>5, <2>3, <2>4 DEF Reached
<1>6. ASSUME NEW p \in Pair, NEW n \in 0..Len(topic), Settled(p, n) PROVE Settled(p, n)'
  <2>1. Consolidated(p) => Consolidated(p)'
    BY <1>1 DEF Consolidated
  <2>2. \A j \in (n + 1)..Len(topic) : topic[j].pair = p =>
            j \in (n + 1)..Len(topic') /\ topic'[j].pair = p
    BY <1>3, <1>4
  <2> QED
    BY <1>6, <2>1, <2>2 DEF Settled
<1>7. committed' \in 0..Len(topic') /\ TablesOK'
  BY <1>1, <1>3, <1>4, <1>5, <1>6 DEF FeedInv, TablesOK
<1>8. BatchOK'
  <2> SUFFICES ASSUME consumer.pc # "idle" PROVE BatchOK'
    BY <1>1 DEF BatchOK
  <2>1. /\ consumer.upto \in (committed + 1)..Len(topic)
        /\ consumer.todo \in SUBSET ((committed + 1)..consumer.upto)
        /\ committed \in Nat
    BY TopicFacts DEF FeedInv, BatchOK
  <2>2. \A k \in consumer.todo : topic'[k] = topic[k]
    BY <1>3, <1>4, <2>1
  <2>3. Waiting' = Waiting
    BY <1>1, <2>2 DEF Waiting
  <2>4. consumer.pc \in {"hourly", "invalidate", "queue"} => Current' = Current
    <3>1. consumer.pc \in {"hourly", "invalidate", "queue"} => consumer.todo # {}
      BY DEF FeedInv, BatchOK
    <3> QED
      BY <1>1, <2>2, <3>1, CurrentIs DEF Current
  <2>5. \A p \in Pair : /\ InHand(p, {"hourly", "invalidate", "queue"})'
                              => InHand(p, {"hourly", "invalidate", "queue"})
                        /\ InHand(p, {"invalidate", "queue"})' => InHand(p, {"invalidate", "queue"})
    BY <1>1, <2>4 DEF InHand
  <2>6. consumer.upto \in 0..Len(topic) /\ consumer.upto \in (committed + 1)..Len(topic')
    BY <1>3, <1>4, <2>1
  <2>7. \A p \in Pair : p \notin Waiting' \/ InHand(p, {"hourly", "invalidate", "queue"})'
                          => Reached(p, consumer.upto)'
    <3> SUFFICES ASSUME NEW p \in Pair,
                        p \notin Waiting' \/ InHand(p, {"hourly", "invalidate", "queue"})'
                 PROVE  Reached(p, consumer.upto)'
      OBVIOUS
    <3>1. Reached(p, consumer.upto)
      BY <2>3, <2>5 DEF FeedInv, BatchOK
    <3> QED
      BY <1>1, <1>5, <2>6, <3>1 DEF Reached
  <2>8. \A p \in Pair : p \notin Waiting' \/ InHand(p, {"invalidate", "queue"})'
                          => Settled(p, consumer.upto)'
    <3> SUFFICES ASSUME NEW p \in Pair,
                        p \notin Waiting' \/ InHand(p, {"invalidate", "queue"})'
                 PROVE  Settled(p, consumer.upto)'
      OBVIOUS
    <3>1. Settled(p, consumer.upto)
      BY <2>3, <2>5 DEF FeedInv, BatchOK
    <3> QED
      BY <1>1, <1>6, <2>6, <3>1 DEF Settled
  <2> QED
    BY <1>1, <2>1, <2>6, <2>7, <2>8 DEF FeedInv, BatchOK
<1> QED
  BY <1>1, <1>3, <1>7, <1>8 DEF FeedInv, ConsumerShape, TablesShape

\* A pair with no group in a batch has no event in it.
LEMMA GroupsAreAll ==
    ASSUME FeedInv, NEW m \in 0..Len(topic), NEW n \in 0..Len(topic), NEW j \in (m + 1)..n
    PROVE  \E k \in Groups(m, n) : topic[k].pair = topic[j].pair
<1> DEFINE S == {i \in (m + 1)..n : topic[i].pair = topic[j].pair}
<1>1. m + 1 \in Nat /\ n \in Nat /\ j \in S /\ S \in SUBSET ((m + 1)..n)
  BY TopicFacts
<1>2. Min(S) \in S /\ Min(S) \in Nat /\ \A y \in S : Min(S) <= y
  BY <1>1, IntervalMaxMin
<1>3. \A i \in (m + 1)..(Min(S) - 1) : topic[i].pair # topic[j].pair
  BY <1>1, <1>2
<1>4. Min(S) \in Groups(m, n)
  BY <1>2, <1>3 DEF Groups
<1> QED
  BY <1>2, <1>4

LEMMA FetchStep ==
    ASSUME FeedInv, NEW n \in 1..MaxEvents, FetchBatch(n)
    PROVE  FeedInv'
<1> DEFINE c == committed
<1>1. /\ UNCHANGED <<topic, committed, raw, hourly>>
      /\ consumer' = [Idle EXCEPT !.pc = "raw", !.from = c, !.upto = n, !.todo = Groups(c, n)]
      /\ c < n /\ n <= Len(topic)
  BY DEF FetchBatch
<1>2. c \in Nat /\ n \in Nat /\ Len(topic) \in Nat
  BY TopicFacts, FeedAssumption
<1>3. /\ ConsumerShape' /\ consumer'.pc = "raw" /\ consumer'.from = c /\ consumer'.upto = n
      /\ consumer'.todo = Groups(c, n)
  BY <1>1 DEF Idle, ConsumerShape
<1>4. TablesShape' /\ TablesOK'
  BY <1>1, TablesKept DEF FeedInv, TablesShape, TablesOK
<1>5. Groups(c, n) \in SUBSET ((c + 1)..n) /\ Groups(c, n) # {}
  <2>1. c + 1 \in (c + 1)..n
    BY <1>1, <1>2
  <2>2. Groups(c, n) # {}
    BY <1>1, <1>2, <2>1, GroupsAreAll
  <2> QED
    BY <2>2 DEF Groups
<1>6. ASSUME NEW p \in Pair, p \notin Waiting', NEW j \in (c + 1)..n PROVE topic[j].pair # p
  <2>1. PICK k \in Groups(c, n) : topic[k].pair = topic[j].pair
    BY <1>1, <1>2, <1>6, GroupsAreAll
  <2>2. topic[k].pair \in Waiting'
    BY <1>1, <1>3 DEF Waiting
  <2> QED
    BY <1>6, <2>1, <2>2
<1>7. ASSUME NEW p \in Pair, p \notin Waiting' PROVE Reached(p, n) /\ Settled(p, n)
  <2>1. Reached(p, c) /\ Settled(p, c)
    BY DEF FeedInv, TablesOK
  <2>2. Reached(p, n)
    <3>1. \A k, m : NoneAbout(p, k, m, c) => NoneAbout(p, k, m, n)
      <4> SUFFICES ASSUME NEW k, NEW m, NoneAbout(p, k, m, c), NEW j \in (m + 1)..n
                   PROVE  ~About(j, p, k)
        BY DEF NoneAbout
      <4>1. CASE j \in (m + 1)..c
        BY <4>1 DEF NoneAbout
      <4>2. CASE j \in (c + 1)..n
        BY <1>6, <1>7, <4>2 DEF About
      <4> QED
        BY <1>2, <4>1, <4>2
    <3> QED
      BY <2>1, <3>1 DEF Reached
  <2>3. Settled(p, n)
    <3>1. \A j \in (c + 1)..Len(topic) : topic[j].pair = p => j \in (n + 1)..Len(topic)
      BY <1>1, <1>2, <1>6, <1>7
    <3> QED
      BY <2>1, <3>1 DEF Settled
  <2> QED
    BY <2>2, <2>3
<1>8. BatchOK'
  <2>1. \A p \in Pair : ~InHand(p, {"hourly", "invalidate", "queue"})'
                        /\ ~InHand(p, {"invalidate", "queue"})'
    BY <1>3 DEF InHand
  <2>2. \A p \in Pair : p \notin Waiting'
                          => Reached(p, consumer.upto)' /\ Settled(p, consumer.upto)'
    BY <1>1, <1>3, <1>7, TablesKept
  <2> QED
    BY <1>1, <1>2, <1>3, <1>5, <2>1, <2>2 DEF BatchOK
<1> QED
  BY <1>1, <1>3, <1>4, <1>8 DEF FeedInv

\* The events of the group in hand, all of the batch's about its pair, are written
\* in one transaction; the last one of a bucket and source is the one that stays.
LEMMA UpsertRawStep ==
    ASSUME FeedInv, UpsertRawCandles
    PROVE  FeedInv'
<1>1. /\ consumer.pc = "raw" /\ consumer.todo # {} /\ consumer.from = committed
      /\ consumer' = [consumer EXCEPT !.pc = "hourly"] /\ UNCHANGED <<topic, committed, hourly>>
  BY DEF UpsertRawCandles, FeedInv, BatchOK
<1>2. PICK p \in Pair : p = Current
  BY <1>1, CurrentIs
<1>3. PICK c \in Nat : c = committed
  BY TopicFacts
<1>4. PICK u \in Nat : u = consumer.upto
  BY <1>1, CurrentIs
<1>5. c < u /\ u <= Len(topic) /\ Len(topic) \in Nat /\ DOMAIN topic = 1..Len(topic)
  BY <1>1, <1>3, <1>4, TopicFacts DEF FeedInv, BatchOK
<1> DEFINE At(k) == {n \in (c + 1)..u : About(n, p, k)}
<1>6. raw' = [raw EXCEPT ![p] = [k \in Keys |->
                IF At(k) = {} THEN raw[p][k] ELSE topic[Max(At(k))].price]]
  BY <1>1, <1>2, <1>3, <1>4 DEF UpsertRawCandles, About, Keys
<1>7. /\ raw'[p] = [k \in Keys |-> IF At(k) = {} THEN raw[p][k] ELSE topic[Max(At(k))].price]
      /\ \A q \in Pair \ {p} : raw'[q] = raw[q]
      /\ TablesShape'
  BY <1>1, <1>6 DEF FeedInv, TablesShape
<1> HIDE DEF At
<1>8. Reached(p, c) /\ \A q \in Pair : Reached(q, c) /\ Settled(q, c)
  BY <1>3 DEF FeedInv, TablesOK
<1>9. Reached(p, u)'
  <2> SUFFICES ASSUME NEW k \in Keys
               PROVE  \/ raw'[p][k] = NoPrice /\ NoneAbout(p, k, 0, u)
                      \/ \E j \in DOMAIN topic : /\ About(j, p, k)
                                                 /\ raw'[p][k] = topic[j].price
                                                 /\ NoneAbout(p, k, j, u)
    BY <1>1 DEF Reached, About, NoneAbout
  <2>1. CASE At(k) = {}
    <3>1. raw'[p][k] = raw[p][k]
      BY <1>7, <2>1
    <3>2. \A m \in Nat : NoneAbout(p, k, m, c) => NoneAbout(p, k, m, u)
      <4> SUFFICES ASSUME NEW m \in Nat, NoneAbout(p, k, m, c), NEW j \in (m + 1)..u
                   PROVE  ~About(j, p, k)
        BY DEF NoneAbout
      <4>1. j \in (m + 1)..c \/ j \in (c + 1)..u
        BY <1>5
      <4> QED
        BY <2>1, <4>1 DEF NoneAbout, At
    <3>3. \A j \in DOMAIN topic : j \in Nat
      BY <1>5
    <3> QED
      BY <1>8, <3>1, <3>2, <3>3 DEF Reached
  <2>2. CASE At(k) # {}
    <3>1. At(k) \in SUBSET ((c + 1)..u) /\ c + 1 \in Nat
      BY DEF At
    <3>2. Max(At(k)) \in At(k) /\ Max(At(k)) \in Nat /\ \A y \in At(k) : y <= Max(At(k))
      BY <2>2, <3>1, IntervalMaxMin
    <3>3. PICK j \in At(k) : j = Max(At(k))
      BY <3>2
    <3>4. j \in (c + 1)..u /\ About(j, p, k) /\ j \in DOMAIN topic
      BY <1>5, <3>3 DEF At
    <3>5. NoneAbout(p, k, j, u)
      BY <3>2, <3>3, <3>4 DEF NoneAbout, At
    <3>6. raw'[p][k] = topic[j].price
      BY <1>7, <2>2, <3>3
    <3> QED
      BY <3>4, <3>5, <3>6
  <2> QED
    BY <2>1, <2>2
<1>10. \A q \in Pair \ {p} : \A n : Reached(q, n)' = Reached(q, n) /\ Settled(q, n)' = Settled(q, n)
  BY <1>1, <1>7 DEF Reached, Settled, Consolidated, About, NoneAbout
<1>11. ConsumerShape' /\ consumer'.pc = "hourly" /\ consumer'.from = consumer.from
       /\ consumer'.upto = consumer.upto /\ consumer'.todo = consumer.todo
  BY <1>1 DEF FeedInv, ConsumerShape
<1>12. Reached(p, c)'
  <2>1. \A k : \A j \in Nat : NoneAbout(p, k, j, u)' => NoneAbout(p, k, j, c)'
    BY <1>5 DEF NoneAbout
  <2>2. \A j \in DOMAIN topic' : j \in Nat
    BY <1>1, <1>5
  <2> QED
    BY <1>9, <2>1, <2>2 DEF Reached
<1>13. Settled(p, c)'
  <2>1. Min(consumer.todo) \in (c + 1)..u /\ topic[Min(consumer.todo)].pair = p
    BY <1>1, <1>2, <1>3, <1>4, CurrentIs DEF Current
  <2>2. Min(consumer.todo) \in (c + 1)..Len(topic)
    BY <1>5, <2>1
  <2> QED
    BY <1>1, <2>1, <2>2 DEF Settled
<1>14. TablesOK'
  <2>1. \A q \in Pair : Reached(q, c)' /\ Settled(q, c)'
    BY <1>8, <1>10, <1>12, <1>13
  <2> QED
    BY <1>1, <1>3, <2>1 DEF TablesOK, Reached, Settled
<1>15. BatchOK'
  <2>1. Waiting' = Waiting /\ Current' = p
    BY <1>1, <1>2, <1>11 DEF Waiting, Current
  <2>2. p \in Waiting
    BY <1>1, <1>2, CurrentIs
  <2>3. \A q \in Pair : q \notin Waiting' \/ InHand(q, {"hourly", "invalidate", "queue"})'
            => Reached(q, u)'
    BY <1>1, <1>4, <1>9, <1>10, <2>1, <2>2 DEF FeedInv, BatchOK, InHand
  <2>4. \A q \in Pair : q \notin Waiting' \/ InHand(q, {"invalidate", "queue"})'
            => Settled(q, u)'
    BY <1>1, <1>4, <1>10, <1>11, <2>1, <2>2 DEF FeedInv, BatchOK, InHand
  <2>5. /\ consumer.upto \in (committed + 1)..Len(topic)
        /\ consumer.todo \in SUBSET ((committed + 1)..consumer.upto)
    BY <1>1 DEF FeedInv, BatchOK
  <2> QED
    BY <1>1, <1>4, <1>11, <2>3, <2>4, <2>5 DEF BatchOK, Reached, Settled
<1> QED
  BY <1>1, <1>7, <1>11, <1>14, <1>15 DEF FeedInv

\* The hourly candle is rebuilt from the raw candles that are there.
LEMMA UpsertHourlyStep ==
    ASSUME FeedInv, UpsertCandles
    PROVE  FeedInv'
<1>1. /\ consumer.pc = "hourly" /\ consumer.todo # {} /\ consumer.from = committed
      /\ consumer' = [consumer EXCEPT !.pc = "invalidate"] /\ UNCHANGED <<topic, committed, raw>>
  BY DEF UpsertCandles, FeedInv, BatchOK
<1>2. PICK p \in Pair : p = Current
  BY <1>1, CurrentIs
<1>3. hourly' = [hourly EXCEPT ![p] = FromRaw(raw[p])]
  BY <1>2 DEF UpsertCandles
<1>4. /\ hourly'[p] = FromRaw(raw[p]) /\ \A q \in Pair \ {p} : hourly'[q] = hourly[q]
      /\ TablesShape'
  BY <1>1, <1>3 DEF FeedInv, TablesShape
<1>5. ConsumerShape' /\ consumer'.pc = "invalidate" /\ consumer'.from = consumer.from
       /\ consumer'.upto = consumer.upto /\ consumer'.todo = consumer.todo
  BY <1>1 DEF FeedInv, ConsumerShape
<1>6. \A q, n : Reached(q, n)' = Reached(q, n)
  BY <1>1 DEF Reached, About, NoneAbout
<1>7. Consolidated(p)'
  BY <1>1, <1>4 DEF Consolidated
<1>8. \A n : Settled(p, n)'
  BY <1>7 DEF Settled
<1>9. \A q \in Pair \ {p} : \A n : Settled(q, n)' = Settled(q, n)
  BY <1>1, <1>4 DEF Settled, Consolidated
<1>10. TablesOK'
  <2>1. \A q \in Pair : Reached(q, committed)' /\ Settled(q, committed)'
    <3> SUFFICES ASSUME NEW q \in Pair PROVE Reached(q, committed)' /\ Settled(q, committed)'
      OBVIOUS
    <3>1. Reached(q, committed) /\ Settled(q, committed)
      BY DEF FeedInv, TablesOK
    <3>2. PICK c : c = committed
      OBVIOUS
    <3>3. Reached(q, c)' /\ Settled(q, c)'
      BY <1>6, <1>8, <1>9, <3>1, <3>2
    <3> QED
      BY <1>1, <3>2, <3>3 DEF Reached, Settled
  <2> QED
    BY <2>1 DEF TablesOK
<1>11. BatchOK'
  <2>1. Waiting' = Waiting /\ Current' = p
    BY <1>1, <1>2, <1>5 DEF Waiting, Current
  <2>2. p \in Waiting
    BY <1>1, <1>2, CurrentIs
  <2>3. PICK u : u = consumer.upto
    OBVIOUS
  <2>4. \A q \in Pair : q \notin Waiting' \/ InHand(q, {"hourly", "invalidate", "queue"})'
            => Reached(q, u)'
    BY <1>1, <1>2, <1>6, <2>1, <2>2, <2>3 DEF FeedInv, BatchOK, InHand
  <2>5. \A q \in Pair : q \notin Waiting' \/ InHand(q, {"invalidate", "queue"})'
            => Settled(q, u)'
    BY <1>1, <1>8, <1>9, <2>1, <2>2, <2>3 DEF FeedInv, BatchOK, InHand
  <2>6. /\ consumer.upto \in (committed + 1)..Len(topic)
        /\ consumer.todo \in SUBSET ((committed + 1)..consumer.upto)
    BY <1>1 DEF FeedInv, BatchOK
  <2> QED
    BY <1>1, <1>5, <2>3, <2>4, <2>5, <2>6 DEF BatchOK, Reached, Settled
<1> QED
  BY <1>1, <1>4, <1>5, <1>10, <1>11 DEF FeedInv

\* The group in hand is done.
LEMMA NextPairStep ==
    ASSUME FeedInv, NextPair
    PROVE  FeedInv'
<1> DEFINE rest == consumer.todo \ {Min(consumer.todo)}
<1>1. /\ consumer.pc = "queue" /\ consumer.todo # {} /\ consumer.from = committed
      /\ consumer' = [consumer EXCEPT !.todo = rest, !.pc = IF rest = {} THEN "commit" ELSE "raw"]
      /\ UNCHANGED <<topic, committed, raw, hourly>>
  BY DEF NextPair, FeedInv, BatchOK
<1>2. /\ ConsumerShape' /\ consumer'.pc = (IF rest = {} THEN "commit" ELSE "raw")
      /\ consumer'.from = consumer.from /\ consumer'.upto = consumer.upto /\ consumer'.todo = rest
  BY <1>1 DEF FeedInv, ConsumerShape
<1>3. TablesShape' /\ TablesOK'
  BY <1>1, TablesKept DEF FeedInv, TablesShape, TablesOK
<1>4. \A p \in Pair : p \notin Waiting' => p \notin Waiting \/ p = Current
  BY <1>1, <1>2 DEF Waiting, Current
<1>5. \A p \in Pair : ~InHand(p, {"hourly", "invalidate", "queue"})'
                      /\ ~InHand(p, {"invalidate", "queue"})'
  BY <1>2 DEF InHand
<1>6. \A p \in Pair : p \notin Waiting' => Reached(p, consumer.upto) /\ Settled(p, consumer.upto)
  BY <1>1, <1>4 DEF FeedInv, BatchOK, InHand
<1>7. \A p \in Pair : p \notin Waiting' => Reached(p, consumer.upto)' /\ Settled(p, consumer.upto)'
  BY <1>1, <1>2, <1>6, TablesKept
<1>8. /\ consumer.upto \in (committed + 1)..Len(topic)
      /\ consumer.todo \in SUBSET ((committed + 1)..consumer.upto)
  BY <1>1 DEF FeedInv, BatchOK
<1>9. BatchOK'
  BY <1>1, <1>2, <1>5, <1>7, <1>8 DEF BatchOK
<1> QED
  BY <1>1, <1>2, <1>3, <1>9 DEF FeedInv

\* The consumer is idle after the commit and after a crash.
LEMMA IdleStep ==
    ASSUME FeedInv, CommitMessages \/ Crash
    PROVE  FeedInv'
<1>1. consumer' = Idle /\ UNCHANGED <<topic, raw, hourly>>
  BY DEF CommitMessages, Crash
<1>2. ConsumerShape' /\ BatchOK'
  BY <1>1 DEF Idle, ConsumerShape, BatchOK
<1>3. /\ committed' \in 0..Len(topic)
      /\ \A p \in Pair : Reached(p, committed') /\ Settled(p, committed')
  <2>1. CASE Crash
    BY <2>1 DEF Crash, FeedInv, TablesOK
  <2>2. CASE CommitMessages
    <3>1. consumer.pc = "commit" /\ committed' = consumer.upto
      BY <2>2 DEF CommitMessages
    <3>2. consumer.todo = {} /\ consumer.upto \in (committed + 1)..Len(topic)
      BY <3>1 DEF FeedInv, BatchOK
    <3>3. Waiting = {}
      BY <3>2 DEF Waiting
    <3>4. \A p \in Pair : Reached(p, consumer.upto) /\ Settled(p, consumer.upto)
      BY <3>1, <3>3 DEF FeedInv, BatchOK
    <3> QED
      BY <3>1, <3>2, <3>4, TopicFacts
  <2> QED
    BY <2>1, <2>2
<1>4. TablesShape' /\ TablesOK'
  BY <1>1, <1>3, TablesKept DEF FeedInv, TablesShape, TablesOK
<1> QED
  BY <1>1, <1>2, <1>3, <1>4 DEF FeedInv

LEMMA FeedStep == FeedInv /\ [Next]_vars => FeedInv'
<1> SUFFICES ASSUME FeedInv, [Next]_vars PROVE FeedInv'
  OBVIOUS
<1>1. ASSUME UNCHANGED <<topic, committed, consumer, raw, hourly>> PROVE FeedInv'
  <2>1. ConsumerShape'
    BY <1>1 DEF FeedInv, ConsumerShape
  <2> QED
    BY <1>1, <2>1, ConsumerGoesOn
<1>2. CASE Invalidate
  <2>1. consumer' = [consumer EXCEPT !.pc = "queue", !.left = Open] /\ consumer.pc = "invalidate"
        /\ UNCHANGED <<topic, committed, raw, hourly>>
    BY <1>2 DEF Invalidate
  <2>2. /\ ConsumerShape' /\ consumer'.pc = "queue" /\ consumer'.from = consumer.from
        /\ consumer'.upto = consumer.upto /\ consumer'.todo = consumer.todo
    BY <2>1 DEF FeedInv, ConsumerShape
  <2> QED
    BY <2>1, <2>2, ConsumerGoesOn
<1>3. ASSUME NEW s \in Stream, QueuePair(s) \/ Wake(s) PROVE FeedInv'
  <2>1. UNCHANGED <<topic, committed, raw, hourly>>
    BY <1>3 DEF QueuePair, Wake
  <2>2. /\ ConsumerShape' /\ consumer'.pc = consumer.pc /\ consumer'.from = consumer.from
        /\ consumer'.upto = consumer.upto /\ consumer'.todo = consumer.todo
    BY <1>3 DEF FeedInv, ConsumerShape, QueuePair, Wake
  <2> QED
    BY <2>1, <2>2, ConsumerGoesOn
<1>4. CASE Consume
  BY <1>2, <1>3, <1>4, FetchStep, UpsertRawStep, UpsertHourlyStep, NextPairStep, IdleStep
     DEF Consume
<1>5. ASSUME NEW s \in Stream, StreamStep(s) \/ Subscribe(s) \/ Unsubscribe(s) PROVE FeedInv'
  BY <1>1, <1>5 DEF StreamStep, Subscribe, Unsubscribe, ReceiveUpdate, DrainPendingPairs,
                    LoadTicker, StoreTicker, Emit
<1>6. ASSUME NEW s \in Stream, NEW p \in Pair, SkipTicker(s, p) PROVE FeedInv'
  BY <1>1, <1>6 DEF SkipTicker
<1>7. ASSUME NEW r \in Reader, StoreRead(r) \/ \E p \in Pair : ReadTicker(r, p) PROVE FeedInv'
  BY <1>1, <1>7 DEF StoreRead, ReadTicker
<1>8. CASE UNCHANGED vars
  BY <1>1, <1>8 DEF vars
<1> QED
  BY <1>4, <1>5, <1>6, <1>7, <1>8, PublishStep, IdleStep DEF Next

\* What has reached the end of the topic is what was published.
LEMMA ReachedTheEnd ==
    ASSUME FeedInv, NEW p \in Pair, Reached(p, Len(topic))
    PROVE  raw[p] = Published(p)
<1> DEFINE at(k) == {n \in DOMAIN topic : /\ topic[n].pair = p
                                          /\ topic[n].bucket = k[1]
                                          /\ topic[n].source = k[2]}
<1>1. Len(topic) \in Nat /\ DOMAIN topic = 1..Len(topic)
  BY TopicFacts
<1>2. ASSUME NEW k \in Keys
      PROVE  raw[p][k] = IF at(k) = {} THEN NoPrice ELSE topic[Max(at(k))].price
  <2>1. \A n \in DOMAIN topic : n \in at(k) <=> About(n, p, k)
    BY DEF About
  <2>2. at(k) \in SUBSET (1..Len(topic))
    BY <1>1
  <2> HIDE DEF at
  <2>3. CASE raw[p][k] = NoPrice /\ NoneAbout(p, k, 0, Len(topic))
    <3>1. at(k) = {}
      BY <1>1, <2>1, <2>2, <2>3 DEF NoneAbout
    <3> QED
      BY <2>3, <3>1
  <2>4. ASSUME NEW j \in DOMAIN topic, About(j, p, k), raw[p][k] = topic[j].price,
               NoneAbout(p, k, j, Len(topic))
        PROVE  raw[p][k] = IF at(k) = {} THEN NoPrice ELSE topic[Max(at(k))].price
    <3>1. j \in at(k) /\ j \in 1..Len(topic)
      BY <1>1, <2>1, <2>4
    <3>2. \A n \in at(k) : n <= j
      BY <1>1, <2>1, <2>2, <2>4, <3>1 DEF NoneAbout
    <3>3. Max(at(k)) \in at(k) /\ Max(at(k)) \in Nat /\ \A y \in at(k) : y <= Max(at(k))
      BY <1>1, <2>2, <3>1, IntervalMaxMin
    <3>4. Max(at(k)) = j
      BY <3>1, <3>2, <3>3
    <3> QED
      BY <2>4, <3>1, <3>4
  <2> QED
    BY <2>3, <2>4 DEF Reached
<1>3. raw[p] = [k \in Keys |-> raw[p][k]]
  BY DEF FeedInv, TablesShape
<1>4. Published(p) = [k \in Keys |-> IF at(k) = {} THEN NoPrice ELSE topic[Max(at(k))].price]
  BY DEF Published, Keys
<1> HIDE DEF at
<1> QED
  BY <1>2, <1>3, <1>4

\* Once the consumer group's offset is at the end of the topic, raw_candles hold
\* the last price published per pair, bucket and source and candles_1h their
\* consolidation, although a crash may leave a batch half written and its events
\* are all fetched again.
THEOREM FeedsConverge == Spec => []FeedConverges
<1>1. Init => FeedInv
  <2> SUFFICES ASSUME Init PROVE FeedInv
    OBVIOUS
  <2>1. topic = << >> /\ committed = 0 /\ consumer = Idle /\ raw = [p \in Pair |-> NoRaw]
        /\ hourly = [p \in Pair |-> NoCandle]
    BY DEF Init
  <2>2. topic \in Seq(Event) /\ Len(topic) = 0
    BY <2>1
  <2>3. ConsumerShape /\ BatchOK
    BY <2>1 DEF Idle, ConsumerShape, BatchOK
  <2>4. TablesShape /\ \A p \in Pair, k \in Keys : raw[p][k] = NoPrice
    BY <2>1 DEF TablesShape, NoRaw, Keys
  <2>5. \A p \in Pair : Reached(p, 0)
    BY <2>4 DEF Reached, NoneAbout
  <2>6. \A p \in Pair : Filled(raw[p]) = {}
    BY <2>1 DEF Filled, NoRaw
  <2>7. TablesOK
    BY <2>1, <2>5, <2>6 DEF TablesOK, Settled, Consolidated
  <2> QED
    BY <2>1, <2>2, <2>3, <2>4, <2>7 DEF FeedInv
<1>2. FeedInv => FeedConverges
  <2> SUFFICES ASSUME FeedInv, committed = Len(topic), NEW p \in Pair
               PROVE  /\ raw[p] = Published(p)
                      /\ Filled(raw[p]) # {} => hourly[p] = FromRaw(raw[p])
    BY DEF FeedConverges
  <2>1. Reached(p, Len(topic)) /\ Settled(p, Len(topic))
    BY DEF FeedInv, TablesOK
  <2>2. Consolidated(p)
    BY <2>1, TopicFacts DEF Settled
  <2> QED
    BY <2>1, <2>2, ReachedTheEnd DEF Consolidated
<1> QED
  BY <1>1, <1>2, FeedStep, PTL DEF Spec
=============================================================================
