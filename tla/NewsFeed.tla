------------------------------ MODULE NewsFeed ------------------------------
(***************************************************************************)
(* Headlines: news_fetch tasks read one RSS source each, upsert what they  *)
(* found and wake the streams of /api/v1/news/stream.  A row is known by   *)
(* its id and its publication time; title, link and source are overwritten *)
(* with the time.  A feed that cannot be read or is empty changes nothing. *)
(***************************************************************************)
EXTENDS Naturals, FiniteSets

CONSTANTS
    NewsSource,    \* worker.NewsSources: one periodic task id per source
    Headline,      \* ids: an item's guid, or its link
    LastStamp,     \* publication times are 1..LastStamp
    NewsLimit,     \* List(ctx, 50)
    NewsStream,    \* open connections
    NullNews       \* the payload {"news": null}

ASSUME NewsAssumption == LastStamp \in Nat /\ NewsLimit \in Nat \ {0}

VARIABLES
    news,          \* published_at of the row of a headline, 0 without a row
    fetcher,       \* the worker on a source's task: pc and the items it read
    newsStream     \* a connection: pc, its wake-up channel, the list it shows

newsVars == <<news, fetcher, newsStream>>

Stamp == 1..LastStamp
Items == UNION {[H -> Stamp] : H \in SUBSET Headline}
NoItems == [h \in {} |-> 0]
NoFetch == [pc |-> "idle", items |-> NoItems]
NewsClosed == [pc |-> "closed", signal |-> FALSE, view |-> NullNews]

-----------------------------------------------------------------------------
(* worker.NewsExecutor, service.NewsService.FetchSource *)

\* FetchRSS: a source's items; one without a date that parses is published now.
\* Its task has one id, so one worker has it.
FetchRSS(s, items) ==
    /\ fetcher[s].pc = "idle"
    /\ items # NoItems
    /\ fetcher' = [fetcher EXCEPT ![s] = [pc |-> "upsert", items |-> items]]
    /\ UNCHANGED <<news, newsStream>>

\* The transaction commits all items: a known headline gets the new time.
UpsertNews(s) ==
    /\ fetcher[s].pc = "upsert"
    /\ news' = [h \in Headline |->
                   IF h \in DOMAIN fetcher[s].items THEN fetcher[s].items[h] ELSE news[h]]
    /\ fetcher' = [fetcher EXCEPT ![s] = [pc |-> "notify", items |-> NoItems]]
    /\ UNCHANGED newsStream

\* A statement fails: the transaction is rolled back and the task fails.
UpsertFails(s) ==
    /\ fetcher[s].pc = "upsert"
    /\ fetcher' = [fetcher EXCEPT ![s] = NoFetch]
    /\ UNCHANGED <<news, newsStream>>

\* A subscriber's channel holds one signal; one more is dropped.
Signalled(c) == IF c.pc = "closed" THEN c ELSE [c EXCEPT !.signal = TRUE]

\* A channel without its slot: only a stream that waits takes the signal.
NotifyWaiting(s) ==
    /\ fetcher[s].pc = "notify"
    /\ fetcher' = [fetcher EXCEPT ![s] = NoFetch]
    /\ newsStream' = [t \in NewsStream |->
                         IF newsStream[t].pc = "wait" THEN Signalled(newsStream[t])
                         ELSE newsStream[t]]
    /\ UNCHANGED news

Notify(s) ==
    /\ fetcher[s].pc = "notify"
    /\ fetcher' = [fetcher EXCEPT ![s] = NoFetch]
    /\ newsStream' = [t \in NewsStream |-> Signalled(newsStream[t])]
    /\ UNCHANGED news

-----------------------------------------------------------------------------
(* GET /api/v1/news/stream *)

Stored == {h \in Headline : news[h] # 0}

\* ListNews: the newest rows, of equally old ones any.
ListNews ==
    {[h \in L |-> news[h]] : L \in {M \in SUBSET Stored :
        /\ \/ Cardinality(M) = NewsLimit
           \/ M = Stored /\ Cardinality(M) < NewsLimit
        /\ \A h \in M, g \in Stored \ M : news[h] >= news[g]}}

\* Subscribe comes before the first list.
OpenNews(t) ==
    /\ newsStream[t].pc = "closed"
    /\ newsStream' = [newsStream EXCEPT ![t].pc = "list"]
    /\ UNCHANGED <<news, fetcher>>

\* An error of List is dropped and a null list written.
ListItems(t) ==
    /\ newsStream[t].pc = "list"
    /\ \E view \in ListNews \cup {NullNews} :
          newsStream' = [newsStream EXCEPT ![t].pc = "write", ![t].view = view]
    /\ UNCHANGED <<news, fetcher>>

WriteNews(t) ==
    /\ newsStream[t].pc = "write"
    /\ newsStream' = [newsStream EXCEPT ![t].pc = "wait"]
    /\ UNCHANGED <<news, fetcher>>

ReceiveNews(t) ==
    /\ newsStream[t].pc = "wait" /\ newsStream[t].signal
    /\ newsStream' = [newsStream EXCEPT ![t].pc = "list", ![t].signal = FALSE]
    /\ UNCHANGED <<news, fetcher>>

\* The client goes away, or a write fails: Unsubscribe.
CloseNews(t) ==
    /\ newsStream[t].pc # "closed"
    /\ newsStream' = [newsStream EXCEPT ![t] = NewsClosed]
    /\ UNCHANGED <<news, fetcher>>

-----------------------------------------------------------------------------
NewsInit ==
    /\ news = [h \in Headline |-> 0]
    /\ fetcher = [s \in NewsSource |-> NoFetch]
    /\ newsStream = [t \in NewsStream |-> NewsClosed]

NewsNext ==
    \/ \E s \in NewsSource : \E items \in Items : FetchRSS(s, items)
    \/ \E s \in NewsSource : UpsertNews(s) \/ UpsertFails(s) \/ Notify(s)
    \/ \E t \in NewsStream :
          OpenNews(t) \/ ListItems(t) \/ WriteNews(t) \/ ReceiveNews(t) \/ CloseNews(t)

NewsSpec == NewsInit /\ [][NewsNext]_newsVars

-----------------------------------------------------------------------------
(* Properties *)

\* Property: a stream that has listed shows the newest headlines, or has a signal in
\* its channel, or a fetch is about to send one: no commit falls between two
\* lists unnoticed, however the commits and signals of the sources interleave.
\* (A stream whose last read failed shows nothing until the next signal.)
OldNewsIsSignalled ==
    \A t \in NewsStream :
        newsStream[t].pc \in {"write", "wait"} /\ newsStream[t].view \notin ListNews \cup {NullNews} =>
            newsStream[t].signal \/ \E s \in NewsSource : fetcher[s].pc = "notify"
=============================================================================
