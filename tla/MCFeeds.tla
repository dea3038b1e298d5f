------------------------------ MODULE MCFeeds ------------------------------
(* The streams a browser follows share no state: one run explores the market *)
(* feed, the news, the task stream and the warnings each on its own.         *)
EXTENDS MCMarketFeed, NewsFeed, SystemStatus

VARIABLE feed

feedsVars == <<vars, newsVars, statusVars, feed>>

FeedsInit ==
    /\ feed \in {"market", "news", "tasks", "warnings"}
    /\ Init /\ NewsInit /\ StatusInit

MarketStep(A) ==
    /\ feed = "market"
    /\ A
    /\ UNCHANGED <<newsVars, statusVars, feed>>

StatusStep(f, A) ==
    /\ feed = f
    /\ A
    /\ UNCHANGED <<vars, newsVars, feed>>

FeedsNext ==
    \/ MarketStep(Next)
    \/ feed = "news" /\ NewsNext /\ UNCHANGED <<vars, statusVars, feed>>
    \/ StatusStep("tasks", TaskStreamNext)
    \/ StatusStep("warnings", WarningsNext)

\* MarketFeed's Fairness, and the goroutines of a task stream.
FeedsFairness ==
    /\ WF_feedsVars(MarketStep(Consume))
    /\ \A s \in Stream : WF_feedsVars(MarketStep(StreamStep(s)))
    /\ \A s \in TaskStream :
          /\ WF_feedsVars(StatusStep("tasks", Produce(s)))
          /\ WF_feedsVars(StatusStep("tasks", HandlerReceives(s)))

FeedsSpec == FeedsInit /\ [][FeedsNext]_feedsVars /\ FeedsFairness
=============================================================================
