---------------------------- MODULE PortfolioStream ----------------------------
(***************************************************************************)
(* GET /portfolio/stream for one client: the first valuation, the filter   *)
(* of held assets, the two subscriptions (prices, and the notifications of *)
(* PortfolioUpdateBroadcaster), and the select loop.  The handler runs     *)
(* beside the market service, the P&L tasks and the user's other requests. *)
(***************************************************************************)
EXTENDS Naturals, Sequences, Functions

CONSTANTS
    StreamAsset,    \* the assets with a ticker in the quote currency
    Capacity,       \* of the notification channel (4 in the code)
    MaxForeign      \* bound: notifications of other users

ASSUME StreamAssumption ==
    /\ Capacity \in Nat \ {0}
    /\ MaxForeign \in Nat

VARIABLES
    holds,      \* the assets the user holds
    stream,     \* how far StreamPortfolio is
    watched,    \* heldAssets
    pending,    \* pendingPairs of the price subscription
    moved,      \* history: assets whose price moved since the last valuation
    unheard,    \* history: the ones of moved the stream had no chance to hear of
    task,       \* a P&L task: idle, or done with a snapshot and to notify
    inbox,      \* the notification channel
    view,       \* the client's P&L: current, old, or old and not notified of
    foreign     \* notifications of other users so far

priceVars == <<holds, watched, pending, moved, unheard>>
noticeVars == <<task, inbox, view, foreign>>
portfolioStreamVars == <<stream, priceVars, noticeVars>>

-----------------------------------------------------------------------------
(* Around the handler *)

\* NotifyUpdate of the market service: queuePair coalesces.
PriceMoves(a) ==
    /\ moved' = IF stream = "closed" THEN moved ELSE moved \cup {a}
    /\ pending' = IF stream \in {"subscribed", "open"} THEN pending \cup {a} ELSE pending
    /\ UNCHANGED <<stream, holds, watched, unheard, noticeVars>>

HoldingsChange(a) ==
    /\ holds' = IF a \in holds THEN holds \ {a} ELSE holds \cup {a}
    /\ UNCHANGED <<stream, watched, pending, moved, unheard, noticeVars>>

\* Mutant: a send only to a subscriber that has read everything.
OfferIfEmpty(m) ==
    inbox' = IF stream = "open" /\ inbox = <<>> THEN <<m>> ELSE inbox

\* NotifyPortfolioUpdate: a send that does not block, on a buffered channel.
Offer(m) ==
    inbox' = IF stream = "open" /\ Len(inbox) < Capacity
               THEN Append(inbox, m) ELSE inbox

\* ComputeAndStore of a task has replaced a snapshot.
SnapshotStored ==
    /\ task = "idle"
    /\ task' = "notify"
    /\ view' = IF stream = "closed" THEN view ELSE "old"
    /\ UNCHANGED <<stream, priceVars, inbox, foreign>>

\* The task ends with its notification.
NotifyPortfolioUpdate ==
    /\ task = "notify"
    /\ task' = "idle"
    /\ Offer("own")
    /\ UNCHANGED <<stream, priceVars, view, foreign>>

\* The task fails at its next currency: no notification.
TaskFails ==
    /\ task = "notify"
    /\ task' = "idle"
    /\ view' = IF view = "old" THEN "missed" ELSE view
    /\ UNCHANGED <<stream, priceVars, inbox, foreign>>

\* Every user's updates go to every subscriber.
ForeignUpdate ==
    /\ foreign < MaxForeign
    /\ foreign' = foreign + 1
    /\ Offer("foreign")
    /\ UNCHANGED <<stream, priceVars, task, view>>

-----------------------------------------------------------------------------
(* StreamPortfolio *)

\* The first valuation is computed and written; the client reads its P&L.
OpenStream ==
    /\ stream = "closed"
    /\ stream' = "valued"
    /\ moved' = {} /\ view' = "current"
    /\ UNCHANGED <<holds, watched, pending, unheard, task, inbox, foreign>>

\* ListHoldings and HeldAssetPairs, once for the life of the stream.
WatchHoldings ==
    /\ stream = "valued"
    /\ stream' = "watching"
    /\ watched' = holds
    /\ UNCHANGED <<holds, pending, moved, unheard, noticeVars>>

\* marketSvc.Subscribe: prices that moved since the valuation are not queued.
SubscribePrices ==
    /\ stream = "watching"
    /\ stream' = "subscribed"
    /\ unheard' = moved
    /\ UNCHANGED <<holds, watched, pending, moved, noticeVars>>

\* notifier.Subscribe: a new channel, likewise.
SubscribeUpdates ==
    /\ stream = "subscribed"
    /\ stream' = "open"
    /\ view' = IF view = "old" /\ task = "idle" THEN "missed" ELSE view
    /\ UNCHANGED <<priceVars, task, inbox, foreign>>

HasRelevantUpdate(pairs) == pairs \cap watched # {}

\* The price case of the select: drain, filter, ComputeValuation, push.
PushValuation ==
    /\ stream = "open"
    /\ pending # {}
    /\ pending' = {}
    /\ IF HasRelevantUpdate(pending)
         THEN moved' = {} /\ unheard' = {}
         ELSE UNCHANGED <<moved, unheard>>
    /\ UNCHANGED <<stream, holds, watched, noticeVars>>

\* ComputeValuation fails: the drained pairs are gone, the loop goes on.
ValuationFails ==
    /\ stream = "open"
    /\ pending # {}
    /\ pending' = {}
    /\ unheard' = unheard \cup moved
    /\ UNCHANGED <<stream, holds, watched, moved, noticeVars>>

\* The notification case: for the user's own, transactions_updated and
\* pnl_updated, upon which the client reads its P&L again.
PushUpdated ==
    /\ stream = "open"
    /\ inbox # <<>>
    /\ inbox' = Tail(inbox)
    /\ view' = IF Head(inbox) = "own" /\ task = "idle" THEN "current" ELSE view
    /\ UNCHANGED <<stream, priceVars, task, foreign>>

\* The client goes away, a write fails or the JWT expires: both Unsubscribes.
CloseStream ==
    /\ stream # "closed"
    /\ stream' = "closed"
    /\ watched' = {} /\ pending' = {} /\ moved' = {} /\ unheard' = {}
    /\ inbox' = <<>> /\ view' = "current"
    /\ UNCHANGED <<holds, task, foreign>>

-----------------------------------------------------------------------------
PortfolioStreamInit ==
    /\ holds \in SUBSET StreamAsset
    /\ stream = "closed"
    /\ watched = {} /\ pending = {} /\ moved = {} /\ unheard = {}
    /\ task = "idle" /\ inbox = <<>> /\ view = "current" /\ foreign = 0

PortfolioStreamNext ==
    \/ \E a \in StreamAsset : PriceMoves(a) \/ HoldingsChange(a)
    \/ SnapshotStored \/ NotifyPortfolioUpdate \/ TaskFails \/ ForeignUpdate
    \/ OpenStream \/ WatchHoldings \/ SubscribePrices \/ SubscribeUpdates
    \/ PushValuation \/ ValuationFails \/ PushUpdated \/ CloseStream

PortfolioStreamSpec ==
    PortfolioStreamInit /\ [][PortfolioStreamNext]_portfolioStreamVars

-----------------------------------------------------------------------------
(* Properties *)

\* A price move of a watched asset that the client has not been shown is still
\* queued for it, unless it fell between the first valuation and the
\* subscription or its valuation failed: the filter and the draining lose none.
MoveIsQueued ==
    stream = "open" => (moved \ unheard) \cap watched \subseteq pending

\* A client whose P&L is old has the notification in its channel or a task
\* about to send it, unless the task failed or stored before the client had
\* subscribed: a send dropped by a full channel loses nothing as long as other
\* users' updates cannot fill the channel.
OldViewIsNotified ==
    (stream = "open" /\ view = "old" /\ MaxForeign < Capacity) =>
        task = "notify" \/ "own" \in Range(inbox)

\* Property: what an open stream owes its client is on its way: MoveIsQueued and
\* OldViewIsNotified.
OwedIsQueued == MoveIsQueued /\ OldViewIsNotified
=============================================================================
