----------------------------- MODULE Transactions -----------------------------
(***************************************************************************)
(* The transactions of one user and the P&L snapshots computed from them:  *)
(* exchange syncs store trades, the user edits a row, recompute tasks      *)
(* value the rows again in another currency, and the hourly P&L refresh    *)
(* computes the snapshots.                                                 *)
(*                                                                         *)
(* A price is kept as the currency it is in; how the values of the rows    *)
(* make up a snapshot is in module PnL.  Sync and edit are HTTP handlers,  *)
(* the two tasks run on workers under different pair locks: all of them    *)
(* interleave at their database calls.                                     *)
(***************************************************************************)
EXTENDS Naturals, Sequences

CONSTANTS
    Trade,              \* portfolio_transactions rows, by their unique key
    Hint,               \* what clients ask to recompute: a currency, or ""
    RecomputeClaimable  \* a portfolio_recompute task has a row in tasks

ASSUME TransactionsAssumption ==
    /\ RecomputeClaimable \in BOOLEAN
    /\ Hint \subseteq {"", "EUR", "USD"}

Currency == {"EUR", "USD"}
NoCurrency == ""        \* the currencies of the transactions, EUR and USD
NoMessage == "none"

\* "none": reference_value NULL, resolution unresolvable; "user": typed in by
\* the user; a currency: a candle's close in it.
Value == Currency \cup {"none", "user"}

TxRow == [value : Value, currency : Currency, edited : BOOLEAN]
NoRow == [value |-> "none", currency |-> "USD", edited |-> FALSE]

NoValues == [t \in Trade |-> "none"]

VARIABLES
    stored,     \* the trades that have a row
    tx,         \* their rows
    edit,       \* the row UpdateTransaction has read, by trade
    snapshot,   \* pnl_snapshots: per currency, the values it was made of
    message,    \* the portfolio_recompute task on the topic: its currency
    debounced,  \* debounceTracker: a recompute was queued within the window
    job         \* per task type, how far its executor is

rowState == <<stored, tx, edit>>
txVars == <<rowState, snapshot, message, debounced, job>>

Kind == {"recompute", "refresh"}
JobStep == {"idle", "list", "update", "load", "store"}

\* todo: the currencies left; page: the listed trades not yet updated; got: the
\* values loaded for the snapshot.
NoJob == [step |-> "idle", todo |-> <<>>, page |-> {}, got |-> NoValues]

-----------------------------------------------------------------------------
(* PriceResolver and TransactionRepository *)

\* Hourly candle, else daily, else unresolvable: candles come in with the
\* backfill, and an error of the query counts as unresolvable.
Resolve(c) == {c, "none"}

\* Mutant: the update without WHERE NOT manually_edited.
UpsertAny(t, c) ==
    /\ stored' = stored \cup {t}
    /\ \E v \in Resolve(c) :
          tx' = [tx EXCEPT ![t] =
                   [value |-> v, currency |-> c, edited |-> FALSE]]

\* Upsert: a row that is edited is left alone.
Upsert(t, c) ==
    /\ stored' = stored \cup {t}
    /\ \E v \in Resolve(c) :
          tx' = [tx EXCEPT ![t] =
                   IF @.edited THEN @
                   ELSE [value |-> v, currency |-> c, edited |-> FALSE]]

\* Update writes all the columns it has.
Update(t, row) == tx' = [tx EXCEPT ![t] = row]

\* Mutant: the distinct currencies only, which without a recompute are USD.
CurrenciesStored(hint) == IF hint # NoCurrency THEN <<hint>> ELSE <<"USD">>

\* DistinctCurrencies, and resolveCurrencies: sorted, with EUR and USD always.
Currencies(hint) == IF hint # NoCurrency THEN <<hint>> ELSE <<"EUR", "USD">>

\* The values a P&L computation uses: ComputeAndStore leaves out rows that are
\* unresolvable and does not look at their currency.
Valued == [t \in Trade |-> IF t \in stored THEN tx[t].value ELSE "none"]

-----------------------------------------------------------------------------
(* Handlers *)

\* SyncCredential's trades: NormalizeForSource in USD, entry by entry.
NormalizeForSource(t) ==
    /\ Upsert(t, "USD")
    /\ UNCHANGED <<edit, snapshot, message, debounced, job>>

\* QueueRecomputeWithCurrency, under the service's mutex: published unless one
\* was within the debounce window.  Bound: one message at a time.
QueueRecompute(hint) ==
    /\ ~debounced
    /\ message = NoMessage
    /\ message' = hint
    /\ debounced' = TRUE
    /\ UNCHANGED <<rowState, snapshot, job>>

DebounceWindowEnds ==
    /\ debounced
    /\ debounced' = FALSE
    /\ UNCHANGED <<rowState, snapshot, message, job>>

\* UpdateTransaction: FindByID.
FindTransaction(t) ==
    /\ t \in stored
    /\ edit[t] = <<>>
    /\ edit' = [edit EXCEPT ![t] = <<tx[t]>>]
    /\ UNCHANGED <<stored, tx, snapshot, message, debounced, job>>

\* UpdateTransaction: the value, if one was sent, into the row as read.  A value
\* for an unresolvable row leaves its resolution, so it still does not count.
UpdateTransaction(t) ==
    /\ edit[t] # <<>>
    /\ LET row == edit[t][1]
       IN  \E v \in {row.value, IF row.value = "none" THEN "none" ELSE "user"} :
             Update(t, [row EXCEPT !.value = v, !.edited = TRUE])
    /\ edit' = [edit EXCEPT ![t] = <<>>]
    /\ UNCHANGED <<stored, snapshot, message, debounced, job>>

-----------------------------------------------------------------------------
(* The executors *)

SetJob(k, j) == job' = [job EXCEPT ![k] = j]

\* A worker takes the recompute task off the topic.  The claim finds a row only
\* if there is one: Publish does not write it.
TakeRecompute ==
    /\ message # NoMessage
    /\ job["recompute"].step = "idle"
    /\ message' = NoMessage
    /\ IF RecomputeClaimable
         THEN SetJob("recompute", [NoJob EXCEPT !.step = "list",
                                                !.todo = Currencies(message)])
         ELSE UNCHANGED job
    /\ UNCHANGED <<rowState, snapshot, debounced>>

\* The planner has enqueued pnl_refresh for the window.
TakeRefresh ==
    /\ job["refresh"].step = "idle"
    /\ SetJob("refresh", [NoJob EXCEPT !.step = "load",
                                       !.todo = Currencies(NoCurrency)])
    /\ UNCHANGED <<rowState, snapshot, message, debounced>>

\* ReNormalizeAll: a page of rows; the edited ones are skipped.
ListPage ==
    LET j == job["recompute"]
    IN  /\ j.step = "list"
        /\ SetJob("recompute", [j EXCEPT !.step = "update",
                                  !.page = {t \in stored : ~tx[t].edited}])
        /\ UNCHANGED <<rowState, snapshot, message, debounced>>

\* Mutant: the new currency on the old value.
ReNormalizedRelabelled(t, c, v) == [tx[t] EXCEPT !.currency = c, !.edited = FALSE]

\* ReNormalizeAll: the row as listed, hence not edited, with its new value.
ReNormalized(t, c, v) == [value |-> v, currency |-> c, edited |-> FALSE]

UpdatePage ==
    LET j == job["recompute"]
        c == Head(j.todo)
    IN  /\ j.step = "update"
        /\ \E t \in j.page :
              /\ \E v \in Resolve(c) : Update(t, ReNormalized(t, c, v))
              /\ SetJob("recompute", [j EXCEPT !.page = @ \ {t}])
        /\ UNCHANGED <<stored, edit, snapshot, message, debounced>>

PageDone ==
    LET j == job["recompute"]
    IN  /\ j.step = "update"
        /\ j.page = {}
        /\ SetJob("recompute", [j EXCEPT !.step = "load"])
        /\ UNCHANGED <<rowState, snapshot, message, debounced>>

\* ComputeAndStore: loadAllTransactions.
LoadTransactions(k) ==
    /\ job[k].step = "load"
    /\ SetJob(k, [job[k] EXCEPT !.step = "store", !.got = Valued])
    /\ UNCHANGED <<rowState, snapshot, message, debounced>>

\* ComputeAndStore: the snapshot of the currency is replaced; then the next
\* currency, and at last NotifyPortfolioUpdate (module PortfolioStream).
StoreSnapshot(k) ==
    LET j == job[k]
        rest == Tail(j.todo)
    IN  /\ j.step = "store"
        /\ snapshot' = [snapshot EXCEPT ![Head(j.todo)] = j.got]
        /\ SetJob(k, IF rest = <<>> THEN NoJob
                     ELSE [NoJob EXCEPT !.todo = rest,
                             !.step = IF k = "recompute" THEN "list" ELSE "load"])
        /\ UNCHANGED <<rowState, message, debounced>>

\* An executor returns an error: nothing is undone.
JobFails(k) ==
    /\ job[k].step # "idle"
    /\ SetJob(k, NoJob)
    /\ UNCHANGED <<rowState, snapshot, message, debounced>>

-----------------------------------------------------------------------------
TransactionsInit ==
    /\ stored = {} /\ tx = [t \in Trade |-> NoRow]
    /\ edit = [t \in Trade |-> <<>>]
    /\ snapshot = [c \in Currency |-> NoValues]
    /\ message = NoMessage /\ debounced = FALSE
    /\ job = [k \in Kind |-> NoJob]

Compute(k) == LoadTransactions(k) \/ StoreSnapshot(k)
RecomputeStep == ListPage \/ UpdatePage \/ PageDone \/ Compute("recompute")

TransactionsNext ==
    \/ \E t \in Trade : \/ NormalizeForSource(t)
                         \/ FindTransaction(t) \/ UpdateTransaction(t)
    \/ \E h \in Hint : QueueRecompute(h)
    \/ DebounceWindowEnds \/ TakeRecompute \/ TakeRefresh
    \/ RecomputeStep \/ Compute("refresh")
    \/ \E k \in Kind : JobFails(k)

TransactionsSpec == TransactionsInit /\ [][TransactionsNext]_txVars

\* A step of the refresh, for the n-th currency from the end.
RefreshStep(n) ==
    Len(job["refresh"].todo) = n /\ Compute("refresh")

(* Fairness: the planner enqueues a refresh every window and the workers take *)
(* what there is; a database call of the refresh that is tried again and again *)
(* does not fail every time.                                                   *)
TransactionsFairness ==
    /\ WF_txVars(TakeRefresh)
    /\ \A n \in 1..2 :
          /\ SF_txVars(RefreshStep(n) /\ LoadTransactions("refresh"))
          /\ SF_txVars(RefreshStep(n) /\ StoreSnapshot("refresh"))

TransactionsFairSpec == TransactionsSpec /\ TransactionsFairness

\* The workers take recompute tasks off the topic and execute them.
RecomputeFairSpec ==
    /\ TransactionsSpec
    /\ WF_txVars(TakeRecompute)
    /\ WF_txVars(RecomputeStep)

-----------------------------------------------------------------------------
(* Properties *)

\* The types of rows, messages, tasks and snapshots.
TransactionsTypeOK ==
    /\ stored \subseteq Trade
    /\ tx \in [Trade -> TxRow]
    /\ \A t \in Trade : edit[t] = <<>> \/ edit[t][1] \in TxRow
    /\ snapshot \in [Currency -> [Trade -> Value]]
    /\ message \in Hint \cup {NoMessage}
    /\ debounced \in BOOLEAN
    /\ \A k \in Kind : /\ job[k].step \in JobStep
                       /\ job[k].page \subseteq stored
                       /\ job[k].got \in [Trade -> Value]
                       /\ job[k].step # "idle" => job[k].todo # <<>>

\* A sync never undoes the user's edit of a transaction: an edited row stays
\* edited, or a recompute had listed it before it was edited.
EditKept ==
    [][\A t \in Trade : (tx[t].edited /\ ~tx'[t].edited) =>
          t \in job["recompute"].page]_txVars

\* Of a row the values and the currency agree: it is in its reference currency,
\* typed in by the user, or there is none.
ValueMatchesCurrency ==
    \A t \in stored : tx[t].value \in {tx[t].currency, "user", "none"}

\* A value the user has typed in, which queues no recompute, counts in the
\* snapshots of all currencies by the hourly refresh alone, as long as it stays.
EditReachesSnapshots ==
    \A t \in Trade :
        <>[](tx[t].value = "user") =>
            []<>(\A c \in Currency : snapshot[c][t] = "user")

\* Recompute tasks run: what is queued is executed.
RecomputeRuns == message # NoMessage ~> job["recompute"].step # "idle"

=============================================================================
