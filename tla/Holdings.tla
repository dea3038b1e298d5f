------------------------------- MODULE Holdings -------------------------------
(***************************************************************************)
(* The holdings of one user: manual rows, rows synced from exchange        *)
(* credentials and wallets, rows imported from a Ledger Live export.       *)
(* Every repository filters on user_id, so other users' rows are apart.    *)
(*                                                                         *)
(* The handlers of concurrent requests interleave at their database calls  *)
(* and at the call to the exchange or the chain.  No transaction spans two *)
(* calls.  Quantities, notes and their encryption are left out.  The trades *)
(* a sync fetches and the recompute it asks for at its end belong to the   *)
(* transactions, which module Transactions takes at any time.              *)
(***************************************************************************)
EXTENDS Naturals, FiniteSets

CONSTANTS
    Asset,          \* what exchanges, chains and exports report
    Catalog,        \* the assets the service knows
    Credential,     \* exchange_credentials ids, each created at most once
    Wallet,         \* wallet_addresses ids, each created at most once
    Origin,         \* Credential or Wallet -> its exchange or chain
    NoLink,         \* source_ref NULL
    Request,        \* handler goroutines
    MaxManual,      \* bound: manual rows alike
    MaxLedger       \* bound: ledger rows alike

Link == Credential \cup Wallet
Source == {"manual", "ledger"} \cup {Origin[l] : l \in Link}

ASSUME HoldingsAssumption ==
    /\ Catalog \subseteq Asset
    /\ Credential \cap Wallet = {}
    /\ NoLink \notin Link
    /\ \A l \in Link : Origin[l] \notin {"manual", "ledger"}
    /\ MaxManual \in Nat \ {0} /\ MaxLedger \in Nat \ {0}

VARIABLES
    rows,       \* portfolio_holdings: how many rows have these columns
    link,       \* exchange_credentials and wallet_addresses
    request,    \* per goroutine, its step and what it has read
    raced       \* history: links deleted, and "ledger" if it was replaced,
                \* while another request was writing its rows

holdingVars == <<rows, link, request, raced>>

HoldingKey == [asset : Catalog, source : Source, ref : Link \cup {NoLink}]
LinkStatus == {"new", "active", "failed", "deleted"}

RequestStep == {"idle", "credentials", "wallets", "find", "fetch", "upsert",
                "status", "cascade", "delete", "clear", "create"}

\* all: the request is a SyncAll; todo: what it has listed and not reached.
RequestRecord == [step : RequestStep, link : Link \cup {NoLink},
                  assets : SUBSET Catalog, all : BOOLEAN, todo : SUBSET Link]

NoRequest == [step |-> "idle", link |-> NoLink, assets |-> {},
              all |-> FALSE, todo |-> {}]

Stored(l) == link[l] \in {"active", "failed"}
Key(a, s, l) == [asset |-> a, source |-> s, ref |-> l]

-----------------------------------------------------------------------------
(* HoldingRepository *)

\* The unique index: a NULL source_ref never conflicts.
Room(k) ==
    IF k.ref # NoLink THEN 1
    ELSE IF k.source = "ledger" THEN MaxLedger ELSE MaxManual

CreateRow(k) ==
    /\ rows[k] < Room(k)
    /\ rows' = [rows EXCEPT ![k] = @ + 1]

FindRow(k) == rows[k] > 0

\* Every column but source_ref.
UpdateRow(k, new) ==
    /\ rows[new] < Room(new)
    /\ rows' = [rows EXCEPT ![k] = @ - 1, ![new] = @ + 1]

DeleteRow(k) == rows' = [rows EXCEPT ![k] = @ - 1]

\* One transaction.  Assets that are gone from the balances keep their rows.
UpsertBySource(l, S) ==
    rows' = [k \in HoldingKey |->
        IF k.ref = l /\ k.source = Origin[l] /\ k.asset \in S
          THEN 1 ELSE rows[k]]

\* Mutant: only rows that are still the source's own.
DeleteBySourceRefSynced(l) ==
    rows' = [k \in HoldingKey |->
        IF k.ref = l /\ k.source = Origin[l] THEN 0 ELSE rows[k]]

DeleteBySourceRef(l) ==
    rows' = [k \in HoldingKey |-> IF k.ref = l THEN 0 ELSE rows[k]]

\* Mutant: the source named is not the import's.
DeleteByOtherSource(s) ==
    rows' = [k \in HoldingKey |->
        IF k.source \notin {s, "manual"} THEN 0 ELSE rows[k]]

DeleteBySource(s) ==
    rows' = [k \in HoldingKey |-> IF k.source = s THEN 0 ELSE rows[k]]

-----------------------------------------------------------------------------
(* Manual holdings.  Update and Delete look only at the row's id, so finding *)
(* the row first adds no interleaving.  A request that names no asset of the *)
(* catalog, or no row of its user, changes nothing.                          *)

CreateHolding(a) == a \in Catalog /\ CreateRow(Key(a, "manual", NoLink))

\* POST /holdings.
PostHolding ==
    /\ \E a \in Asset : CreateHolding(a)
    /\ UNCHANGED <<link, request, raced>>

UpdateHolding(k, new) ==
    /\ FindRow(k)
    /\ new.asset \in Catalog
    /\ UpdateRow(k, new)

\* PUT /holdings/{id}: the row it edits becomes a manual one.
PutHolding ==
    /\ \E k \in HoldingKey, a \in Asset :
          LET new == Key(a, "manual", k.ref) IN k # new /\ UpdateHolding(k, new)
    /\ UNCHANGED <<link, request, raced>>

DeleteHolding(k) == FindRow(k) /\ DeleteRow(k)

\* DELETE /holdings/{id}.
RemoveHolding ==
    /\ \E k \in HoldingKey : DeleteHolding(k)
    /\ UNCHANGED <<link, request, raced>>

-----------------------------------------------------------------------------
(* CredentialRepository and WalletRepository *)

\* The unique index of (user_id, exchange) refuses a second credential.
InsertCredential(c) ==
    /\ \A d \in Credential : Origin[d] = Origin[c] => ~Stored(d)
    /\ link' = [link EXCEPT ![c] = "active"]

InsertWallet(w) == link' = [link EXCEPT ![w] = "active"]

\* A link that is gone stays so: no row is found.
SetLinkStatus(l, s) == link' = [link EXCEPT ![l] = IF Stored(l) THEN s ELSE @]

-----------------------------------------------------------------------------
(* Credentials and wallets *)

CreateCredential(c) == link[c] = "new" /\ InsertCredential(c)

\* POST /credentials.
PostCredential ==
    /\ \E c \in Credential : CreateCredential(c)
    /\ UNCHANGED <<rows, request, raced>>

CreateWallet(w) == link[w] = "new" /\ InsertWallet(w)

\* POST /wallets.
PostWallet ==
    /\ \E w \in Wallet : CreateWallet(w)
    /\ UNCHANGED <<rows, request, raced>>

StepOf(r, s) == request[r].step = s
GoOn(r, s) == request' = [request EXCEPT ![r].step = s]

\* A handler of a single link returns; SyncAll goes on, whatever came of it.
EndOfSync(r) ==
    request' = [request EXCEPT ![r] =
        IF ~@.all THEN NoRequest
        ELSE [NoRequest EXCEPT
                !.step = IF request[r].link \in Wallet THEN "wallets" ELSE "credentials",
                !.all = TRUE, !.todo = request[r].todo]]

\* The requests that have found link l and may still write its rows.
Syncing(l) == {r \in Request : request[r].link = l
                                /\ request[r].step \in {"fetch", "upsert"}}

\* DeleteCredential up to the cascade.
DeleteCredential(r, c) ==
    /\ Stored(c)
    /\ request' = [request EXCEPT ![r].step = "cascade", ![r].link = c]

\* DELETE /credentials/{id}.
RemoveCredential(r) ==
    /\ StepOf(r, "idle")
    /\ \E c \in Credential : DeleteCredential(r, c)
    /\ UNCHANGED <<rows, link, raced>>

\* DeleteWallet, likewise.
DeleteWallet(r, w) ==
    /\ Stored(w)
    /\ request' = [request EXCEPT ![r].step = "cascade", ![r].link = w]

\* DELETE /wallets/{id}.
RemoveWallet(r) ==
    /\ StepOf(r, "idle")
    /\ \E w \in Wallet : DeleteWallet(r, w)
    /\ UNCHANGED <<rows, link, raced>>

Cascade(r) ==
    /\ StepOf(r, "cascade")
    /\ DeleteBySourceRef(request[r].link)
    /\ GoOn(r, "delete")
    /\ raced' = IF Syncing(request[r].link) # {}
                  THEN raced \cup {request[r].link} ELSE raced
    /\ UNCHANGED link

\* ErrNoRows when another request has deleted it.
DeleteLink(r) ==
    /\ StepOf(r, "delete")
    /\ link' = [link EXCEPT ![request[r].link] = "deleted"]
    /\ request' = [request EXCEPT ![r] = NoRequest]
    /\ UNCHANGED <<rows, raced>>

-----------------------------------------------------------------------------
(* Syncs *)

SyncLink(r, l) ==
    request' = [request EXCEPT ![r].step = "find", ![r].link = l,
                               ![r].todo = @ \ {l}]

\* SyncCredential and SyncWallet are the steps below, from FindLink on.
SyncCredential(r, c) == c \in Credential /\ SyncLink(r, c)
SyncWallet(r, w) == w \in Wallet /\ SyncLink(r, w)

\* POST /credentials/{id}/sync.
PostCredentialSync(r) ==
    /\ StepOf(r, "idle")
    /\ \E c \in Credential : SyncCredential(r, c)
    /\ UNCHANGED <<rows, link, raced>>

\* POST /wallets/{id}/sync.
PostWalletSync(r) ==
    /\ StepOf(r, "idle")
    /\ \E w \in Wallet : SyncWallet(r, w)
    /\ UNCHANGED <<rows, link, raced>>

\* POST /sync-all: lists the credentials.
PostSyncAll(r) ==
    /\ StepOf(r, "idle")
    /\ request' = [request EXCEPT ![r].step = "credentials", ![r].all = TRUE,
                                  ![r].todo = {c \in Credential : Stored(c)}]
    /\ UNCHANGED <<rows, link, raced>>

\* SyncAll: credential after credential, then it lists the wallets, then wallet
\* after wallet.
SyncAll(r) ==
    /\ \/ \E l \in request[r].todo :
            \/ StepOf(r, "credentials") /\ SyncCredential(r, l)
            \/ StepOf(r, "wallets") /\ SyncWallet(r, l)
       \/ /\ StepOf(r, "credentials") /\ request[r].todo = {}
          /\ request' = [request EXCEPT ![r].step = "wallets",
                                        ![r].todo = {w \in Wallet : Stored(w)}]
       \/ /\ StepOf(r, "wallets") /\ request[r].todo = {}
          /\ request' = [request EXCEPT ![r] = NoRequest]
    /\ UNCHANGED <<rows, link, raced>>

\* FindByID, and ErrForbidden when the row is gone.  A sync that finds its link
\* between the cascade and the deletion of the row is one of the races.
FindLink(r) ==
    LET l == request[r].link
    IN  /\ StepOf(r, "find")
        /\ IF Stored(l) THEN GoOn(r, "fetch") ELSE EndOfSync(r)
        /\ raced' = IF Stored(l) /\ \E q \in Request :
                         StepOf(q, "delete") /\ request[q].link = l
                      THEN raced \cup {l} ELSE raced
        /\ UNCHANGED <<rows, link>>

\* The balances, filtered against the catalog.
FetchBalances(r) ==
    /\ StepOf(r, "fetch")
    /\ \E S \in SUBSET Asset :
          request' = [request EXCEPT ![r].step = "upsert",
                                     ![r].assets = S \cap Catalog]
    /\ UNCHANGED <<rows, link, raced>>

\* isAuthError: the credential is marked failed, if it is still there.
AuthError(r) ==
    LET c == request[r].link
    IN  /\ StepOf(r, "fetch")
        /\ c \in Credential
        /\ SetLinkStatus(c, "failed")
        /\ EndOfSync(r)
        /\ UNCHANGED <<rows, raced>>

UpsertHoldings(r) ==
    /\ StepOf(r, "upsert")
    /\ UpsertBySource(request[r].link, request[r].assets)
    /\ GoOn(r, "status")
    /\ UNCHANGED <<link, raced>>

\* UpdateSyncStatus or UpdateSyncTime; of a link that is gone, an error.
UpdateSyncStatus(r) ==
    /\ StepOf(r, "status")
    /\ SetLinkStatus(request[r].link, "active")
    /\ EndOfSync(r)
    /\ UNCHANGED <<rows, raced>>

-----------------------------------------------------------------------------
(* The Ledger Live export *)

\* ImportLedgerExport: the export is parsed and filtered; it is written by the
\* steps below.
ImportLedgerExport(r, S) ==
    request' = [request EXCEPT ![r].step = "clear", ![r].assets = S \cap Catalog]

\* POST /ledger/connect, with an export.
ConnectLedger(r) ==
    /\ StepOf(r, "idle")
    /\ \E S \in SUBSET Asset : ImportLedgerExport(r, S)
    /\ UNCHANGED <<rows, link, raced>>

ClearLedger(r) ==
    /\ StepOf(r, "clear")
    /\ DeleteBySource("ledger")
    /\ GoOn(r, "create")
    /\ raced' = IF \E q \in Request \ {r} : StepOf(q, "create")
                  THEN raced \cup {"ledger"} ELSE raced
    /\ UNCHANGED link

\* One INSERT after the other, in the order of the export.
CreateLedgerHolding(r) ==
    /\ StepOf(r, "create")
    /\ \E a \in request[r].assets :
          /\ CreateRow(Key(a, "ledger", NoLink))
          /\ request' = [request EXCEPT ![r].assets = @ \ {a}]
    /\ UNCHANGED <<link, raced>>

ImportDone(r) ==
    /\ StepOf(r, "create")
    /\ request[r].assets = {}
    /\ request' = [request EXCEPT ![r] = NoRequest]
    /\ UNCHANGED <<rows, link, raced>>

DisconnectLedger ==
    /\ DeleteBySource("ledger")
    /\ UNCHANGED <<link, request, raced>>

-----------------------------------------------------------------------------
\* A database or network error, or the client gone, at any step: what was
\* written stays.
RequestFails(r) ==
    /\ request[r].step \in {"fetch", "upsert", "status", "cascade", "delete",
                            "clear", "create"}
    /\ EndOfSync(r)
    /\ UNCHANGED <<rows, link, raced>>

HoldingsInit ==
    /\ rows = [k \in HoldingKey |-> 0]
    /\ link = [l \in Link |-> "new"]
    /\ request = [r \in Request |-> NoRequest]
    /\ raced = {}

RequestNext(r) ==
    \/ RemoveCredential(r) \/ RemoveWallet(r)
    \/ PostCredentialSync(r) \/ PostWalletSync(r)
    \/ PostSyncAll(r) \/ SyncAll(r) \/ FindLink(r) \/ FetchBalances(r)
    \/ AuthError(r) \/ UpsertHoldings(r) \/ UpdateSyncStatus(r)
    \/ Cascade(r) \/ DeleteLink(r)
    \/ ConnectLedger(r) \/ ClearLedger(r) \/ CreateLedgerHolding(r) \/ ImportDone(r)
    \/ RequestFails(r)

HoldingsNext ==
    \/ PostHolding \/ PutHolding \/ RemoveHolding
    \/ PostCredential \/ PostWallet
    \/ \E r \in Request : RequestNext(r)
    \/ DisconnectLedger

HoldingsSpec == HoldingsInit /\ [][HoldingsNext]_holdingVars

-----------------------------------------------------------------------------
(* Properties *)

\* The types, and the unique index: of a link, an asset and a source there is
\* one row.
HoldingsTypeOK ==
    /\ rows \in [HoldingKey -> Nat]
    /\ \A k \in HoldingKey : k.ref # NoLink => rows[k] <= 1
    /\ link \in [Link -> LinkStatus]
    /\ request \in [Request -> RequestRecord]
    /\ raced \subseteq Link \cup {"ledger"}

\* A deleted credential or wallet leaves no holding behind, rows the user has
\* edited included, unless a sync of it overlapped the deletion: neither a
\* failed step nor a retried deletion leaves one.
OrphansRaced ==
    \A k \in HoldingKey :
        (rows[k] > 0 /\ k.ref \in Link /\ link[k.ref] = "deleted")
            => k.ref \in raced

\* Importing an export again replaces the earlier import: an asset has two
\* ledger rows only if two imports overlapped.
LedgerReplaced ==
    \A a \in Catalog : rows[Key(a, "ledger", NoLink)] > 1 => "ledger" \in raced
=============================================================================
