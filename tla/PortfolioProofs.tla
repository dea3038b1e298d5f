--------------------------- MODULE PortfolioProofs ---------------------------
(***************************************************************************)
(* The portfolio, for any number of links, assets, trades, currencies and  *)
(* concurrent requests: what deletions, syncs and imports leave of each    *)
(* other's rows (Holdings), what syncs and recomputes leave of the user's  *)
(* edits (Transactions), what an open stream still has to send             *)
(* (PortfolioStream), and what the engines compute from the rows: values   *)
(* and allocations (Valuation) and profits (PnL).  The five are            *)
(* independent: they share no variable.                                    *)
(***************************************************************************)
EXTENDS Holdings, PortfolioStream, Transactions, Valuation, PnL, NumberSets, TLAPS

-----------------------------------------------------------------------------
(* Holdings: the requests *)

\* The steps in which a handler works on one link, which it has found by then.
NeedsLink == {"find", "fetch", "upsert", "status", "cascade", "delete"}

StepsLinked == \A r \in Request : request[r].step \in NeedsLink => request[r].link \in Link

\* What an assignment to one field does to a request, and that assignments to
\* several are made one after the other.
LEMMA RecordFields ==
    ASSUME NEW q \in RequestRecord
    PROVE  /\ \A s \in RequestStep :
                /\ [q EXCEPT !.step = s] \in RequestRecord
                /\ [q EXCEPT !.step = s].step = s
                /\ [q EXCEPT !.step = s].link = q.link
                /\ [q EXCEPT !.step = s].assets = q.assets
                /\ [q EXCEPT !.step = s].todo = q.todo
           /\ \A l \in Link :
                /\ [q EXCEPT !.link = l] \in RequestRecord
                /\ [q EXCEPT !.link = l].step = q.step
                /\ [q EXCEPT !.link = l].link = l
           /\ \A S \in SUBSET Catalog :
                /\ [q EXCEPT !.assets = S] \in RequestRecord
                /\ [q EXCEPT !.assets = S].step = q.step
                /\ [q EXCEPT !.assets = S].link = q.link
                /\ [q EXCEPT !.assets = S].assets = S
           /\ \A S \in SUBSET Link :
                /\ [q EXCEPT !.todo = S] \in RequestRecord
                /\ [q EXCEPT !.todo = S].step = q.step
                /\ [q EXCEPT !.todo = S].link = q.link
  BY DEF RequestRecord

LEMMA RecordPairs ==
    ASSUME NEW q \in RequestRecord, NEW s, NEW l, NEW S, NEW b
    PROVE  /\ [q EXCEPT !.step = s, !.link = l] = [[q EXCEPT !.step = s] EXCEPT !.link = l]
           /\ [q EXCEPT !.step = s, !.assets = S] = [[q EXCEPT !.step = s] EXCEPT !.assets = S]
           /\ [q EXCEPT !.step = s, !.todo = S] = [[q EXCEPT !.step = s] EXCEPT !.todo = S]
           /\ [q EXCEPT !.step = s, !.link = l, !.todo = S]
                = [[[q EXCEPT !.step = s] EXCEPT !.link = l] EXCEPT !.todo = S]
           /\ [q EXCEPT !.step = s, !.all = b, !.todo = S]
                = [[[q EXCEPT !.step = s] EXCEPT !.all = b] EXCEPT !.todo = S]
  BY DEF RequestRecord

LEMMA AllField ==
    ASSUME NEW q \in RequestRecord, NEW b \in BOOLEAN
    PROVE  /\ [q EXCEPT !.all = b] \in RequestRecord
           /\ [q EXCEPT !.all = b].step = q.step
           /\ [q EXCEPT !.all = b].link = q.link
  BY DEF RequestRecord

\* What holds of the requests whatever they do.
RequestsOK == request \in [Request -> RequestRecord] /\ StepsLinked

\* No other request moves.
OthersKept(r) == \A q \in Request \ {r} : request'[q] = request[q]

LEMMA NewRequest ==
    ASSUME RequestsOK, NEW r \in Request, NEW new \in RequestRecord,
           new.step \in NeedsLink => new.link \in Link,
           request' = [request EXCEPT ![r] = new]
    PROVE  /\ RequestsOK'
           /\ request'[r] = new
           /\ OthersKept(r)
  BY DEF RequestsOK, StepsLinked, OthersKept

LEMMA IdleRequest == NoRequest \in RequestRecord /\ NoRequest.step = "idle"
  BY DEF NoRequest, RequestRecord, RequestStep

LEMMA SyncEnds ==
    ASSUME RequestsOK, NEW r \in Request, EndOfSync(r)
    PROVE  /\ RequestsOK'
           /\ request'[r].step \in {"idle", "wallets", "credentials"}
           /\ OthersKept(r)
<1> DEFINE step == IF request[r].link \in Wallet THEN "wallets" ELSE "credentials"
           new == [NoRequest EXCEPT !.step = step, !.all = TRUE, !.todo = request[r].todo]
<1>1. request[r] \in RequestRecord
  BY DEF RequestsOK
<1>2. new \in RequestRecord /\ new.step = step
  <2>1. step \in RequestStep /\ request[r].todo \in SUBSET Link
    BY <1>1 DEF RequestStep, RequestRecord
  <2> DEFINE q1 == [NoRequest EXCEPT !.step = step]
             q2 == [q1 EXCEPT !.all = TRUE]
  <2>2. q1 \in RequestRecord /\ q1.step = step
    BY <2>1, IdleRequest, RecordFields
  <2> HIDE DEF q1, step
  <2>3. q2 \in RequestRecord /\ q2.step = step
    <3>1. TRUE \in BOOLEAN
      OBVIOUS
    <3>2. [q1 EXCEPT !.all = TRUE] \in RequestRecord /\ [q1 EXCEPT !.all = TRUE].step = q1.step
      BY <2>2, <3>1, AllField, Zenon
    <3> QED
      BY <2>2, <3>2, Zenon
  <2> HIDE DEF q2
  <2>4. [q2 EXCEPT !.todo = request[r].todo] \in RequestRecord
        /\ [q2 EXCEPT !.todo = request[r].todo].step = step
    BY <2>1, <2>3, RecordFields
  <2>5. new = [q2 EXCEPT !.todo = request[r].todo]
    BY IdleRequest, RecordPairs DEF q1, q2
  <2> QED
    BY <2>4, <2>5
<1>3. request' = [request EXCEPT ![r] = NoRequest] \/ request' = [request EXCEPT ![r] = new]
  <2> DEFINE next == IF ~request[r].all THEN NoRequest ELSE new
  <2>1. request' = [request EXCEPT ![r] = next]
    BY DEF EndOfSync
  <2>2. next = NoRequest \/ next = new
    BY Zenon
  <2> HIDE DEF next, new
  <2> QED
    BY <2>1, <2>2, Zenon
<1>4. step \in {"wallets", "credentials"}
  OBVIOUS
<1> HIDE DEF new, step
<1>5. CASE request' = [request EXCEPT ![r] = NoRequest]
  BY <1>5, IdleRequest, NewRequest DEF NeedsLink
<1>6. CASE request' = [request EXCEPT ![r] = new]
  BY <1>6, <1>2, <1>4, NewRequest DEF NeedsLink
<1> QED
  BY <1>3, <1>5, <1>6

LEMMA StepSet ==
    ASSUME RequestsOK, NEW r \in Request, NEW s \in RequestStep, GoOn(r, s),
           s \in NeedsLink => request[r].link \in Link
    PROVE  /\ RequestsOK'
           /\ request'[r].step = s
           /\ request'[r].link = request[r].link
           /\ request'[r].assets = request[r].assets
           /\ OthersKept(r)
<1> DEFINE new == [request[r] EXCEPT !.step = s]
<1>1. request[r] \in RequestRecord
  BY DEF RequestsOK
<1>2. new \in RequestRecord /\ new.step = s /\ new.link = request[r].link
        /\ new.assets = request[r].assets
  BY <1>1, RecordFields
<1>3. request' = [request EXCEPT ![r] = new]
  BY Zenon DEF GoOn
<1> HIDE DEF new
<1> QED
  BY <1>2, <1>3, NewRequest

\* The first step of a deletion: the request has its link.
LEMMA DeletionBegins ==
    ASSUME RequestsOK, NEW r \in Request, RemoveCredential(r) \/ RemoveWallet(r)
    PROVE  RequestsOK' /\ request'[r].step = "cascade" /\ OthersKept(r)
<1>1. PICK l \in Link : request' = [request EXCEPT ![r].step = "cascade", ![r].link = l]
  BY DEF RemoveCredential, RemoveWallet, DeleteCredential, DeleteWallet, Link
<1> DEFINE q1 == [request[r] EXCEPT !.step = "cascade"]
           new == [q1 EXCEPT !.link = l]
<1>2. request[r] \in RequestRecord
  BY DEF RequestsOK
<1>3. q1 \in RequestRecord /\ q1.step = "cascade"
  <2>1. "cascade" \in RequestStep
    BY DEF RequestStep
  <2> QED
    BY <1>2, <2>1, RecordFields, Zenon
<1> HIDE DEF q1
<1>4. new \in RequestRecord /\ new.step = "cascade" /\ new.link = l
  BY <1>3, RecordFields
<1>5. request' = [request EXCEPT ![r] = [request[r] EXCEPT !.step = "cascade", !.link = l]]
  BY <1>1, <1>2 DEF RequestsOK, RequestRecord
<1>6. [request[r] EXCEPT !.step = "cascade", !.link = l] = new
  BY <1>2, RecordPairs DEF q1
<1> HIDE DEF new
<1> QED
  BY <1>4, <1>5, <1>6, NewRequest

\* The first step of a sync.
LEMMA SyncBegins ==
    ASSUME RequestsOK, NEW r \in Request, NEW l \in Link, SyncLink(r, l)
    PROVE  RequestsOK' /\ request'[r].step = "find" /\ OthersKept(r)
<1> DEFINE left == request[r].todo \ {l}
           q1 == [request[r] EXCEPT !.step = "find"]
           q2 == [q1 EXCEPT !.link = l]
           new == [q2 EXCEPT !.todo = left]
<1>1. request[r] \in RequestRecord /\ left \in SUBSET Link
  BY DEF RequestsOK, RequestRecord
<1>2. request' = [request EXCEPT ![r] = [request[r] EXCEPT !.step = "find", !.link = l,
                                                           !.todo = left]]
  BY <1>1 DEF SyncLink, RequestsOK, RequestRecord
<1> HIDE DEF left
<1>3. q1 \in RequestRecord /\ q1.step = "find"
  <2>1. "find" \in RequestStep
    BY DEF RequestStep
  <2> QED
    BY <1>1, <2>1, RecordFields, Zenon
<1> HIDE DEF q1
<1>4. q2 \in RequestRecord /\ q2.step = "find" /\ q2.link = l
  BY <1>3, RecordFields
<1> HIDE DEF q2
<1>5. new \in RequestRecord /\ new.step = "find" /\ new.link = l
  BY <1>1, <1>4, RecordFields
<1>6. [request[r] EXCEPT !.step = "find", !.link = l, !.todo = left] = new
  BY <1>1, RecordPairs DEF q1, q2
<1> HIDE DEF new
<1> QED
  BY <1>2, <1>5, <1>6, NewRequest

LEMMA SyncAllBegins ==
    ASSUME RequestsOK, NEW r \in Request, PostSyncAll(r)
    PROVE  RequestsOK' /\ request'[r].step = "credentials" /\ OthersKept(r)
<1> DEFINE left == {c \in Credential : Stored(c)}
           q1 == [request[r] EXCEPT !.step = "credentials"]
           q2 == [q1 EXCEPT !.all = TRUE]
           new == [q2 EXCEPT !.todo = left]
<1>1. request[r] \in RequestRecord /\ left \in SUBSET Link
  BY DEF RequestsOK, Link
<1>2. request' = [request EXCEPT ![r] = [request[r] EXCEPT !.step = "credentials", !.all = TRUE,
                                                           !.todo = left]]
  BY <1>1, Zenon DEF PostSyncAll, RequestsOK
<1> HIDE DEF left
<1>3. q1 \in RequestRecord /\ q1.step = "credentials"
  <2>1. "credentials" \in RequestStep
    BY DEF RequestStep
  <2> QED
    BY <1>1, <2>1, RecordFields, Zenon
<1> HIDE DEF q1
<1>4. q2 \in RequestRecord /\ q2.step = "credentials"
  <2>1. TRUE \in BOOLEAN
    OBVIOUS
  <2>2. [q1 EXCEPT !.all = TRUE] \in RequestRecord /\ [q1 EXCEPT !.all = TRUE].step = q1.step
    BY <1>3, <2>1, AllField, Zenon
  <2> QED
    BY <1>3, <2>2, Zenon
<1> HIDE DEF q2
<1>5. new \in RequestRecord /\ new.step = "credentials"
  BY <1>1, <1>4, RecordFields
<1>6. [request[r] EXCEPT !.step = "credentials", !.all = TRUE, !.todo = left] = new
  BY <1>1, RecordPairs, Zenon DEF q1, q2
<1> HIDE DEF new
<1> QED
  BY <1>2, <1>5, <1>6, NewRequest DEF NeedsLink

LEMMA SyncAllGoesOn ==
    ASSUME RequestsOK, NEW r \in Request, SyncAll(r)
    PROVE  RequestsOK' /\ request'[r].step \in {"find", "wallets", "idle"} /\ OthersKept(r)
<1>1. request[r] \in RequestRecord
  BY DEF RequestsOK
<1>2. ASSUME NEW l \in request[r].todo, SyncCredential(r, l) \/ SyncWallet(r, l)
      PROVE  RequestsOK' /\ request'[r].step = "find" /\ OthersKept(r)
  BY <1>2, SyncBegins DEF SyncCredential, SyncWallet, Link
<1>3. ASSUME request' = [request EXCEPT ![r] = NoRequest]
      PROVE  RequestsOK' /\ request'[r].step = "idle" /\ OthersKept(r)
  BY <1>3, IdleRequest, NewRequest DEF NeedsLink
<1>4. ASSUME request' = [request EXCEPT ![r].step = "wallets", ![r].todo = {w \in Wallet : Stored(w)}]
      PROVE  RequestsOK' /\ request'[r].step = "wallets" /\ OthersKept(r)
  <2> DEFINE left == {w \in Wallet : Stored(w)}
             q1 == [request[r] EXCEPT !.step = "wallets"]
             new == [q1 EXCEPT !.todo = left]
  <2>1. left \in SUBSET Link
    BY DEF Link
  <2>2. request' = [request EXCEPT ![r] = [request[r] EXCEPT !.step = "wallets", !.todo = left]]
    BY <1>1, <1>4, Zenon DEF RequestsOK
  <2> HIDE DEF left
  <2>3. q1 \in RequestRecord /\ q1.step = "wallets"
    <3>1. "wallets" \in RequestStep
      BY DEF RequestStep
    <3> QED
      BY <1>1, <3>1, RecordFields, Zenon
  <2> HIDE DEF q1
  <2>4. new \in RequestRecord /\ new.step = "wallets"
    BY <2>1, <2>3, RecordFields
  <2>5. [request[r] EXCEPT !.step = "wallets", !.todo = left] = new
    BY <1>1, RecordPairs DEF q1
  <2> HIDE DEF new
  <2> QED
    BY <2>2, <2>4, <2>5, NewRequest DEF NeedsLink
<1> QED
  BY <1>2, <1>3, <1>4, Zenon DEF SyncAll

\* Balances and an export: the assets of the catalog among them.
LEMMA AssetsRead ==
    ASSUME RequestsOK, NEW r \in Request, NEW s \in RequestStep, NEW S,
           s \in NeedsLink => request[r].link \in Link,
           request' = [request EXCEPT ![r].step = s, ![r].assets = S \cap Catalog]
    PROVE  /\ RequestsOK'
           /\ request'[r].step = s
           /\ request'[r].link = request[r].link
           /\ OthersKept(r)
<1> DEFINE got == S \cap Catalog
           q1 == [request[r] EXCEPT !.step = s]
           new == [q1 EXCEPT !.assets = got]
<1>1. request[r] \in RequestRecord /\ got \in SUBSET Catalog
  BY DEF RequestsOK
<1>2. request' = [request EXCEPT ![r] = [request[r] EXCEPT !.step = s, !.assets = got]]
  BY <1>1 DEF RequestsOK, RequestRecord
<1> HIDE DEF got
<1>3. q1 \in RequestRecord /\ q1.step = s /\ q1.link = request[r].link
  BY <1>1, RecordFields
<1> HIDE DEF q1
<1>4. new \in RequestRecord /\ new.step = s /\ new.link = request[r].link
  BY <1>1, <1>3, RecordFields
<1>5. [request[r] EXCEPT !.step = s, !.assets = got] = new
  BY <1>1, RecordPairs DEF q1
<1>6. request' = [request EXCEPT ![r] = new]
  BY <1>2, <1>5, Zenon
<1> HIDE DEF new
<1> QED
  BY <1>4, <1>6, NewRequest

\* An asset of the export is written.
LEMMA AssetWritten ==
    ASSUME RequestsOK, NEW r \in Request, NEW a, StepOf(r, "create"),
           request' = [request EXCEPT ![r].assets = @ \ {a}]
    PROVE  /\ RequestsOK'
           /\ request'[r].step = "create"
           /\ request'[r].assets = request[r].assets \ {a}
           /\ OthersKept(r)
<1> DEFINE left == request[r].assets \ {a}
           new == [request[r] EXCEPT !.assets = left]
<1>1. request[r] \in RequestRecord /\ left \in SUBSET Catalog
  BY DEF RequestsOK, RequestRecord
<1>2. request' = [request EXCEPT ![r] = new]
  BY <1>1 DEF RequestsOK, RequestRecord
<1> HIDE DEF left
<1>3. new \in RequestRecord /\ new.step = "create" /\ new.assets = left
  BY <1>1, RecordFields DEF StepOf
<1> HIDE DEF new
<1> QED
  BY <1>2, <1>3, NewRequest DEF NeedsLink, left

-----------------------------------------------------------------------------
(* Holdings: the invariant *)

\* A synced holding is one row: the table's key says so.
RowsOK ==
    /\ rows \in [HoldingKey -> Nat]
    /\ \A k \in HoldingKey : k.ref # NoLink => rows[k] <= 1

\* The link has no row in its table, or the request that deletes it has
\* deleted its holdings.
Cleared(l) ==
    \/ link[l] = "deleted"
    \/ \E r \in Request : StepOf(r, "delete") /\ request[r].link = l

\* No row of the link.
NoHolding(l) == \A k \in HoldingKey : k.ref = l => rows[k] = 0

\* A link whose holdings have been deleted has none and gets none any more,
\* unless a sync of it overlapped: that there is no sync left is what makes the
\* rest stay true.
ClearedAreClean ==
    \A l \in Link : Cleared(l) /\ l \notin raced => Syncing(l) = {} /\ NoHolding(l)

\* Imports that do not overlap: one at a time, and what it is yet to write is
\* not there.
ImportsAlone ==
    "ledger" \notin raced =>
        /\ \A q, r \in Request : StepOf(q, "create") /\ StepOf(r, "create") => q = r
        /\ \A r \in Request : StepOf(r, "create") =>
              \A a \in request[r].assets : rows[Key(a, "ledger", NoLink)] = 0
        /\ \A a \in Catalog : rows[Key(a, "ledger", NoLink)] <= 1

HoldingsInv ==
    /\ RowsOK
    /\ link \in [Link -> LinkStatus]
    /\ RequestsOK
    /\ raced \subseteq Link \cup {"ledger"}
    /\ ClearedAreClean
    /\ ImportsAlone

LEMMA LedgerKeys == \A a \in Catalog : Key(a, "ledger", NoLink) \in HoldingKey
  BY DEF Key, HoldingKey, Source

LEMMA KeyFields ==
    ASSUME NEW k \in HoldingKey
    PROVE  k.asset \in Catalog /\ k.source \in Source /\ k.ref \in Link \cup {NoLink}
  BY DEF HoldingKey

\* A change of holdings alone that brings back nothing of a cleared link and
\* adds to no ledger row.
RowsShrink ==
    /\ RowsOK'
    /\ \A l \in Link : NoHolding(l) => NoHolding(l)'
    /\ \A a \in Catalog : rows'[Key(a, "ledger", NoLink)] <= rows[Key(a, "ledger", NoLink)]

LEMMA ShrinkKeeps ==
    ASSUME HoldingsInv, RowsShrink, UNCHANGED <<link, request, raced>>
    PROVE  HoldingsInv'
<1>1. RequestsOK' /\ ClearedAreClean'
  BY DEF HoldingsInv, RowsShrink, RequestsOK, StepsLinked, ClearedAreClean, Cleared, Syncing, StepOf
<1>2. ImportsAlone'
  <2> SUFFICES ASSUME "ledger" \notin raced PROVE ImportsAlone'
    BY DEF ImportsAlone
  <2>1. \A q, r \in Request : StepOf(q, "create")' /\ StepOf(r, "create")' => q = r
    BY DEF HoldingsInv, ImportsAlone, StepOf
  <2>2. \A a \in Catalog : /\ rows[Key(a, "ledger", NoLink)] \in Nat
                           /\ rows'[Key(a, "ledger", NoLink)] \in Nat
    BY LedgerKeys DEF HoldingsInv, RowsShrink, RowsOK
  <2>3. \A a \in Catalog : rows'[Key(a, "ledger", NoLink)] <= 1
    BY <2>2 DEF HoldingsInv, ImportsAlone, RowsShrink
  <2>4. ASSUME NEW r \in Request, StepOf(r, "create")', NEW a \in request'[r].assets
        PROVE  rows'[Key(a, "ledger", NoLink)] = 0
    <3>1. a \in Catalog
      BY <2>4 DEF HoldingsInv, RequestsOK, RequestRecord
    <3>2. rows[Key(a, "ledger", NoLink)] = 0
      BY <2>4 DEF HoldingsInv, ImportsAlone, StepOf
    <3> QED
      BY <2>2, <3>1, <3>2 DEF RowsShrink
  <2> QED
    BY <2>1, <2>3, <2>4, Zenon DEF ImportsAlone, Key
<1> QED
  BY <1>1, <1>2 DEF HoldingsInv, RowsShrink

\* A step of a request that writes no holding and comes to no point where it
\* would write or delete some.
Quiet(r) ==
    /\ RequestsOK'
    /\ request'[r].step \notin {"fetch", "upsert", "delete", "create"}
    /\ OthersKept(r)
    /\ UNCHANGED <<rows, raced>>
    /\ link' \in [Link -> LinkStatus]
    /\ \A l \in Link : link'[l] = "deleted" => link[l] = "deleted"

LEMMA QuietKeeps ==
    ASSUME HoldingsInv, NEW r \in Request, Quiet(r)
    PROVE  HoldingsInv'
<1>1. RowsOK' /\ raced' \subseteq Link \cup {"ledger"}
  BY DEF HoldingsInv, Quiet, RowsOK
<1>2. ClearedAreClean'
  <2> SUFFICES ASSUME NEW l \in Link, Cleared(l)', l \notin raced'
               PROVE  Syncing(l)' = {} /\ NoHolding(l)'
    BY DEF ClearedAreClean
  <2>1. Cleared(l) /\ l \notin raced
    BY DEF Cleared, Quiet, OthersKept, StepOf
  <2>2. Syncing(l)' \subseteq Syncing(l)
    BY DEF Syncing, Quiet, OthersKept
  <2>3. NoHolding(l)' = NoHolding(l)
    BY DEF NoHolding, Quiet
  <2> QED
    BY <2>1, <2>2, <2>3 DEF HoldingsInv, ClearedAreClean
<1>3. ImportsAlone'
  BY DEF HoldingsInv, ImportsAlone, Quiet, OthersKept, StepOf, Key
<1> QED
  BY <1>1, <1>2, <1>3 DEF HoldingsInv, Quiet

-----------------------------------------------------------------------------
(* The user's own changes of holdings *)

LEMMA ManualStep ==
    ASSUME HoldingsInv, PostHolding \/ PutHolding \/ RemoveHolding \/ DisconnectLedger
    PROVE  HoldingsInv'
<1> USE DEF HoldingsInv
<1>1. rows \in [HoldingKey -> Nat]
  BY DEF RowsOK
<1>2. ASSUME NEW a \in Asset, CreateHolding(a), UNCHANGED <<link, request, raced>>
      PROVE  HoldingsInv'
  <2> DEFINE k == Key(a, "manual", NoLink)
  <2>1. k \in HoldingKey /\ k.source = "manual" /\ k.ref = NoLink
    BY <1>2 DEF CreateHolding, Key, HoldingKey, Source
  <2>2. rows' = [rows EXCEPT ![k] = rows[k] + 1]
    BY <1>2 DEF CreateHolding, CreateRow
  <2>3. \A b \in Catalog : Key(b, "ledger", NoLink) # k
    BY DEF Key
  <2> HIDE DEF k
  <2>4. RowsOK'
    BY <1>1, <2>1, <2>2 DEF RowsOK
  <2>5. \A l \in Link : NoHolding(l) => NoHolding(l)'
    BY <1>1, <2>1, <2>2, HoldingsAssumption DEF NoHolding
  <2>6. \A b \in Catalog : rows'[Key(b, "ledger", NoLink)] <= rows[Key(b, "ledger", NoLink)]
    BY <1>1, <2>2, <2>3, LedgerKeys
  <2> QED
    BY <1>2, <2>4, <2>5, <2>6, ShrinkKeeps DEF RowsShrink
<1>3. ASSUME NEW k \in HoldingKey, NEW a \in Asset,
             k # Key(a, "manual", k.ref), UpdateHolding(k, Key(a, "manual", k.ref)),
             UNCHANGED <<link, request, raced>>
      PROVE  HoldingsInv'
  <2> DEFINE new == Key(a, "manual", k.ref)
  <2>1. k.ref \in Link \cup {NoLink}
    BY KeyFields
  <2>2. new \in HoldingKey /\ new.ref = k.ref
    BY <1>3, <2>1 DEF UpdateHolding, Key, HoldingKey, Source
  <2>3. /\ rows' = [rows EXCEPT ![k] = rows[k] - 1, ![new] = rows[new] + 1]
        /\ rows[k] > 0 /\ rows[new] < Room(new)
    BY <1>1, <1>3 DEF UpdateHolding, UpdateRow, FindRow
  <2>4. \A b \in Catalog : Key(b, "ledger", NoLink) # new
    BY DEF Key
  <2>5. k # new
    BY <1>3
  <2> HIDE DEF new
  <2>6. /\ rows' \in [HoldingKey -> Nat]
        /\ rows'[new] = rows[new] + 1 /\ rows'[k] = rows[k] - 1
        /\ \A o \in HoldingKey \ {k, new} : rows'[o] = rows[o]
    BY <1>1, <2>2, <2>3, <2>5
  <2>7. RowsOK'
    <3>1. new.ref # NoLink => rows'[new] <= 1
      BY <1>1, <2>2, <2>3, <2>6 DEF Room
    <3> QED
      BY <1>1, <2>2, <2>6, <3>1 DEF RowsOK
  <2>8. \A l \in Link : NoHolding(l) => NoHolding(l)'
    BY <1>1, <2>2, <2>3, <2>6 DEF NoHolding
  <2>9. \A b \in Catalog : rows'[Key(b, "ledger", NoLink)] <= rows[Key(b, "ledger", NoLink)]
    BY <1>1, <2>4, <2>6, LedgerKeys
  <2> QED
    BY <1>3, <2>7, <2>8, <2>9, ShrinkKeeps DEF RowsShrink
<1>4. ASSUME NEW k \in HoldingKey, DeleteHolding(k), UNCHANGED <<link, request, raced>>
      PROVE  HoldingsInv'
  <2>1. /\ rows' \in [HoldingKey -> Nat]
        /\ \A o \in HoldingKey : rows'[o] <= rows[o]
    BY <1>1, <1>4 DEF DeleteHolding, FindRow, DeleteRow
  <2>2. RowsOK' /\ \A l \in Link : NoHolding(l) => NoHolding(l)'
    BY <1>1, <2>1 DEF RowsOK, NoHolding
  <2> QED
    BY <1>4, <2>1, <2>2, LedgerKeys, ShrinkKeeps DEF RowsShrink
<1>5. ASSUME DisconnectLedger PROVE HoldingsInv'
  <2>1. /\ rows' \in [HoldingKey -> Nat]
        /\ \A o \in HoldingKey : rows'[o] <= rows[o]
    BY <1>1, <1>5 DEF DisconnectLedger, DeleteBySource
  <2>2. RowsOK' /\ \A l \in Link : NoHolding(l) => NoHolding(l)'
    BY <1>1, <2>1 DEF RowsOK, NoHolding
  <2> QED
    BY <1>5, <2>1, <2>2, LedgerKeys, ShrinkKeeps DEF RowsShrink, DisconnectLedger
<1> QED
  BY <1>2, <1>3, <1>4, <1>5, Zenon DEF PostHolding, PutHolding, RemoveHolding

\* New links.
LEMMA LinkStep ==
    ASSUME HoldingsInv, PostCredential \/ PostWallet
    PROVE  HoldingsInv'
<1> USE DEF HoldingsInv
<1>1. PICK l \in Link : link' = [link EXCEPT ![l] = "active"]
  BY DEF PostCredential, PostWallet, CreateCredential, CreateWallet, InsertCredential,
         InsertWallet, Link
<1>2. UNCHANGED <<rows, request, raced>>
  BY DEF PostCredential, PostWallet
<1>3. /\ link' \in [Link -> LinkStatus]
      /\ \A m \in Link : link'[m] = "deleted" => link[m] = "deleted"
  BY <1>1 DEF LinkStatus
<1>4. RowsOK' /\ RequestsOK' /\ ImportsAlone' /\ raced' \subseteq Link \cup {"ledger"}
  BY <1>2 DEF RowsOK, RequestsOK, StepsLinked, ImportsAlone, StepOf, Key
<1>5. ClearedAreClean'
  BY <1>2, <1>3 DEF ClearedAreClean, Cleared, Syncing, NoHolding, StepOf
<1> QED
  BY <1>3, <1>4, <1>5

-----------------------------------------------------------------------------
(* Requests *)

LEMMA QuietStep ==
    ASSUME HoldingsInv, NEW r \in Request,
           \/ RemoveCredential(r) \/ RemoveWallet(r)
           \/ PostCredentialSync(r) \/ PostWalletSync(r) \/ PostSyncAll(r) \/ SyncAll(r)
           \/ AuthError(r) \/ UpdateSyncStatus(r)
           \/ ConnectLedger(r) \/ ImportDone(r) \/ RequestFails(r)
    PROVE  HoldingsInv'
<1>1. RequestsOK /\ link \in [Link -> LinkStatus]
  BY DEF HoldingsInv
<1>2. ASSUME RemoveCredential(r) \/ RemoveWallet(r) PROVE HoldingsInv'
  BY <1>1, <1>2, DeletionBegins, QuietKeeps DEF Quiet, RemoveCredential, RemoveWallet
<1>3. ASSUME PostCredentialSync(r) \/ PostWalletSync(r) PROVE HoldingsInv'
  <2>1. RequestsOK' /\ request'[r].step = "find" /\ OthersKept(r)
    BY <1>1, <1>3, SyncBegins
       DEF PostCredentialSync, PostWalletSync, SyncCredential, SyncWallet, Link
  <2> QED
    BY <1>1, <1>3, <2>1, QuietKeeps DEF Quiet, PostCredentialSync, PostWalletSync
<1>4. ASSUME PostSyncAll(r) PROVE HoldingsInv'
  BY <1>1, <1>4, SyncAllBegins, QuietKeeps DEF Quiet, PostSyncAll
<1>5. ASSUME SyncAll(r) PROVE HoldingsInv'
  BY <1>1, <1>5, SyncAllGoesOn, QuietKeeps DEF Quiet, SyncAll
<1>6. ASSUME AuthError(r) \/ UpdateSyncStatus(r) PROVE HoldingsInv'
  <2>1. EndOfSync(r) /\ UNCHANGED <<rows, raced>>
    BY <1>6 DEF AuthError, UpdateSyncStatus
  <2>2. SetLinkStatus(request[r].link, "failed") \/ SetLinkStatus(request[r].link, "active")
    BY <1>6 DEF AuthError, UpdateSyncStatus
  <2>3. /\ link' \in [Link -> LinkStatus]
        /\ \A l \in Link : link'[l] = "deleted" => link[l] = "deleted"
    BY <1>1, <2>2 DEF SetLinkStatus, LinkStatus
  <2> QED
    BY <1>1, <2>1, <2>3, SyncEnds, QuietKeeps DEF Quiet
<1>7. ASSUME ConnectLedger(r) PROVE HoldingsInv'
  <2>1. PICK S : ImportLedgerExport(r, S)
    BY <1>7 DEF ConnectLedger
  <2>2. RequestsOK' /\ request'[r].step = "clear" /\ OthersKept(r)
    BY <1>1, <2>1, AssetsRead DEF ImportLedgerExport, RequestStep, NeedsLink
  <2> QED
    BY <1>1, <1>7, <2>2, QuietKeeps DEF Quiet, ConnectLedger
<1>8. ASSUME ImportDone(r) PROVE HoldingsInv'
  <2>1. RequestsOK' /\ request'[r].step = "idle" /\ OthersKept(r)
    BY <1>1, <1>8, IdleRequest, NewRequest DEF ImportDone, NeedsLink
  <2> QED
    BY <1>1, <1>8, <2>1, QuietKeeps DEF Quiet, ImportDone
<1>9. ASSUME RequestFails(r) PROVE HoldingsInv'
  BY <1>1, <1>9, SyncEnds, QuietKeeps DEF Quiet, RequestFails
<1> QED
  BY <1>2, <1>3, <1>4, <1>5, <1>6, <1>7, <1>8, <1>9

\* A sync that finds its link while it is being deleted is a race.
LEMMA FindStep ==
    ASSUME HoldingsInv, NEW r \in Request, FindLink(r)
    PROVE  HoldingsInv'
<1> DEFINE l == request[r].link
<1> USE DEF HoldingsInv
<1>1. l \in Link /\ request[r].step = "find" /\ UNCHANGED <<rows, link>>
  BY DEF FindLink, RequestsOK, StepsLinked, StepOf, NeedsLink
<1>2. CASE ~Stored(l)
  <2>1. EndOfSync(r) /\ UNCHANGED raced
    BY <1>2 DEF FindLink
  <2> QED
    BY <1>1, <2>1, SyncEnds, QuietKeeps DEF Quiet
<1>3. CASE Stored(l)
  <2>1. /\ GoOn(r, "fetch")
        /\ raced' = IF \E q \in Request : StepOf(q, "delete") /\ request[q].link = l
                     THEN raced \cup {l} ELSE raced
    BY <1>3 DEF FindLink
  <2>2. /\ RequestsOK' /\ OthersKept(r)
        /\ request'[r].step = "fetch" /\ request'[r].link = l
    BY <1>1, <2>1, StepSet DEF RequestStep
  <2>3. RowsOK' /\ link' \in [Link -> LinkStatus] /\ raced' \subseteq Link \cup {"ledger"}
    BY <1>1, <2>1 DEF RowsOK
  <2>4. ClearedAreClean'
    <3> SUFFICES ASSUME NEW m \in Link, Cleared(m)', m \notin raced'
                 PROVE  Syncing(m)' = {} /\ NoHolding(m)'
      BY DEF ClearedAreClean
    <3>1. Cleared(m) /\ m \notin raced
      BY <1>1, <2>1, <2>2 DEF Cleared, OthersKept, StepOf
    <3>2. m # l
      BY <1>3, <2>1, <3>1 DEF Cleared, Stored
    <3>3. Syncing(m)' \subseteq Syncing(m)
      BY <2>2, <3>2 DEF Syncing, OthersKept
    <3>4. NoHolding(m)' = NoHolding(m)
      BY <1>1 DEF NoHolding
    <3> QED
      BY <3>1, <3>3, <3>4 DEF ClearedAreClean
  <2>5. ImportsAlone'
    BY <1>1, <2>1, <2>2 DEF ImportsAlone, OthersKept, StepOf, Key
  <2> QED
    BY <2>2, <2>3, <2>4, <2>5
<1> QED
  BY <1>2, <1>3

LEMMA FetchStep ==
    ASSUME HoldingsInv, NEW r \in Request, FetchBalances(r)
    PROVE  HoldingsInv'
<1> USE DEF HoldingsInv
<1>1. request[r].step = "fetch" /\ request[r].link \in Link /\ UNCHANGED <<rows, link, raced>>
  BY DEF FetchBalances, RequestsOK, StepsLinked, StepOf, NeedsLink
<1>2. PICK S : request' = [request EXCEPT ![r].step = "upsert", ![r].assets = S \cap Catalog]
  BY DEF FetchBalances
<1>3. /\ RequestsOK' /\ OthersKept(r)
      /\ request'[r].step = "upsert" /\ request'[r].link = request[r].link
  BY <1>1, <1>2, AssetsRead DEF RequestStep
<1>4. ClearedAreClean'
  <2> SUFFICES ASSUME NEW l \in Link, Cleared(l)', l \notin raced'
               PROVE  Syncing(l)' = {} /\ NoHolding(l)'
    BY DEF ClearedAreClean
  <2>1. Cleared(l) /\ l \notin raced
    BY <1>1, <1>3 DEF Cleared, OthersKept, StepOf
  <2>2. Syncing(l)' \subseteq Syncing(l)
    BY <1>1, <1>3 DEF Syncing, OthersKept
  <2>3. NoHolding(l)' = NoHolding(l)
    BY <1>1 DEF NoHolding
  <2> QED
    BY <2>1, <2>2, <2>3 DEF ClearedAreClean
<1>5. ImportsAlone'
  BY <1>1, <1>3 DEF ImportsAlone, OthersKept, StepOf, Key
<1> QED
  BY <1>1, <1>3, <1>4, <1>5 DEF RowsOK

\* A step that touches neither a ledger row nor an import.
LEMMA ImportsUntouched ==
    ASSUME HoldingsInv, NEW r \in Request, OthersKept(r), request'[r].step # "create",
           raced \subseteq raced',
           \A a \in Catalog : rows'[Key(a, "ledger", NoLink)] = rows[Key(a, "ledger", NoLink)]
    PROVE  ImportsAlone'
<1> SUFFICES ASSUME "ledger" \notin raced PROVE ImportsAlone'
  BY DEF ImportsAlone
<1> USE DEF HoldingsInv
<1>1. \A q \in Request : request[q].assets \subseteq Catalog
  BY DEF RequestsOK, RequestRecord
<1>2. \A q \in Request : request'[q].step = "create" => request'[q] = request[q]
  BY DEF OthersKept
<1>3. \A p, q \in Request : StepOf(p, "create")' /\ StepOf(q, "create")' => p = q
  BY <1>2 DEF ImportsAlone, StepOf
<1>4. ASSUME NEW q \in Request, StepOf(q, "create")', NEW a \in request'[q].assets
      PROVE  rows'[Key(a, "ledger", NoLink)] = 0
  BY <1>1, <1>2, <1>4 DEF ImportsAlone, StepOf
<1>5. \A a \in Catalog : rows'[Key(a, "ledger", NoLink)] <= 1
  BY DEF ImportsAlone
<1> QED
  BY <1>3, <1>4, <1>5, Zenon DEF ImportsAlone, Key

\* A sync that writes holdings of a link that is gone has raced its deletion.
LEMMA UpsertStep ==
    ASSUME HoldingsInv, NEW r \in Request, UpsertHoldings(r)
    PROVE  HoldingsInv'
<1> DEFINE l == request[r].link
<1> USE DEF HoldingsInv
<1>1. request[r].step = "upsert" /\ l \in Link /\ UNCHANGED <<link, raced>>
  BY DEF UpsertHoldings, RequestsOK, StepsLinked, StepOf, NeedsLink
<1>2. /\ RequestsOK' /\ OthersKept(r) /\ request'[r].step = "status"
  BY <1>1, StepSet DEF UpsertHoldings, RequestStep
<1>3. /\ rows' \in [HoldingKey -> Nat]
      /\ \A k \in HoldingKey : rows'[k] = IF k.ref = l /\ k.source = Origin[l]
                                             /\ k.asset \in request[r].assets
                                          THEN 1 ELSE rows[k]
  BY DEF UpsertHoldings, UpsertBySource, RowsOK
<1> HIDE DEF l
<1>4. RowsOK'
  BY <1>3 DEF RowsOK
<1>5. ClearedAreClean'
  <2> SUFFICES ASSUME NEW m \in Link, Cleared(m)', m \notin raced'
               PROVE  Syncing(m)' = {} /\ NoHolding(m)'
    BY DEF ClearedAreClean
  <2>1. Cleared(m) /\ m \notin raced
    BY <1>1, <1>2 DEF Cleared, OthersKept, StepOf
  <2>2. Syncing(m) = {} /\ NoHolding(m)
    BY <2>1 DEF ClearedAreClean
  <2>3. m # l
    BY <1>1, <2>2 DEF Syncing, l
  <2>4. Syncing(m)' \subseteq Syncing(m)
    BY <1>1, <1>2 DEF Syncing, OthersKept
  <2>5. NoHolding(m)'
    BY <1>3, <2>2, <2>3 DEF NoHolding
  <2> QED
    BY <2>2, <2>4, <2>5
<1>6. ImportsAlone'
  <2>1. \A a \in Catalog : Key(a, "ledger", NoLink).ref # l
    BY <1>1, HoldingsAssumption DEF Key
  <2>2. \A a \in Catalog : rows'[Key(a, "ledger", NoLink)] = rows[Key(a, "ledger", NoLink)]
    BY <1>3, <2>1, LedgerKeys
  <2> QED
    BY <1>1, <1>2, <2>2, ImportsUntouched
<1> QED
  BY <1>1, <1>2, <1>4, <1>5, <1>6

\* The cascade leaves no holding of the link, unless a sync is to write some.
LEMMA CascadeStep ==
    ASSUME HoldingsInv, NEW r \in Request, Cascade(r)
    PROVE  HoldingsInv'
<1> DEFINE l == request[r].link
<1> USE DEF HoldingsInv
<1>1. request[r].step = "cascade" /\ l \in Link /\ UNCHANGED link
  BY DEF Cascade, RequestsOK, StepsLinked, StepOf, NeedsLink
<1>2. /\ RequestsOK' /\ OthersKept(r)
      /\ request'[r].step = "delete" /\ request'[r].link = l
  BY <1>1, StepSet DEF Cascade, RequestStep
<1>3. /\ rows' \in [HoldingKey -> Nat]
      /\ \A k \in HoldingKey : rows'[k] = IF k.ref = l THEN 0 ELSE rows[k]
  BY DEF Cascade, DeleteBySourceRef, RowsOK
<1>4. raced' = IF Syncing(l) # {} THEN raced \cup {l} ELSE raced
  BY DEF Cascade
<1> HIDE DEF l
<1>5. RowsOK'
  BY <1>3 DEF RowsOK
<1>6. ClearedAreClean'
  <2> SUFFICES ASSUME NEW m \in Link, Cleared(m)', m \notin raced'
               PROVE  Syncing(m)' = {} /\ NoHolding(m)'
    BY DEF ClearedAreClean
  <2>1. m \notin raced
    BY <1>4
  <2>2. Syncing(m)' \subseteq Syncing(m)
    BY <1>1, <1>2 DEF Syncing, OthersKept
  <2>3. CASE m = l
    BY <1>3, <1>4, <2>2, <2>3 DEF NoHolding
  <2>4. CASE m # l
    <3>1. Cleared(m)
      BY <1>1, <1>2, <2>4 DEF Cleared, OthersKept, StepOf
    <3>2. NoHolding(m) => NoHolding(m)'
      BY <1>3, <2>4 DEF NoHolding
    <3> QED
      BY <2>1, <2>2, <3>1, <3>2 DEF ClearedAreClean
  <2> QED
    BY <2>3, <2>4
<1>7. ImportsAlone'
  <2>1. \A a \in Catalog : Key(a, "ledger", NoLink).ref # l
    BY <1>1, HoldingsAssumption DEF Key
  <2>2. \A a \in Catalog : rows'[Key(a, "ledger", NoLink)] = rows[Key(a, "ledger", NoLink)]
    BY <1>3, <2>1, LedgerKeys
  <2> QED
    BY <1>2, <1>4, <2>2, ImportsUntouched
<1>8. raced' \subseteq Link \cup {"ledger"}
  BY <1>1, <1>4
<1> QED
  BY <1>1, <1>2, <1>5, <1>6, <1>7, <1>8

LEMMA DeleteStep ==
    ASSUME HoldingsInv, NEW r \in Request, DeleteLink(r)
    PROVE  HoldingsInv'
<1> DEFINE l == request[r].link
<1> USE DEF HoldingsInv
<1>1. request[r].step = "delete" /\ l \in Link /\ UNCHANGED <<rows, raced>>
  BY DEF DeleteLink, RequestsOK, StepsLinked, StepOf, NeedsLink
<1>2. RequestsOK' /\ OthersKept(r) /\ request'[r].step = "idle"
  BY IdleRequest, NewRequest DEF DeleteLink, NeedsLink
<1>3. /\ link' \in [Link -> LinkStatus]
      /\ \A m \in Link \ {l} : link'[m] = link[m]
  BY DEF DeleteLink, LinkStatus
<1>4. Cleared(l)
  BY <1>1 DEF Cleared, StepOf
<1> HIDE DEF l
<1>5. ClearedAreClean'
  <2> SUFFICES ASSUME NEW m \in Link, Cleared(m)', m \notin raced'
               PROVE  Syncing(m)' = {} /\ NoHolding(m)'
    BY DEF ClearedAreClean
  <2>1. Cleared(m) /\ m \notin raced
    BY <1>1, <1>2, <1>3, <1>4 DEF Cleared, OthersKept, StepOf
  <2>2. Syncing(m)' \subseteq Syncing(m)
    BY <1>2 DEF Syncing, OthersKept
  <2>3. NoHolding(m)' = NoHolding(m)
    BY <1>1 DEF NoHolding
  <2> QED
    BY <2>1, <2>2, <2>3 DEF ClearedAreClean
<1>6. ImportsAlone'
  BY <1>1, <1>2 DEF ImportsAlone, OthersKept, StepOf, Key
<1> QED
  BY <1>1, <1>2, <1>3, <1>5, <1>6 DEF RowsOK

\* An import begins to write: all earlier ledger rows are gone.
LEMMA ClearStep ==
    ASSUME HoldingsInv, NEW r \in Request, ClearLedger(r)
    PROVE  HoldingsInv'
<1> USE DEF HoldingsInv
<1>1. request[r].step = "clear" /\ UNCHANGED link
  BY DEF ClearLedger, StepOf
<1>2. RequestsOK' /\ OthersKept(r) /\ request'[r].step = "create"
  BY <1>1, StepSet DEF ClearLedger, RequestStep, NeedsLink
<1>3. /\ rows' \in [HoldingKey -> Nat]
      /\ \A k \in HoldingKey : rows'[k] = IF k.source = "ledger" THEN 0 ELSE rows[k]
  BY DEF ClearLedger, DeleteBySource, RowsOK
<1>4. raced' = IF \E q \in Request \ {r} : StepOf(q, "create")
               THEN raced \cup {"ledger"} ELSE raced
  BY DEF ClearLedger
<1>5. RowsOK' /\ raced' \subseteq Link \cup {"ledger"}
  BY <1>3, <1>4 DEF RowsOK
<1>6. ClearedAreClean'
  <2> SUFFICES ASSUME NEW l \in Link, Cleared(l)', l \notin raced'
               PROVE  Syncing(l)' = {} /\ NoHolding(l)'
    BY DEF ClearedAreClean
  <2>1. Cleared(l) /\ l \notin raced
    BY <1>1, <1>2, <1>4 DEF Cleared, OthersKept, StepOf
  <2>2. Syncing(l)' \subseteq Syncing(l)
    BY <1>2 DEF Syncing, OthersKept
  <2>3. NoHolding(l) => NoHolding(l)'
    BY <1>3 DEF NoHolding
  <2> QED
    BY <2>1, <2>2, <2>3 DEF ClearedAreClean
<1>7. ImportsAlone'
  <2> SUFFICES ASSUME "ledger" \notin raced' PROVE ImportsAlone'
    BY DEF ImportsAlone
  <2>1. \A q \in Request \ {r} : ~StepOf(q, "create")'
    BY <1>2, <1>4 DEF OthersKept, StepOf
  <2>2. \A a \in Catalog : rows'[Key(a, "ledger", NoLink)] = 0
    BY <1>3, LedgerKeys DEF Key
  <2>3. request'[r].assets \subseteq Catalog
    BY <1>2 DEF RequestsOK, RequestRecord
  <2>4. ASSUME NEW q \in Request, StepOf(q, "create")', NEW a \in request'[q].assets
        PROVE  rows'[Key(a, "ledger", NoLink)] = 0
    BY <2>1, <2>2, <2>3, <2>4
  <2>5. \A a \in Catalog : rows'[Key(a, "ledger", NoLink)] <= 1
    BY <2>2
  <2>6. \A p, q \in Request : StepOf(p, "create")' /\ StepOf(q, "create")' => p = q
    BY <2>1
  <2> QED
    BY <2>4, <2>5, <2>6, Zenon DEF ImportsAlone, Key
<1> QED
  BY <1>1, <1>2, <1>5, <1>6, <1>7

LEMMA CreateStep ==
    ASSUME HoldingsInv, NEW r \in Request, CreateLedgerHolding(r)
    PROVE  HoldingsInv'
<1> USE DEF HoldingsInv
<1>1. request[r].step = "create" /\ UNCHANGED <<link, raced>>
  BY DEF CreateLedgerHolding, StepOf
<1>2. PICK a \in request[r].assets :
         /\ rows' = [rows EXCEPT ![Key(a, "ledger", NoLink)] = rows[Key(a, "ledger", NoLink)] + 1]
         /\ request' = [request EXCEPT ![r].assets = @ \ {a}]
  BY DEF CreateLedgerHolding, CreateRow
<1>3. /\ RequestsOK' /\ OthersKept(r)
      /\ request'[r].step = "create" /\ request'[r].assets = request[r].assets \ {a}
  BY <1>1, <1>2, AssetWritten DEF StepOf
<1> DEFINE k == Key(a, "ledger", NoLink)
<1>4. a \in Catalog /\ request[r].assets \subseteq Catalog
  BY <1>2 DEF RequestsOK, RequestRecord
<1>5. k \in HoldingKey /\ k.ref = NoLink
  BY <1>4, LedgerKeys DEF Key
<1>6. \A b \in Catalog : b # a => Key(b, "ledger", NoLink) # k
  BY DEF Key
<1> HIDE DEF k
<1>7. /\ rows' \in [HoldingKey -> Nat] /\ rows'[k] = rows[k] + 1
      /\ \A o \in HoldingKey \ {k} : rows'[o] = rows[o]
  BY <1>2, <1>5 DEF RowsOK, k
<1>8. RowsOK'
  BY <1>5, <1>7 DEF RowsOK
<1>9. ClearedAreClean'
  <2> SUFFICES ASSUME NEW l \in Link, Cleared(l)', l \notin raced'
               PROVE  Syncing(l)' = {} /\ NoHolding(l)'
    BY DEF ClearedAreClean
  <2>1. Cleared(l) /\ l \notin raced
    BY <1>1, <1>3 DEF Cleared, OthersKept, StepOf
  <2>2. Syncing(l)' \subseteq Syncing(l)
    BY <1>3 DEF Syncing, OthersKept
  <2>3. NoHolding(l) => NoHolding(l)'
    BY <1>5, <1>7, HoldingsAssumption DEF NoHolding
  <2> QED
    BY <2>1, <2>2, <2>3 DEF ClearedAreClean
<1>10. ImportsAlone'
  <2> SUFFICES ASSUME "ledger" \notin raced PROVE ImportsAlone'
    BY <1>1 DEF ImportsAlone
  <2>1. rows[k] = 0
    BY <1>1, <1>2 DEF ImportsAlone, StepOf, k
  <2>2. \A b \in Catalog \ {a} : rows'[Key(b, "ledger", NoLink)] = rows[Key(b, "ledger", NoLink)]
    BY <1>6, <1>7, LedgerKeys
  <2>3. \A b \in Catalog : rows'[Key(b, "ledger", NoLink)] <= 1
    BY <1>7, <2>1, <2>2 DEF ImportsAlone, k
  <2>4. \A q \in Request : request'[q].step = "create" => q = r
    BY <1>1, <1>3 DEF ImportsAlone, OthersKept, StepOf
  <2>5. ASSUME NEW q \in Request, StepOf(q, "create")', NEW b \in request'[q].assets
        PROVE  rows'[Key(b, "ledger", NoLink)] = 0
    <3>1. q = r
      BY <2>4, <2>5 DEF StepOf
    <3>2. b \in request[r].assets /\ b # a
      BY <1>3, <2>5, <3>1
    <3> QED
      BY <1>1, <1>4, <2>2, <3>2 DEF ImportsAlone, StepOf
  <2>6. \A p, q \in Request : StepOf(p, "create")' /\ StepOf(q, "create")' => p = q
    BY <2>4 DEF StepOf
  <2> QED
    BY <2>3, <2>5, <2>6, Zenon DEF ImportsAlone, Key
<1> QED
  BY <1>1, <1>3, <1>8, <1>9, <1>10

-----------------------------------------------------------------------------
(* Holdings: the theorems *)

LEMMA HoldingsStart == HoldingsInit => HoldingsInv
<1> SUFFICES ASSUME HoldingsInit PROVE HoldingsInv
  OBVIOUS
<1>1. RowsOK /\ link \in [Link -> LinkStatus] /\ raced \subseteq Link \cup {"ledger"}
  BY DEF HoldingsInit, RowsOK, LinkStatus
<1>2. \A r \in Request : request[r] = NoRequest
  BY DEF HoldingsInit
<1>3. RequestsOK
  BY <1>2, IdleRequest DEF HoldingsInit, RequestsOK, StepsLinked, NeedsLink
<1>4. ClearedAreClean
  BY <1>2, IdleRequest DEF HoldingsInit, ClearedAreClean, Cleared, StepOf
<1>5. ImportsAlone
  <2>1. \A r \in Request : ~StepOf(r, "create")
    BY <1>2, IdleRequest DEF StepOf
  <2>2. \A a \in Catalog : rows[Key(a, "ledger", NoLink)] = 0
    BY LedgerKeys DEF HoldingsInit
  <2> QED
    BY <2>1, <2>2 DEF ImportsAlone
<1> QED
  BY <1>1, <1>3, <1>4, <1>5 DEF HoldingsInv

LEMMA HoldingsStep == HoldingsInv /\ [HoldingsNext]_holdingVars => HoldingsInv'
<1> SUFFICES ASSUME HoldingsInv, [HoldingsNext]_holdingVars PROVE HoldingsInv'
  OBVIOUS
<1>1. CASE PostHolding \/ PutHolding \/ RemoveHolding \/ DisconnectLedger
  BY <1>1, ManualStep
<1>2. CASE PostCredential \/ PostWallet
  BY <1>2, LinkStep
<1>3. ASSUME NEW r \in Request, RequestNext(r) PROVE HoldingsInv'
  BY <1>3, QuietStep, FindStep, FetchStep, UpsertStep, CascadeStep, DeleteStep, ClearStep,
     CreateStep DEF RequestNext
<1>4. CASE UNCHANGED holdingVars
  BY <1>4 DEF holdingVars, HoldingsInv, RowsOK, RequestsOK, StepsLinked, ClearedAreClean,
              Cleared, Syncing, NoHolding, ImportsAlone, StepOf, Key
<1> QED
  BY <1>1, <1>2, <1>3, <1>4 DEF HoldingsNext

LEMMA HoldingsInvariant == HoldingsSpec => []HoldingsInv
  BY HoldingsStart, HoldingsStep, PTL DEF HoldingsSpec

\* The holdings and link tables and the handlers keep their types; a link's asset
\* is one row, whichever syncs upsert it at the same time.
THEOREM HoldingsTyped == HoldingsSpec => []HoldingsTypeOK
<1>1. HoldingsInv => HoldingsTypeOK
  BY DEF HoldingsInv, HoldingsTypeOK, RowsOK, RequestsOK
<1> QED
  BY <1>1, HoldingsInvariant, PTL

\* Deleting a credential or wallet leaves no holding of it behind, whatever steps
\* of the deletion fail and however often it is asked for again; only a sync that
\* overlaps the deletion writes rows that nothing deletes.
THEOREM OrphansOnlyByRace == HoldingsSpec => []OrphansRaced
<1>1. HoldingsInv => OrphansRaced
  <2> SUFFICES ASSUME HoldingsInv, NEW k \in HoldingKey, rows[k] > 0, k.ref \in Link,
                      link[k.ref] = "deleted", k.ref \notin raced
               PROVE  FALSE
    BY DEF OrphansRaced
  <2>1. NoHolding(k.ref)
    BY DEF HoldingsInv, ClearedAreClean, Cleared
  <2> QED
    BY <2>1 DEF NoHolding
<1> QED
  BY <1>1, HoldingsInvariant, PTL

\* Importing a ledger export again replaces the rows of the earlier import: an
\* asset is counted twice only after two imports have overlapped.
THEOREM ImportsReplace == HoldingsSpec => []LedgerReplaced
<1>1. HoldingsInv => LedgerReplaced
  <2>1. HoldingsInv => \A a \in Catalog : rows[Key(a, "ledger", NoLink)] \in Nat
    BY LedgerKeys DEF HoldingsInv, RowsOK
  <2> QED
    BY <2>1 DEF HoldingsInv, ImportsAlone, LedgerReplaced
<1> QED
  BY <1>1, HoldingsInvariant, PTL

-----------------------------------------------------------------------------
(* Transactions *)

\* Of a row the value and the currency agree.
Agrees(row) == row.value \in {row.currency, "user", "none"}

\* A recompute or a refresh in progress.
JobRecord == [step : JobStep, todo : Seq(Currency), page : SUBSET Trade, got : [Trade -> Value]]

\* The rows agree, and so do the copies the edit handler has read and will write.
RowsAgree ==
    /\ stored \subseteq Trade
    /\ tx \in [Trade -> TxRow]
    /\ \A t \in Trade : Agrees(tx[t])
    /\ edit = [t \in Trade |-> edit[t]]
    /\ \A t \in Trade : edit[t] = <<>> \/ (edit[t][1] \in TxRow /\ Agrees(edit[t][1]))

\* A job that runs has a page of stored rows and a currency left.
JobsOK ==
    /\ job \in [Kind -> JobRecord]
    /\ \A k \in Kind : /\ job[k].page \subseteq stored
                       /\ job[k].step # "idle" => job[k].todo # <<>>

TransactionsInv ==
    /\ RowsAgree
    /\ snapshot \in [Currency -> [Trade -> Value]]
    /\ message \in Hint \cup {NoMessage}
    /\ debounced \in BOOLEAN
    /\ JobsOK

LEMMA IdleJob ==
    /\ NoJob \in JobRecord /\ NoJob.page = {} /\ NoJob.step = "idle"
  BY DEF NoJob, JobRecord, JobStep, NoValues, Value

LEMMA JobFields ==
    ASSUME NEW j \in JobRecord
    PROVE  /\ \A s \in JobStep :
                /\ [j EXCEPT !.step = s] \in JobRecord
                /\ [j EXCEPT !.step = s].step = s
                /\ [j EXCEPT !.step = s].todo = j.todo
                /\ [j EXCEPT !.step = s].page = j.page
           /\ \A todo \in Seq(Currency) :
                /\ [j EXCEPT !.todo = todo] \in JobRecord
                /\ [j EXCEPT !.todo = todo].step = j.step
                /\ [j EXCEPT !.todo = todo].todo = todo
                /\ [j EXCEPT !.todo = todo].page = j.page
           /\ \A S \in SUBSET Trade :
                /\ [j EXCEPT !.page = S] \in JobRecord
                /\ [j EXCEPT !.page = S].step = j.step
                /\ [j EXCEPT !.page = S].todo = j.todo
                /\ [j EXCEPT !.page = S].page = S
           /\ \A got \in [Trade -> Value] :
                /\ [j EXCEPT !.got = got] \in JobRecord
                /\ [j EXCEPT !.got = got].step = j.step
                /\ [j EXCEPT !.got = got].todo = j.todo
                /\ [j EXCEPT !.got = got].page = j.page
  BY DEF JobRecord

LEMMA JobPairs ==
    ASSUME NEW j \in JobRecord, NEW s, NEW todo, NEW S, NEW got
    PROVE  /\ [j EXCEPT !.step = s, !.todo = todo] = [[j EXCEPT !.todo = todo] EXCEPT !.step = s]
           /\ [j EXCEPT !.todo = todo, !.step = s] = [[j EXCEPT !.todo = todo] EXCEPT !.step = s]
           /\ [j EXCEPT !.step = s, !.page = S] = [[j EXCEPT !.page = S] EXCEPT !.step = s]
           /\ [j EXCEPT !.step = s, !.got = got] = [[j EXCEPT !.got = got] EXCEPT !.step = s]
  BY DEF JobRecord

LEMMA NewJob ==
    ASSUME JobsOK, NEW k \in Kind, NEW j \in JobRecord, j.page \subseteq stored,
           j.step # "idle" => j.todo # <<>>, SetJob(k, j), UNCHANGED stored
    PROVE  JobsOK'
  BY DEF JobsOK, SetJob

\* The steps of the two executors keep their jobs in order.
LEMMA JobStepOK ==
    ASSUME TransactionsInv,
           \/ TakeRecompute \/ TakeRefresh \/ RecomputeStep \/ Compute("refresh")
           \/ \E k \in Kind : JobFails(k)
    PROVE  JobsOK' /\ snapshot' \in [Currency -> [Trade -> Value]]
<1> USE DEF TransactionsInv
<1>1. \A k \in Kind : /\ job[k] \in JobRecord /\ job[k].page \subseteq stored
                      /\ job[k].step # "idle" => job[k].todo # <<>>
  BY DEF JobsOK
<1>2. "recompute" \in Kind /\ "refresh" \in Kind
  BY DEF Kind
<1>3. Currencies(NoCurrency) \in Seq(Currency) /\ Currencies(NoCurrency) # <<>>
  BY DEF Currencies, Currency
<1>4. \A h \in Hint : Currencies(h) \in Seq(Currency) /\ Currencies(h) # <<>>
  <2> SUFFICES ASSUME NEW h \in Hint
               PROVE  Currencies(h) \in Seq(Currency) /\ Currencies(h) # <<>>
    OBVIOUS
  <2>1. h \in {"", "EUR", "USD"}
    BY TransactionsAssumption
  <2>2. CASE h = ""
    BY <1>3, <2>2 DEF NoCurrency
  <2>3. CASE h \in Currency
    <3>1. Currencies(h) = <<h>>
      BY <2>3 DEF Currencies, Currency, NoCurrency
    <3> QED
      BY <2>3, <3>1
  <2> QED
    BY <2>1, <2>2, <2>3 DEF Currency
<1>5. ASSUME NEW todo \in Seq(Currency), todo # <<>>, NEW s \in JobStep
      PROVE  /\ [NoJob EXCEPT !.step = s, !.todo = todo] \in JobRecord
             /\ [NoJob EXCEPT !.step = s, !.todo = todo].page = {}
             /\ [NoJob EXCEPT !.step = s, !.todo = todo].todo = todo
  <2> DEFINE j1 == [NoJob EXCEPT !.todo = todo]
  <2>1. j1 \in JobRecord /\ j1.page = {} /\ j1.todo = todo
    BY <1>5, IdleJob, JobFields
  <2>2. [NoJob EXCEPT !.step = s, !.todo = todo] = [j1 EXCEPT !.step = s]
    BY IdleJob, JobPairs
  <2> DEFINE j == [j1 EXCEPT !.step = s]
  <2> HIDE DEF j1
  <2>3. j \in JobRecord /\ j.page = {} /\ j.todo = todo
    BY <1>5, <2>1, JobFields
  <2> QED
    BY <2>2, <2>3, Zenon
<1>6. ASSUME TakeRecompute PROVE JobsOK' /\ snapshot' = snapshot
  <2>1. message \in Hint
    BY <1>6 DEF TakeRecompute
  <2> DEFINE todo == Currencies(message)
             j == [NoJob EXCEPT !.step = "list", !.todo = todo]
  <2>2. j \in JobRecord /\ j.page = {} /\ j.todo # <<>>
    BY <1>4, <1>5, <2>1 DEF JobStep
  <2>3. SetJob("recompute", j) \/ UNCHANGED job
    BY <1>6 DEF TakeRecompute
  <2>4. UNCHANGED <<stored, snapshot>>
    BY <1>6 DEF TakeRecompute, rowState
  <2> HIDE DEF j
  <2>5. CASE SetJob("recompute", j)
    BY <1>2, <2>2, <2>4, <2>5, NewJob
  <2>6. CASE UNCHANGED job
    BY <2>4, <2>6 DEF JobsOK
  <2> QED
    BY <2>3, <2>4, <2>5, <2>6
<1>7. ASSUME TakeRefresh PROVE JobsOK' /\ snapshot' = snapshot
  <2> DEFINE todo == Currencies(NoCurrency)
             j == [NoJob EXCEPT !.step = "load", !.todo = todo]
  <2>1. j \in JobRecord /\ j.page = {} /\ j.todo # <<>>
    BY <1>3, <1>5 DEF JobStep
  <2>2. SetJob("refresh", j) /\ UNCHANGED <<stored, snapshot>>
    BY <1>7 DEF TakeRefresh, rowState
  <2> HIDE DEF j
  <2> QED
    BY <1>2, <2>1, <2>2, NewJob
<1>8. ASSUME ListPage PROVE JobsOK' /\ snapshot' = snapshot
  <2> DEFINE S == {t \in stored : ~tx[t].edited}
             j1 == [job["recompute"] EXCEPT !.page = S]
             j == [j1 EXCEPT !.step = "update"]
  <2>1. S \in SUBSET Trade /\ S \subseteq stored
    BY DEF RowsAgree
  <2>2. /\ SetJob("recompute", [job["recompute"] EXCEPT !.step = "update", !.page = S])
        /\ job["recompute"].step # "idle"
        /\ UNCHANGED <<stored, snapshot>>
    BY <1>8 DEF ListPage, rowState
  <2> HIDE DEF S
  <2>3. j1 \in JobRecord /\ j1.page = S /\ j1.todo = job["recompute"].todo
    <3>1. job["recompute"] \in JobRecord
      BY <1>1, <1>2
    <3> QED
      BY <2>1, <3>1 DEF JobRecord
  <2>4. [job["recompute"] EXCEPT !.step = "update", !.page = S] = j
    BY <1>1, <1>2, JobPairs
  <2> HIDE DEF j1
  <2>5. j \in JobRecord /\ j.page = S /\ j.todo = job["recompute"].todo
    BY <2>3, JobFields DEF JobStep
  <2> HIDE DEF j
  <2> QED
    BY <1>1, <1>2, <2>1, <2>2, <2>4, <2>5, NewJob
<1>9. ASSUME UpdatePage PROVE JobsOK' /\ snapshot' = snapshot
  <2>1. PICK t : SetJob("recompute", [job["recompute"] EXCEPT !.page = @ \ {t}])
    BY <1>9 DEF UpdatePage
  <2> DEFINE S == job["recompute"].page \ {t}
             j == [job["recompute"] EXCEPT !.page = S]
  <2>2. S \in SUBSET Trade /\ S \subseteq stored
    BY <1>1, <1>2 DEF JobRecord
  <2>3. SetJob("recompute", j) /\ job["recompute"].step # "idle" /\ UNCHANGED <<stored, snapshot>>
    BY <1>9, <2>1 DEF UpdatePage
  <2> HIDE DEF S
  <2>4. j \in JobRecord /\ j.page = S /\ j.todo = job["recompute"].todo
    <3>1. job["recompute"] \in JobRecord
      BY <1>1, <1>2
    <3> QED
      BY <2>2, <3>1 DEF JobRecord
  <2> HIDE DEF j
  <2> QED
    BY <1>1, <1>2, <2>2, <2>3, <2>4, NewJob
<1>10. ASSUME PageDone PROVE JobsOK' /\ snapshot' = snapshot
  <2> DEFINE j == [job["recompute"] EXCEPT !.step = "load"]
  <2>1. SetJob("recompute", j) /\ job["recompute"].step # "idle" /\ UNCHANGED <<stored, snapshot>>
    BY <1>10 DEF PageDone, rowState
  <2>2. j \in JobRecord /\ j.page = job["recompute"].page /\ j.todo = job["recompute"].todo
    BY <1>1, <1>2, JobFields DEF JobStep
  <2> HIDE DEF j
  <2> QED
    BY <1>1, <1>2, <2>1, <2>2, NewJob
<1>11. ASSUME NEW k \in Kind, LoadTransactions(k) PROVE JobsOK' /\ snapshot' = snapshot
  <2> DEFINE got == Valued
             j1 == [job[k] EXCEPT !.got = got]
             j == [j1 EXCEPT !.step = "store"]
  <2>1. got \in [Trade -> Value]
    BY DEF Valued, RowsAgree, TxRow, Value
  <2>2. /\ SetJob(k, [job[k] EXCEPT !.step = "store", !.got = got])
        /\ job[k].step # "idle" /\ UNCHANGED <<stored, snapshot>>
    BY <1>11 DEF LoadTransactions, rowState
  <2> HIDE DEF got
  <2>3. j1 \in JobRecord /\ j1.page = job[k].page /\ j1.todo = job[k].todo
    BY <1>1, <2>1, JobFields
  <2>4. [job[k] EXCEPT !.step = "store", !.got = got] = j
    BY <1>1, JobPairs
  <2> HIDE DEF j1
  <2>5. j \in JobRecord /\ j.page = job[k].page /\ j.todo = job[k].todo
    BY <2>3, JobFields DEF JobStep
  <2> HIDE DEF j
  <2> QED
    BY <1>1, <2>2, <2>4, <2>5, NewJob
<1>12. ASSUME NEW k \in Kind, StoreSnapshot(k)
       PROVE  JobsOK' /\ snapshot' \in [Currency -> [Trade -> Value]]
  <2> DEFINE rest == Tail(job[k].todo)
             step == IF k = "recompute" THEN "list" ELSE "load"
             j == [NoJob EXCEPT !.step = step, !.todo = rest]
  <2>1. job[k].step # "idle" /\ UNCHANGED stored
    BY <1>12 DEF StoreSnapshot, rowState
  <2>2. job[k].todo \in Seq(Currency) /\ job[k].todo # <<>> /\ job[k].got \in [Trade -> Value]
    BY <1>1, <2>1 DEF JobRecord
  <2>3. snapshot' = [snapshot EXCEPT ![Head(job[k].todo)] = job[k].got]
    BY <1>12 DEF StoreSnapshot
  <2>4. snapshot' \in [Currency -> [Trade -> Value]]
    BY <2>2, <2>3
  <2>5. SetJob(k, IF rest = <<>> THEN NoJob ELSE [NoJob EXCEPT !.todo = rest, !.step = step])
    BY <1>12 DEF StoreSnapshot
  <2>6. step \in JobStep /\ rest \in Seq(Currency)
    BY <2>2 DEF JobStep
  <2>7. [NoJob EXCEPT !.todo = rest, !.step = step] = j
    BY IdleJob, JobPairs
  <2>8. rest # <<>> => j \in JobRecord /\ j.page = {} /\ j.todo = rest
    BY <1>5, <2>6
  <2> HIDE DEF rest, step, j
  <2>9. CASE rest = <<>>
    BY <2>1, <2>4, <2>5, <2>9, IdleJob, NewJob
  <2>10. CASE rest # <<>>
    BY <2>1, <2>4, <2>5, <2>7, <2>8, <2>10, NewJob
  <2> QED
    BY <2>9, <2>10
<1>13. ASSUME NEW k \in Kind, JobFails(k) PROVE JobsOK' /\ snapshot' = snapshot
  BY <1>13, IdleJob, NewJob DEF JobFails, rowState
<1> QED
  BY <1>2, <1>6, <1>7, <1>8, <1>9, <1>10, <1>11, <1>12, <1>13 DEF RecomputeStep, Compute

LEMMA TxRowFields ==
    ASSUME NEW row \in TxRow, NEW v \in Value, NEW b \in BOOLEAN
    PROVE  /\ [row EXCEPT !.value = v, !.edited = b] \in TxRow
           /\ [row EXCEPT !.value = v, !.edited = b].value = v
           /\ [row EXCEPT !.value = v, !.edited = b].currency = row.currency
           /\ [row EXCEPT !.value = v, !.edited = b].edited = b
  BY DEF TxRow

LEMMA FreshRow ==
    ASSUME NEW c \in Currency, NEW v \in Resolve(c), NEW b \in BOOLEAN
    PROVE  /\ [value |-> v, currency |-> c, edited |-> b] \in TxRow
           /\ Agrees([value |-> v, currency |-> c, edited |-> b])
  BY DEF Resolve, TxRow, Value, Agrees

\* What a step may write into the row of a trade.
LEMMA RowWritten ==
    ASSUME RowsAgree, NEW t \in Trade, NEW row \in TxRow, Agrees(row), Update(t, row)
    PROVE  tx' \in [Trade -> TxRow] /\ \A u \in Trade : Agrees(tx'[u])
  BY DEF RowsAgree, Update

LEMMA SyncedRow ==
    ASSUME RowsAgree, NEW t \in Trade, NormalizeForSource(t)
    PROVE  RowsAgree' /\ \A u \in Trade : tx[u].edited => tx'[u] = tx[u]
<1>1. PICK v \in Resolve("USD") :
         tx' = [tx EXCEPT ![t] = IF tx[t].edited THEN tx[t]
                                 ELSE [value |-> v, currency |-> "USD", edited |-> FALSE]]
  BY Zenon DEF NormalizeForSource, Upsert
<1> DEFINE fresh == [value |-> v, currency |-> "USD", edited |-> FALSE]
           row == IF tx[t].edited THEN tx[t] ELSE fresh
<1>2. fresh \in TxRow /\ Agrees(fresh)
  <2>1. FALSE \in BOOLEAN /\ "USD" \in Currency
    BY DEF Currency
  <2> QED
    BY <2>1, FreshRow, Zenon
<1>3. tx' = [tx EXCEPT ![t] = row]
  BY <1>1, Zenon
<1>4. tx[t].edited => row = tx[t]
  BY Zenon
<1>5. ~tx[t].edited => row = fresh
  BY Zenon
<1> HIDE DEF row, fresh
<1>6. row \in TxRow /\ Agrees(row)
  BY <1>2, <1>4, <1>5 DEF RowsAgree
<1>7. tx' \in [Trade -> TxRow] /\ \A u \in Trade : Agrees(tx'[u])
  BY <1>3, <1>6, RowWritten DEF Update
<1>8. \A u \in Trade : tx[u].edited => tx'[u] = tx[u]
  BY <1>3, <1>4 DEF RowsAgree
<1>9. stored' \subseteq Trade /\ edit' = edit
  BY DEF RowsAgree, NormalizeForSource, Upsert
<1> QED
  BY <1>7, <1>8, <1>9 DEF RowsAgree

LEMMA EditedRow ==
    ASSUME RowsAgree, NEW t \in Trade, UpdateTransaction(t)
    PROVE  RowsAgree' /\ \A u \in Trade : tx[u].edited => tx'[u].edited
<1> DEFINE row == edit[t][1]
<1>1. row \in TxRow /\ Agrees(row)
  BY DEF RowsAgree, UpdateTransaction
<1>2. PICK v \in {row.value, IF row.value = "none" THEN "none" ELSE "user"} :
         tx' = [tx EXCEPT ![t] = [row EXCEPT !.value = v, !.edited = TRUE]]
  BY Zenon DEF UpdateTransaction, Update
<1> DEFINE new == [row EXCEPT !.value = v, !.edited = TRUE]
<1>3. v \in Value /\ v \in {row.currency, "user", "none"}
  BY <1>1 DEF TxRow, Value, Agrees
<1> HIDE DEF row
<1>4. new \in TxRow /\ new.value = v /\ new.currency = row.currency /\ new.edited = TRUE
  <2>1. TRUE \in BOOLEAN
    OBVIOUS
  <2> QED
    BY <1>1, <1>3, <2>1, TxRowFields, Zenon
<1>5. tx' = [tx EXCEPT ![t] = new]
  BY <1>2, Zenon
<1> HIDE DEF new
<1>6. Agrees(new)
  BY <1>3, <1>4 DEF Agrees
<1>7. tx' \in [Trade -> TxRow] /\ \A u \in Trade : Agrees(tx'[u])
  BY <1>4, <1>5, <1>6, RowWritten DEF Update
<1>8. \A u \in Trade : tx[u].edited => tx'[u].edited
  <2>1. \A u \in Trade : tx'[u] = IF u = t THEN new ELSE tx[u]
    BY <1>5 DEF RowsAgree
  <2> HIDE DEF RowsAgree
  <2> QED
    BY <1>4, <2>1, Zenon
<1>9. stored' \subseteq Trade /\ edit' = [edit EXCEPT ![t] = <<>>]
  BY DEF RowsAgree, UpdateTransaction
<1>10. /\ edit' = [u \in Trade |-> edit'[u]]
       /\ \A u \in Trade : edit'[u] = <<>> \/ edit'[u] = edit[u]
  BY <1>9 DEF RowsAgree
<1> QED
  BY <1>7, <1>8, <1>9, <1>10 DEF RowsAgree

LEMMA ReadRow ==
    ASSUME RowsAgree, NEW t \in Trade, FindTransaction(t)
    PROVE  RowsAgree' /\ tx' = tx
<1>1. edit' = [edit EXCEPT ![t] = <<tx[t]>>] /\ UNCHANGED <<stored, tx>>
  BY DEF FindTransaction
<1>2. /\ edit' = [u \in Trade |-> edit'[u]]
      /\ \A u \in Trade : edit'[u] = <<tx[u]>> \/ edit'[u] = edit[u]
  BY <1>1 DEF RowsAgree
<1>3. \A u \in Trade : <<tx[u]>>[1] = tx[u]
  OBVIOUS
<1> QED
  BY <1>1, <1>2, <1>3 DEF RowsAgree

LEMMA RecomputedRow ==
    ASSUME RowsAgree, JobsOK, UpdatePage
    PROVE  RowsAgree' /\ \A u \in Trade \ job["recompute"].page : tx'[u] = tx[u]
<1> DEFINE c == Head(job["recompute"].todo)
<1>1. PICK t \in job["recompute"].page, v \in Resolve(c) :
         tx' = [tx EXCEPT ![t] = [value |-> v, currency |-> c, edited |-> FALSE]]
  BY Zenon DEF UpdatePage, Update, ReNormalized
<1>2. c \in Currency /\ t \in Trade
  <2>1. job["recompute"] \in JobRecord /\ job["recompute"].step = "update"
    BY DEF JobsOK, UpdatePage, Kind
  <2>2. job["recompute"].todo \in Seq(Currency) /\ job["recompute"].todo # <<>>
    BY <2>1 DEF JobsOK, JobRecord, Kind
  <2> QED
    BY <1>1, <2>1, <2>2 DEF JobRecord
<1> DEFINE new == [value |-> v, currency |-> c, edited |-> FALSE]
<1> HIDE DEF c
<1>3. new \in TxRow /\ Agrees(new)
  <2>1. FALSE \in BOOLEAN
    OBVIOUS
  <2> QED
    BY <1>1, <1>2, <2>1, FreshRow, Zenon
<1>4. tx' = [tx EXCEPT ![t] = new]
  BY <1>1, Zenon
<1> HIDE DEF new
<1>5. tx' \in [Trade -> TxRow] /\ \A u \in Trade : Agrees(tx'[u])
  BY <1>2, <1>3, <1>4, RowWritten DEF Update
<1>6. UNCHANGED <<stored, edit>>
  BY DEF UpdatePage
<1>7. \A u \in Trade \ job["recompute"].page : tx'[u] = tx[u]
  BY <1>1, <1>4 DEF RowsAgree
<1> QED
  BY <1>5, <1>6, <1>7 DEF RowsAgree

\* One step of handlers and tasks: the rows stay in agreement, and an edited
\* row stays so unless a recompute has it on its page.
LEMMA TransactionsStep ==
    ASSUME TransactionsInv, [TransactionsNext]_txVars
    PROVE  /\ TransactionsInv'
           /\ \A t \in Trade : tx[t].edited /\ ~tx'[t].edited => t \in job["recompute"].page
<1> USE DEF TransactionsInv
<1> DEFINE Goal == /\ TransactionsInv'
                   /\ \A t \in Trade : tx[t].edited /\ ~tx'[t].edited
                                            => t \in job["recompute"].page
<1>1. ASSUME NEW t \in Trade, NormalizeForSource(t) PROVE Goal
  <2>1. stored \subseteq stored' /\ UNCHANGED <<snapshot, message, debounced, job>>
    BY <1>1 DEF NormalizeForSource, Upsert
  <2>2. JobsOK'
    BY <2>1 DEF JobsOK
  <2> QED
    BY <1>1, <2>1, <2>2, SyncedRow
<1>2. ASSUME NEW t \in Trade, FindTransaction(t) PROVE Goal
  <2>1. UNCHANGED <<stored, snapshot, message, debounced, job>>
    BY <1>2 DEF FindTransaction
  <2>2. JobsOK'
    BY <2>1 DEF JobsOK
  <2> QED
    BY <1>2, <2>1, <2>2, ReadRow
<1>3. ASSUME NEW t \in Trade, UpdateTransaction(t) PROVE Goal
  <2>1. UNCHANGED <<stored, snapshot, message, debounced, job>>
    BY <1>3 DEF UpdateTransaction
  <2>2. JobsOK'
    BY <2>1 DEF JobsOK
  <2> QED
    BY <1>3, <2>1, <2>2, EditedRow
<1>4. ASSUME NEW h \in Hint, QueueRecompute(h) PROVE Goal
  BY <1>4 DEF QueueRecompute, rowState, RowsAgree, JobsOK
<1>5. ASSUME DebounceWindowEnds PROVE Goal
  BY <1>5 DEF DebounceWindowEnds, rowState, RowsAgree, JobsOK
<1>6. ASSUME \/ TakeRecompute \/ TakeRefresh \/ ListPage \/ PageDone
             \/ Compute("recompute") \/ Compute("refresh") \/ \E k \in Kind : JobFails(k)
      PROVE  Goal
  <2>1. JobsOK' /\ snapshot' \in [Currency -> [Trade -> Value]]
    BY <1>6, JobStepOK DEF RecomputeStep
  <2>2. UNCHANGED <<rowState, debounced>> /\ message' \in {message, NoMessage}
    BY <1>6 DEF TakeRecompute, TakeRefresh, ListPage, PageDone, Compute, LoadTransactions,
                StoreSnapshot, JobFails
  <2>3. RowsAgree' /\ tx' = tx
    BY <2>2 DEF rowState, RowsAgree
  <2> QED
    BY <2>1, <2>2, <2>3
<1>7. ASSUME UpdatePage PROVE Goal
  <2>1. JobsOK' /\ snapshot' \in [Currency -> [Trade -> Value]]
    BY <1>7, JobStepOK DEF RecomputeStep
  <2>2. UNCHANGED <<message, debounced>>
    BY <1>7 DEF UpdatePage
  <2> QED
    BY <1>7, <2>1, <2>2, RecomputedRow
<1>8. ASSUME UNCHANGED txVars PROVE Goal
  BY <1>8 DEF txVars, rowState, RowsAgree, JobsOK
<1> HIDE DEF Goal
<1>9. Goal
  BY <1>1, <1>2, <1>3, <1>4, <1>5, <1>6, <1>7, <1>8 DEF TransactionsNext, RecomputeStep
<1> QED
  BY <1>9 DEF Goal

LEMMA TransactionsInvariant == TransactionsSpec => []TransactionsInv
<1>1. TransactionsInit => TransactionsInv
  <2> SUFFICES ASSUME TransactionsInit PROVE TransactionsInv
    OBVIOUS
  <2>1. NoRow \in TxRow /\ Agrees(NoRow)
    BY DEF NoRow, TxRow, Value, Currency, Agrees
  <2>2. RowsAgree
    BY <2>1 DEF TransactionsInit, RowsAgree
  <2>3. JobsOK
    BY IdleJob DEF TransactionsInit, JobsOK
  <2>4. snapshot \in [Currency -> [Trade -> Value]]
    BY DEF TransactionsInit, NoValues, Value
  <2> QED
    BY <2>2, <2>3, <2>4 DEF TransactionsInit, TransactionsInv
<1>2. TransactionsInv /\ [TransactionsNext]_txVars => TransactionsInv'
  BY TransactionsStep
<1> QED
  BY <1>1, <1>2, PTL DEF TransactionsSpec

\* The transactions, their snapshots and the queued work keep their types; a job
\* reads a page of stored transactions, for a currency that is still to do.
THEOREM TransactionsTyped == TransactionsSpec => []TransactionsTypeOK
<1>1. TransactionsInv => TransactionsTypeOK
  BY DEF TransactionsInv, RowsAgree, JobsOK, JobRecord, TransactionsTypeOK
<1> QED
  BY <1>1, TransactionsInvariant, PTL

\* A stored transaction's value is in the reference currency its row names, is
\* the user's own, or is missing: no interleaving of a sync, an edit and a
\* recompute of another currency mixes the two.
THEOREM ValuesKeepTheirCurrency == TransactionsSpec => []ValueMatchesCurrency
<1>1. TransactionsInv => ValueMatchesCurrency
  BY DEF TransactionsInv, RowsAgree, Agrees, ValueMatchesCurrency
<1> QED
  BY <1>1, TransactionsInvariant, PTL

\* A sync never undoes the user's edit of a transaction; only a recompute that
\* had listed the row before it was edited does.
THEOREM EditsSurviveSyncs == TransactionsSpec => EditKept
<1>1. TransactionsInv /\ [TransactionsNext]_txVars =>
        [\A t \in Trade : (tx[t].edited /\ ~tx'[t].edited) => t \in job["recompute"].page]_txVars
  BY TransactionsStep
<1> QED
  BY <1>1, TransactionsInvariant, PTL DEF TransactionsSpec, EditKept

-----------------------------------------------------------------------------
(* The portfolio stream *)

\* The moves the subscription has heard of are queued from its begin.
HeardIsQueued ==
    stream \in {"subscribed", "open"} => (moved \ unheard) \cap watched \subseteq pending

\* What has come into the channel since the last notification of the user's
\* own has been counted.
ForeignCounted ==
    \A i \in 1..Len(inbox) :
        (\A j \in i..Len(inbox) : inbox[j] # "own") => Len(inbox) - i < foreign

StreamInv ==
    /\ task \in {"idle", "notify"}
    /\ inbox \in Seq({"own", "foreign"})
    /\ foreign \in 0..MaxForeign
    /\ HeardIsQueued
    /\ ForeignCounted
    /\ OldViewIsNotified

\* A channel full of nothing but other users' updates would take as many.
LEMMA FullHasOwn ==
    ASSUME StreamInv, Len(inbox) >= Capacity, MaxForeign < Capacity
    PROVE  "own" \in Range(inbox)
<1> SUFFICES ASSUME "own" \notin Range(inbox) PROVE FALSE
  OBVIOUS
<1>1. \A j \in 1..Len(inbox) : inbox[j] # "own"
  BY DEF StreamInv, Range
<1>2. 1 \in 1..Len(inbox) /\ Len(inbox) \in Nat
  BY StreamAssumption DEF StreamInv
<1>3. Len(inbox) - 1 < foreign
  BY <1>1, <1>2 DEF StreamInv, ForeignCounted
<1> QED
  BY <1>2, <1>3, StreamAssumption DEF StreamInv

LEMMA OfferStep ==
    ASSUME StreamInv, NEW m \in {"own", "foreign"}, Offer(m),
           foreign' \in 0..MaxForeign, foreign' >= foreign,
           m = "foreign" => foreign' = foreign + 1
    PROVE  /\ inbox' \in Seq({"own", "foreign"})
           /\ ForeignCounted'
           /\ Range(inbox) \subseteq Range(inbox')
           /\ stream = "open" /\ Len(inbox) < Capacity => m \in Range(inbox')
<1>1. inbox \in Seq({"own", "foreign"}) /\ foreign \in Nat /\ foreign' \in Nat
  BY StreamAssumption DEF StreamInv
<1>2. CASE inbox' = Append(inbox, m)
  <2>1. /\ inbox' \in Seq({"own", "foreign"}) /\ Len(inbox') = Len(inbox) + 1
        /\ inbox'[Len(inbox) + 1] = m
        /\ \A i \in 1..Len(inbox) : inbox'[i] = inbox[i]
    BY <1>1, <1>2
  <2>2. Range(inbox) \subseteq Range(inbox') /\ m \in Range(inbox')
    BY <1>1, <2>1 DEF Range
  <2>3. ASSUME NEW i \in 1..Len(inbox'), \A j \in i..Len(inbox') : inbox'[j] # "own"
        PROVE  Len(inbox') - i < foreign'
    <3>1. m = "foreign"
      BY <1>1, <2>1, <2>3
    <3>2. CASE i = Len(inbox')
      BY <1>1, <2>1, <3>1, <3>2
    <3>3. CASE i # Len(inbox')
      <4>1. i \in 1..Len(inbox) /\ \A j \in i..Len(inbox) : inbox[j] # "own"
        BY <1>1, <2>1, <2>3, <3>3
      <4>2. Len(inbox) - i < foreign
        BY <4>1 DEF StreamInv, ForeignCounted
      <4> QED
        BY <1>1, <2>1, <3>1, <4>2
    <3> QED
      BY <3>2, <3>3
  <2> QED
    BY <2>1, <2>2, <2>3 DEF ForeignCounted
<1>3. CASE inbox' = inbox /\ ~(stream = "open" /\ Len(inbox) < Capacity)
  <2>1. ForeignCounted'
    BY <1>1, <1>3 DEF StreamInv, ForeignCounted
  <2> QED
    BY <1>1, <1>3, <2>1
<1> QED
  BY <1>2, <1>3 DEF Offer

LEMMA TakeStep ==
    ASSUME StreamInv, inbox # <<>>, inbox' = Tail(inbox), UNCHANGED foreign
    PROVE  /\ inbox' \in Seq({"own", "foreign"})
           /\ ForeignCounted'
           /\ Range(inbox) \subseteq Range(inbox') \cup {Head(inbox)}
<1>1. inbox \in Seq({"own", "foreign"}) /\ foreign \in Nat /\ Len(inbox) > 0
  BY StreamAssumption DEF StreamInv
<1>2. /\ inbox' \in Seq({"own", "foreign"}) /\ Len(inbox') = Len(inbox) - 1
      /\ \A i \in 1..Len(inbox') : inbox'[i] = inbox[i + 1]
  BY <1>1
<1>3. ForeignCounted'
  <2> SUFFICES ASSUME NEW i \in 1..Len(inbox'), \A j \in i..Len(inbox') : inbox'[j] # "own"
               PROVE  Len(inbox') - i < foreign
    BY DEF ForeignCounted
  <2>1. i + 1 \in 1..Len(inbox)
    BY <1>1, <1>2
  <2>2. ASSUME NEW j \in (i + 1)..Len(inbox) PROVE inbox[j] # "own"
    <3>1. j - 1 \in i..Len(inbox') /\ j - 1 \in 1..Len(inbox')
      BY <1>1, <1>2, <2>2
    <3>2. inbox'[j - 1] = inbox[(j - 1) + 1] /\ (j - 1) + 1 = j
      BY <1>2, <2>2, <3>1
    <3> QED
      BY <3>1, <3>2
  <2>3. Len(inbox) - (i + 1) < foreign
    BY <2>1, <2>2 DEF StreamInv, ForeignCounted
  <2> QED
    BY <1>1, <1>2, <2>3
<1>4. ASSUME NEW m \in Range(inbox), m # Head(inbox) PROVE m \in Range(inbox')
  <2>1. PICK i \in 1..Len(inbox) : inbox[i] = m
    BY <1>1, <1>4 DEF Range
  <2>2. i - 1 \in 1..Len(inbox') /\ (i - 1) + 1 = i
    BY <1>1, <1>2, <1>4, <2>1
  <2>3. inbox'[i - 1] = m
    BY <1>2, <2>1, <2>2
  <2>4. DOMAIN inbox' = 1..Len(inbox')
    BY <1>2
  <2> QED
    BY <2>2, <2>3, <2>4 DEF Range
<1> QED
  BY <1>2, <1>3, <1>4

LEMMA StreamStepOK == StreamInv /\ [PortfolioStreamNext]_portfolioStreamVars => StreamInv'
<1> SUFFICES ASSUME StreamInv, [PortfolioStreamNext]_portfolioStreamVars PROVE StreamInv'
  OBVIOUS
<1>1. ASSUME NEW a \in StreamAsset, PriceMoves(a) \/ HoldingsChange(a) PROVE StreamInv'
  BY <1>1 DEF StreamInv, HeardIsQueued, ForeignCounted, OldViewIsNotified, PriceMoves,
              HoldingsChange, noticeVars
<1>2. CASE SnapshotStored \/ TaskFails
  BY <1>2 DEF StreamInv, HeardIsQueued, ForeignCounted, OldViewIsNotified, SnapshotStored,
              TaskFails, priceVars
<1>3. CASE NotifyPortfolioUpdate
  <2>1. UNCHANGED <<stream, priceVars, view, foreign>> /\ Offer("own")
    BY <1>3 DEF NotifyPortfolioUpdate
  <2>2. foreign' \in 0..MaxForeign /\ foreign' >= foreign
    BY <2>1, StreamAssumption DEF StreamInv
  <2>3. /\ inbox' \in Seq({"own", "foreign"}) /\ ForeignCounted'
        /\ Range(inbox) \subseteq Range(inbox')
        /\ stream = "open" /\ Len(inbox) < Capacity => "own" \in Range(inbox')
    BY <2>1, <2>2, OfferStep
  <2>4. OldViewIsNotified'
    <3> SUFFICES ASSUME stream = "open", MaxForeign < Capacity PROVE "own" \in Range(inbox')
      BY <2>1 DEF OldViewIsNotified
    <3>1. Len(inbox) < Capacity \/ Len(inbox) >= Capacity
      BY StreamAssumption DEF StreamInv
    <3> QED
      BY <2>3, <3>1, FullHasOwn
  <2>5. HeardIsQueued' /\ task' = "idle"
    BY <1>3, <2>1 DEF StreamInv, HeardIsQueued, NotifyPortfolioUpdate, priceVars
  <2> QED
    BY <2>2, <2>3, <2>4, <2>5 DEF StreamInv
<1>4. CASE ForeignUpdate
  <2>1. /\ UNCHANGED <<stream, priceVars, task, view>> /\ Offer("foreign")
        /\ foreign' = foreign + 1 /\ foreign < MaxForeign
    BY <1>4 DEF ForeignUpdate
  <2>2. foreign' \in 0..MaxForeign /\ foreign' >= foreign
    BY <2>1, StreamAssumption DEF StreamInv
  <2>3. /\ inbox' \in Seq({"own", "foreign"}) /\ ForeignCounted'
        /\ Range(inbox) \subseteq Range(inbox')
    BY <2>1, <2>2, OfferStep
  <2>4. HeardIsQueued' /\ OldViewIsNotified'
    BY <2>1, <2>3 DEF StreamInv, HeardIsQueued, OldViewIsNotified, priceVars
  <2> QED
    BY <2>1, <2>2, <2>3, <2>4 DEF StreamInv
<1>5. CASE OpenStream \/ WatchHoldings \/ SubscribePrices \/ SubscribeUpdates
  BY <1>5 DEF StreamInv, HeardIsQueued, ForeignCounted, OldViewIsNotified, OpenStream,
              WatchHoldings, SubscribePrices, SubscribeUpdates, priceVars, noticeVars
<1>6. CASE PushValuation \/ ValuationFails
  BY <1>6 DEF StreamInv, HeardIsQueued, ForeignCounted, OldViewIsNotified, PushValuation,
              ValuationFails, HasRelevantUpdate, noticeVars
<1>7. CASE PushUpdated
  <2>1. /\ UNCHANGED <<stream, priceVars, task, foreign>>
        /\ inbox # <<>> /\ inbox' = Tail(inbox)
        /\ view' = IF Head(inbox) = "own" /\ task = "idle" THEN "current" ELSE view
        /\ stream = "open"
    BY <1>7 DEF PushUpdated
  <2>2. /\ inbox' \in Seq({"own", "foreign"}) /\ ForeignCounted'
        /\ Range(inbox) \subseteq Range(inbox') \cup {Head(inbox)}
    BY <2>1, TakeStep
  <2>3. HeardIsQueued'
    BY <2>1 DEF StreamInv, HeardIsQueued, priceVars
  <2>4. OldViewIsNotified'
    BY <2>1, <2>2 DEF StreamInv, OldViewIsNotified
  <2> QED
    BY <2>1, <2>2, <2>3, <2>4 DEF StreamInv
<1>8. CASE CloseStream
  BY <1>8 DEF StreamInv, HeardIsQueued, ForeignCounted, OldViewIsNotified, CloseStream
<1>9. CASE UNCHANGED portfolioStreamVars
  BY <1>9 DEF StreamInv, HeardIsQueued, ForeignCounted, OldViewIsNotified,
              portfolioStreamVars, priceVars, noticeVars
<1> QED
  BY <1>1, <1>2, <1>3, <1>4, <1>5, <1>6, <1>7, <1>8, <1>9 DEF PortfolioStreamNext

\* What an open portfolio stream owes its client is on its way, whatever the
\* user's subscription dropped when its channel was full: every price move it has
\* heard of is in its queue, and a view older than the holdings has a notification
\* coming.
THEOREM WhatIsOwedIsQueued == PortfolioStreamSpec => []OwedIsQueued
<1>1. PortfolioStreamInit => StreamInv
  BY StreamAssumption
     DEF PortfolioStreamInit, StreamInv, HeardIsQueued, ForeignCounted, OldViewIsNotified
<1>2. StreamInv => OwedIsQueued
  BY DEF StreamInv, HeardIsQueued, OwedIsQueued, MoveIsQueued
<1> QED
  BY <1>1, <1>2, StreamStepOK, PTL DEF PortfolioStreamSpec

-----------------------------------------------------------------------------
(* Valuation: shares *)

\* What dividing does.
LEMMA Quotient ==
    ASSUME NEW a \in Nat, NEW b \in Nat \ {0}
    PROVE  /\ a \div b \in Nat
           /\ b * (a \div b) <= a
           /\ a < b * (a \div b) + b
OBVIOUS

\* r are the shares of v in the total T, rounded to hundredths of a percent.
AreShares(r, v, T, D) ==
    /\ IsFiniteSet(D)
    /\ T \in Nat \ {0} /\ T = SumFunctionOnSet(v, D)
    /\ \A n \in D : v[n] \in Nat /\ r[n] = (20000 * v[n] + T) \div (2 * T)

\* Rounding moves a share by at most half a hundredth,
LEMMA ShareError ==
    ASSUME NEW r, NEW v, NEW T, NEW D, AreShares(r, v, T, D), NEW n \in D
    PROVE  /\ r[n] \in Nat
           /\ -T <= 2 * T * r[n] - 20000 * v[n]
           /\ 2 * T * r[n] - 20000 * v[n] <= T
<1>1. T \in Nat \ {0} /\ v[n] \in Nat /\ r[n] = (20000 * v[n] + T) \div (2 * T)
  BY DEF AreShares
<1> DEFINE a == 20000 * v[n] + T
           b == 2 * T
<1>2. a \in Nat /\ b \in Nat \ {0}
  BY <1>1
<1>3. r[n] \in Nat /\ b * r[n] <= a /\ a < b * r[n] + b
  <2>1. r[n] = a \div b
    BY <1>1
  <2> HIDE DEF a, b
  <2> QED
    BY <1>2, <2>1, Quotient
<1>4. 2 * T * r[n] = b * r[n] /\ b * r[n] \in Int
  BY <1>1, <1>3
<1> QED
  BY <1>1, <1>3, <1>4

\* and their sum by at most half a hundredth per holding.
LEMMA SharesError ==
    ASSUME NEW r, NEW v, NEW T, NEW D, AreShares(r, v, T, D)
    PROVE  /\ SumFunctionOnSet(r, D) \in Int
           /\ 20000 - Cardinality(D) <= 2 * SumFunctionOnSet(r, D)
           /\ 2 * SumFunctionOnSet(r, D) <= 20000 + Cardinality(D)
<1> DEFINE e == [n \in D |-> (2 * T) * r[n] + (-20000) * v[n]]
           R == SumFunctionOnSet(r, D)
           k == Cardinality(D)
<1>1. /\ IsFiniteSet(D) /\ T \in Nat \ {0} /\ T = SumFunctionOnSet(v, D) /\ k \in Nat
      /\ \A n \in D : v[n] \in Nat
  BY FS_CardinalityType DEF AreShares
<1>2. \A n \in D : r[n] \in Nat /\ e[n] \in Int /\ -T <= e[n] /\ e[n] <= T
  <2> SUFFICES ASSUME NEW n \in D
               PROVE  r[n] \in Nat /\ e[n] \in Int /\ -T <= e[n] /\ e[n] <= T
    OBVIOUS
  <2>1. r[n] \in Nat /\ -T <= 2 * T * r[n] - 20000 * v[n] /\ 2 * T * r[n] - 20000 * v[n] <= T
    BY ShareError
  <2>2. e[n] = 2 * T * r[n] - 20000 * v[n]
    BY <1>1, <2>1
  <2> QED
    BY <1>1, <2>1, <2>2
<1>3. R \in Int
  BY <1>1, <1>2, SumSame
<1>4. SumFunctionOnSet(e, D) = (2 * T) * R + (-20000) * T
  <2>1. Combines(e, D, 2 * T, r, -20000, v)
    BY <1>1, <1>2 DEF Combines
  <2> HIDE DEF e
  <2> QED
    BY <1>1, <2>1, SumLinear
<1>5. k * (-T) <= SumFunctionOnSet(e, D) /\ SumFunctionOnSet(e, D) <= k * T
  <2>1. T \in Int /\ -T \in Int
    BY <1>1
  <2> HIDE DEF e
  <2> QED
    BY <1>1, <1>2, <2>1, SumBounds
<1> HIDE DEF e, R, k
<1>6. T * (20000 - k) <= T * (2 * R) /\ T * (2 * R) <= T * (20000 + k)
  BY <1>1, <1>3, <1>4, <1>5
<1>7. \A x, y \in Int : T * x <= T * y => x <= y
  BY <1>1
<1>8. 20000 - k <= 2 * R /\ 2 * R <= 20000 + k
  BY <1>1, <1>3, <1>6, <1>7
<1> QED
  BY <1>3, <1>8 DEF R, k

\* A share no other exceeds stays non-negative after the correction, with up to
\* 142 holdings: it is large, or they are all so small that they add up to less
\* than the whole.
LEMMA LargestShare ==
    ASSUME NEW r, NEW v, NEW T, NEW D, AreShares(r, v, T, D), Cardinality(D) <= 142,
           NEW l \in D, \A n \in D : r[n] <= r[l]
    PROVE  r[l] + (10000 - SumFunctionOnSet(r, D)) >= 0
<1> DEFINE R == SumFunctionOnSet(r, D)
           Others == SumFunctionOnSet(r, D \ {l})
           k == Cardinality(D)
<1>1. IsFiniteSet(D) /\ IsFiniteSet(D \ {l}) /\ k \in Nat /\ Cardinality(D \ {l}) = k - 1
  BY FS_CardinalityType, FS_RemoveElement DEF AreShares
<1>2. \A n \in D : r[n] \in Nat /\ 0 <= r[n] /\ r[n] <= r[l]
  BY ShareError
<1>3. R = r[l] + Others
  BY <1>1, <1>2, SumStep
<1>4. Others \in Int /\ Others <= (k - 1) * r[l]
  <2>1. 0 \in Int /\ r[l] \in Int /\ \A n \in D \ {l} : r[n] \in Int /\ 0 <= r[n] /\ r[n] <= r[l]
    BY <1>2
  <2> QED
    BY <1>1, <2>1, SumBounds
<1>5. R \in Int /\ 2 * R <= 20000 + k
  BY SharesError
<1>6. r[l] \in Nat /\ k >= 1
  BY <1>1, <1>2, FS_EmptySet
<1> HIDE DEF R, Others, k
<1>7. CASE 2 * r[l] >= k - 1
  BY <1>1, <1>5, <1>6, <1>7 DEF R
<1>8. CASE 2 * r[l] <= k - 2
  <2>1. 2 * Others <= (k - 1) * (k - 2)
    <3>1. (k - 1) * (2 * r[l]) <= (k - 1) * (k - 2)
      BY <1>1, <1>6, <1>8
    <3>2. (k - 1) * (2 * r[l]) = 2 * ((k - 1) * r[l])
      BY <1>1, <1>6
    <3> QED
      BY <1>1, <1>4, <1>6, <3>1, <3>2
  <2>2. (k - 1) * (k - 2) <= 141 * 140
    BY <1>1, <1>6 DEF k
  <2>3. Others <= 10000
    BY <1>1, <1>4, <2>1, <2>2
  <2> QED
    BY <1>3, <1>4, <1>6, <2>3 DEF R
<1> QED
  BY <1>1, <1>6, <1>7, <1>8

\* What moves to the largest share is at most half a hundredth per holding.
LEMMA ResidualError ==
    ASSUME NEW r, NEW v, NEW T, NEW D, AreShares(r, v, T, D), NEW n \in D
    PROVE  LET own == r[n] * T - 10000 * v[n]
               all == (r[n] + (10000 - SumFunctionOnSet(r, D))) * T - 10000 * v[n]
               max == Cardinality(D) * T
           IN  -max <= own /\ own <= max /\ -max <= all /\ all <= max
<1> DEFINE R == SumFunctionOnSet(r, D)
           k == Cardinality(D)
<1>1. T \in Nat \ {0} /\ v[n] \in Nat /\ IsFiniteSet(D)
  BY DEF AreShares
<1>2. k \in Nat /\ k >= 1
  BY <1>1, FS_CardinalityType, FS_EmptySet
<1>3. /\ r[n] \in Nat
      /\ -T <= 2 * T * r[n] - 20000 * v[n] /\ 2 * T * r[n] - 20000 * v[n] <= T
  BY ShareError
<1>4. R \in Int /\ 20000 - k <= 2 * R /\ 2 * R <= 20000 + k
  BY SharesError
<1> DEFINE own == r[n] * T - 10000 * v[n]
           rest == (10000 - R) * T
           max == k * T
<1> HIDE DEF R, k
<1>5. own \in Int /\ -T <= 2 * own /\ 2 * own <= T
  BY <1>1, <1>3
<1>6. rest \in Int /\ -max <= 2 * rest /\ 2 * rest <= max
  <2>1. -k <= 2 * (10000 - R) /\ 2 * (10000 - R) <= k
    BY <1>2, <1>4
  <2>2. \A x, y \in Int : x <= y => x * T <= y * T
    BY <1>1
  <2>3. (-k) * T <= (2 * (10000 - R)) * T /\ (2 * (10000 - R)) * T <= k * T
    BY <1>2, <1>4, <2>1, <2>2
  <2> QED
    BY <1>1, <1>2, <1>4, <2>3
<1>7. T <= max /\ max \in Nat
  BY <1>1, <1>2
<1>8. (r[n] + (10000 - R)) * T - 10000 * v[n] = own + rest
  <2> DEFINE x == r[n]
             y == 10000 - R
             z == 10000 * v[n]
  <2>1. x \in Int /\ y \in Int /\ z \in Int
    BY <1>1, <1>3, <1>4
  <2>2. own = x * T - z /\ rest = y * T
    OBVIOUS
  <2> HIDE DEF x, y, z, own, rest
  <2>3. (x + y) * T - z = own + rest
    BY <1>1, <2>1, <2>2
  <2> QED
    BY <2>3 DEF x, y, z
<1> HIDE DEF own, rest, max
<1>9. -max <= own /\ own <= max /\ -max <= own + rest /\ own + rest <= max
  BY <1>1, <1>5, <1>6, <1>7
<1> QED
  BY <1>8, <1>9 DEF own, max, R, k
-----------------------------------------------------------------------------
ValuationTypeOK ==
    /\ portfolio \in Seq(HeldAmount) /\ Len(portfolio) <= MaxHeld
    /\ closes \in [ValuedAsset -> [Time -> Price \cup {0}]]

\* The holdings and the closes keep their types.
LEMMA ValuationTyped == ValuationSpec => []ValuationTypeOK
<1>1. ValuationInit => ValuationTypeOK
  <2> SUFFICES ASSUME ValuationInit PROVE ValuationTypeOK
    OBVIOUS
  <2>1. PICK m \in 0..MaxHeld : portfolio \in [1..m -> HeldAmount]
    BY Zenon DEF ValuationInit, SeqOf
  <2>2. portfolio \in Seq(HeldAmount) /\ Len(portfolio) <= MaxHeld
    BY <2>1, ValuationAssumption
  <2> QED
    BY <2>2 DEF ValuationInit, ValuationTypeOK
<1>2. ValuationTypeOK /\ [ValuationNext]_valuationVars => ValuationTypeOK'
  BY DEF ValuationTypeOK, ValuationNext, RecordCandle, valuationVars
<1> QED
  BY <1>1, <1>2, PTL DEF ValuationSpec

\* Prices are numbers, 0 where there is none.
LEMMA TickerPrice ==
    ASSUME ValuationTypeOK, NEW a \in ValuedAsset
    PROVE  GetTickerPrice(a) \in Nat
<1> DEFINE times == {t \in Time : closes[a][t] # 0}
<1>1. CASE times = {}
  BY <1>1 DEF GetTickerPrice
<1>2. CASE times # {}
  <2>1. Max(times) \in times
    BY <1>2, IntervalMaxMin, ValuationAssumption DEF Time
  <2>2. closes[a][Max(times)] \in Nat
    BY <2>1, ValuationAssumption DEF ValuationTypeOK
  <2> QED
    BY <1>2, <2>2 DEF GetTickerPrice
<1> QED
  BY <1>1, <1>2

\* The holdings of a portfolio are finitely many.
LEMMA Positions ==
    ASSUME ValuationTypeOK
    PROVE  /\ DOMAIN portfolio = 1..Len(portfolio) /\ Len(portfolio) \in Nat
           /\ IsFiniteSet(DOMAIN portfolio) /\ Cardinality(DOMAIN portfolio) = Len(portfolio)
           /\ Len(portfolio) <= MaxHeld
<1>1. DOMAIN portfolio = 1..Len(portfolio) /\ Len(portfolio) \in Nat /\ Len(portfolio) <= MaxHeld
  BY DEF ValuationTypeOK
<1> DEFINE n == Len(portfolio)
<1> HIDE DEF n
<1>2. IsFiniteSet(1..n) /\ Cardinality(1..n) = n
  <2>1. 1 \in Int /\ n \in Int /\ n >= 0
    BY <1>1 DEF n
  <2>2. IsFiniteSet(1..n) /\ Cardinality(1..n) = IF 1 > n THEN 0 ELSE n - 1 + 1
    BY <2>1, FS_Interval
  <2> QED
    BY <2>1, <2>2
<1> QED
  BY <1>1, <1>2 DEF n

\* The rounded percentages are the shares of the values.
LEMMA RoundedShares ==
    ASSUME ValuationTypeOK, TotalValue > 0
    PROVE  /\ AreShares(Rounded, CurrentValue, TotalValue, DOMAIN portfolio)
           /\ \A n \in DOMAIN portfolio : ~Priced(n) => Rounded[n] = 0 /\ CurrentValue[n] = 0
<1> DEFINE D == DOMAIN portfolio
<1>1. D = 1..Len(portfolio) /\ Len(portfolio) \in Nat /\ IsFiniteSet(D)
  BY Positions
<1>2. ASSUME NEW n \in D
      PROVE  /\ portfolio[n].quantity \in Nat /\ GetTickerPrice(portfolio[n].asset) \in Nat
             /\ CurrentValue[n] \in Nat
             /\ ~Priced(n) => CurrentValue[n] = 0
  <2>1. portfolio[n] \in HeldAmount
    BY DEF ValuationTypeOK
  <2>2. portfolio[n].quantity \in Nat /\ portfolio[n].asset \in ValuedAsset
    BY <2>1, ValuationAssumption DEF HeldAmount
  <2>3. GetTickerPrice(portfolio[n].asset) \in Nat
    BY <2>2, TickerPrice
  <2> QED
    BY <2>2, <2>3 DEF CurrentValue, Priced
<1>3. TotalValue = SumFunctionOnSet(CurrentValue, D)
  BY DEF TotalValue, SumFunction, CurrentValue
<1>4. TotalValue \in Int
  BY <1>1, <1>2, <1>3, SumSame
<1>5. \A n \in D : Rounded[n] = (20000 * CurrentValue[n] + TotalValue) \div (2 * TotalValue)
  BY DEF Rounded
<1>6. ASSUME NEW n \in D, ~Priced(n) PROVE Rounded[n] = 0
  <2>1. CurrentValue[n] = 0
    BY <1>2, <1>6
  <2> DEFINE q == TotalValue \div (2 * TotalValue)
  <2>2. Rounded[n] = q
    BY <1>4, <1>5, <2>1
  <2>3. q \in Nat /\ (2 * TotalValue) * q <= TotalValue
    BY <1>4, Quotient
  <2> HIDE DEF q
  <2>4. q = 0
    BY <1>4, <2>3
  <2> QED
    BY <2>2, <2>4
<1> QED
  BY <1>1, <1>2, <1>3, <1>4, <1>5, <1>6 DEF AreShares

\* One holding is the first of the largest.
LEMMA LargestIsOne ==
    ASSUME ValuationTypeOK, TotalValue > 0, MaxHeld <= 142
    PROVE  \E l \in DOMAIN portfolio :
              Largest = {l} /\ \A n \in DOMAIN portfolio : Rounded[n] <= Rounded[l]
<1> DEFINE D == DOMAIN portfolio
           values == {Rounded[n] : n \in D}
<1>1. D = 1..Len(portfolio) /\ Len(portfolio) \in Nat /\ IsFiniteSet(D)
  BY Positions
<1>2. AreShares(Rounded, CurrentValue, TotalValue, D)
  BY RoundedShares
<1>3. \A n \in D : Rounded[n] \in Nat /\ (~Priced(n) => Rounded[n] = 0)
  BY <1>2, ShareError, RoundedShares
<1>4. PICK some \in D : Rounded[some] > 0
  <2> SUFFICES ASSUME \A n \in D : ~(Rounded[n] > 0) PROVE FALSE
    OBVIOUS
  <2>1. 0 \in Int /\ \A n \in D : Rounded[n] \in Int /\ 0 <= Rounded[n] /\ Rounded[n] <= 0
    BY <1>3
  <2>2. SumFunctionOnSet(Rounded, D) <= Cardinality(D) * 0
    BY <1>1, <2>1, SumBounds
  <2>3. Cardinality(D) \in Nat /\ Cardinality(D) <= 142
    BY Positions, ValuationAssumption
  <2>4. SumFunctionOnSet(Rounded, D) \in Int
        /\ 20000 - Cardinality(D) <= 2 * SumFunctionOnSet(Rounded, D)
    BY <1>2, SharesError
  <2> QED
    BY <2>2, <2>3, <2>4
<1>5. PICK top \in D : \A n \in D : Rounded[n] <= Rounded[top]
  <2> DEFINE Good == {U \in SUBSET D : U = {} \/ \E x \in U : \A n \in U : Rounded[n] <= Rounded[x]}
  <2>1. ASSUME NEW U \in SUBSET D, NEW x \in U, U \ {x} \in Good PROVE U \in Good
    <3>1. CASE U \ {x} = {}
      <4>1. \A n \in U : Rounded[n] <= Rounded[x]
        BY <1>3, <3>1
      <4> QED
        BY <4>1
    <3>2. CASE U \ {x} # {}
      <4>1. PICK y \in U \ {x} : \A n \in U \ {x} : Rounded[n] <= Rounded[y]
        BY <2>1, <3>2
      <4>2. CASE Rounded[x] <= Rounded[y]
        <5>1. \A n \in U : Rounded[n] <= Rounded[y]
          BY <4>1, <4>2
        <5> QED
          BY <5>1
      <4>3. CASE Rounded[y] <= Rounded[x]
        <5>1. \A n \in U : Rounded[n] <= Rounded[x]
          BY <1>3, <4>1, <4>3
        <5> QED
          BY <5>1
      <4> QED
        BY <1>3, <4>2, <4>3
    <3> QED
      BY <3>1, <3>2
  <2>2. {} \in Good
    OBVIOUS
  <2> HIDE DEF Good
  <2>3. D \in Good
    BY <1>1, <2>1, <2>2, SumInduct
  <2> QED
    BY <1>4, <2>3 DEF Good
<1> DEFINE tops == {n \in D : Rounded[n] = Rounded[top]}
           l == Min(tops)
<1>6. l \in tops /\ \A n \in tops : l <= n
  <2>1. top \in tops /\ tops \in SUBSET (1..Len(portfolio)) /\ 1 \in Nat
    BY <1>1
  <2> HIDE DEF tops
  <2> QED
    BY <1>1, <2>1, IntervalMaxMin
<1>7. l \in D /\ Rounded[l] = Rounded[top] /\ Rounded[l] > 0 /\ Priced(l)
  BY <1>3, <1>4, <1>5, <1>6
<1> HIDE DEF l
<1>8. \A n \in D : n \in Largest <=> n = l
  <2>1. l \in Largest
    BY <1>3, <1>5, <1>6, <1>7 DEF Largest
  <2>2. ASSUME NEW n \in Largest PROVE n = l
    <3>1. n \in D /\ (Rounded[l] < Rounded[n] \/ (Rounded[l] = Rounded[n] /\ n <= l))
      BY <1>7 DEF Largest
    <3>2. Rounded[l] = Rounded[n] /\ n <= l
      BY <1>3, <1>5, <1>7, <3>1
    <3>3. n \in tops
      BY <1>7, <3>1, <3>2
    <3> QED
      BY <1>1, <1>6, <1>7, <3>1, <3>2, <3>3
  <2> QED
    BY <2>1, <2>2
<1>9. Largest = {l}
  BY <1>7, <1>8 DEF Largest
<1> QED
  BY <1>5, <1>7, <1>9

\* ComputeValuation in a typed state.
LEMMA Allocated ==
    ASSUME ValuationTypeOK, MaxHeld <= 142
    PROVE  AllocationsSum
<1> SUFFICES ASSUME TotalValue > 0 PROVE AllocationsSum
  BY DEF AllocationsSum
<1> DEFINE D == DOMAIN portfolio
           R == SumFunctionOnSet(Rounded, D)
<1>1. /\ D = 1..Len(portfolio) /\ Len(portfolio) \in Nat /\ IsFiniteSet(D)
      /\ Cardinality(D) = Len(portfolio) /\ Cardinality(D) <= 142
  BY Positions, ValuationAssumption
<1>2. /\ AreShares(Rounded, CurrentValue, TotalValue, D)
      /\ \A n \in D : ~Priced(n) => Rounded[n] = 0
  BY RoundedShares
<1>3. \A n \in D : Rounded[n] \in Nat
  BY <1>2, ShareError
<1>4. PICK l \in D : Largest = {l} /\ \A n \in D : Rounded[n] <= Rounded[l]
  BY LargestIsOne
<1>5. SumFunctionOnSet(Rounded, {n \in D : Priced(n)}) = R
  <2> DEFINE T == {n \in D : Priced(n)}
  <2>1. T \in SUBSET D /\ \A n \in D : Rounded[n] \in Int
    BY <1>3
  <2>2. \A n \in D \ T : Rounded[n] = 0
    BY <1>2
  <2> HIDE DEF T
  <2>3. R = SumFunctionOnSet(Rounded, T)
    BY <1>1, <2>1, <2>2, SumSubset
  <2> QED
    BY <2>3 DEF T
<1>6. R \in Int
  BY <1>2, SharesError
<1>7. \A n \in D : Allocation[n] = Rounded[n] + (IF n = l THEN 10000 - R ELSE 0)
  <2> SUFFICES ASSUME NEW n \in D
               PROVE  Allocation[n] = Rounded[n] + (IF n = l THEN 10000 - R ELSE 0)
    OBVIOUS
  <2> DEFINE S == SumFunctionOnSet(Rounded, {m \in DOMAIN portfolio : Priced(m)})
  <2>1. Allocation[n] = Rounded[n] + (IF n \in Largest THEN 10000 - S ELSE 0)
    <3>1. Allocation = [m \in D |-> Rounded[m] + (IF m \in Largest THEN 10000 - S ELSE 0)]
      BY DEF Allocation
    <3> HIDE DEF S, D
    <3> QED
      BY <3>1
  <2>2. S = R
    BY <1>5
  <2> HIDE DEF S, R, D
  <2> QED
    BY <1>4, <2>1, <2>2
<1> HIDE DEF R
<1>8. /\ Allocation[l] = Rounded[l] + (10000 - R)
      /\ \A n \in D \ {l} : Allocation[n] = Rounded[n]
  BY <1>3, <1>7
<1>9. SumFunction(Allocation) = 10000
  <2>1. SumFunction(Allocation) = SumFunctionOnSet(Allocation, D)
    BY DEF SumFunction, Allocation
  <2>2. \A n \in D : Allocation[n] \in Int
    BY <1>3, <1>6, <1>8
  <2>3. SumFunctionOnSet(Allocation, D) = Allocation[l] + SumFunctionOnSet(Allocation, D \ {l})
    BY <1>1, <2>2, SumStep
  <2>4. /\ SumFunctionOnSet(Allocation, D \ {l}) = SumFunctionOnSet(Rounded, D \ {l})
        /\ SumFunctionOnSet(Rounded, D \ {l}) \in Int
    <3>1. IsFiniteSet(D \ {l}) /\ \A n \in D \ {l} : Rounded[n] \in Int
      BY <1>1, <1>3, FS_Subset
    <3> QED
      BY <1>8, <3>1, SumSame
  <2>5. R = Rounded[l] + SumFunctionOnSet(Rounded, D \ {l})
    <3>1. \A n \in D : Rounded[n] \in Int
      BY <1>3
    <3> QED
      BY <1>1, <3>1, SumStep DEF R
  <2> QED
    BY <1>3, <1>6, <1>8, <2>1, <2>3, <2>4, <2>5
<1>10. ASSUME NEW n \in D
       PROVE  /\ Allocation[n] >= 0
              /\ ~Priced(n) => Allocation[n] = 0
              /\ LET off == Allocation[n] * TotalValue - 10000 * CurrentValue[n]
                     max == Len(portfolio) * TotalValue
                 IN  -max <= off /\ off <= max
  <2>1. CASE n = l
    <3>1. Priced(l)
      BY <1>4 DEF Largest
    <3>2. Allocation[l] >= 0
      BY <1>1, <1>2, <1>4, <1>8, LargestShare DEF R
    <3>3. LET off == (Rounded[l] + (10000 - R)) * TotalValue - 10000 * CurrentValue[l]
              max == Cardinality(D) * TotalValue
          IN  -max <= off /\ off <= max
      BY <1>2, ResidualError DEF R
    <3> QED
      BY <1>1, <1>8, <2>1, <3>1, <3>2, <3>3
  <2>2. CASE n # l
    <3>1. Allocation[n] = Rounded[n]
      BY <1>8, <2>2
    <3>2. LET off == Rounded[n] * TotalValue - 10000 * CurrentValue[n]
              max == Cardinality(D) * TotalValue
          IN  -max <= off /\ off <= max
      BY <1>2, ResidualError
    <3> QED
      BY <1>1, <1>2, <1>3, <3>1, <3>2
  <2> QED
    BY <2>1, <2>2
<1> QED
  BY <1>9, <1>10 DEF AllocationsSum

\* AllocationsSum, for any holdings, prices and order of candles: ComputeValuation
\* gives out exactly 100 %, takes nothing below zero, gives nothing to a holding
\* without a price and moves no share by more than a hundredth per holding.  With
\* more than 142 holdings the residual can exceed the largest share: of 155 equal
\* holdings the first gets -0.10 %.
THEOREM AllocationsAddUp == MaxHeld <= 142 => (ValuationSpec => []AllocationsSum)
<1> SUFFICES ASSUME MaxHeld <= 142 PROVE ValuationSpec => []AllocationsSum
  OBVIOUS
<1>1. ValuationTypeOK => AllocationsSum
  BY Allocated
<1> QED
  BY <1>1, ValuationTyped, PTL

-----------------------------------------------------------------------------
(* ComputeHistorical *)

\* The steps of the loop over the timestamps s.
IsHistory(h, s) ==
    /\ h[0] = [known |-> [a \in ValuedAsset |-> 0], points |-> <<>>]
    /\ \A i \in 1..Len(s) : h[i] = Point(h[i - 1], s[i])

HistoryRecord == [known : [ValuedAsset -> Nat], points : Seq(Int)]

\* A value is a number.
LEMMA ValueType ==
    ASSUME ValuationTypeOK, NEW known \in [ValuedAsset -> Nat]
    PROVE  ValueAt(known) \in Int
<1> DEFINE v == [n \in DOMAIN portfolio |-> portfolio[n].quantity * known[portfolio[n].asset]]
<1>1. ASSUME NEW n \in DOMAIN portfolio PROVE v[n] \in Int
  <2>1. portfolio[n] \in HeldAmount
    BY DEF ValuationTypeOK
  <2>2. portfolio[n].quantity \in Nat /\ portfolio[n].asset \in ValuedAsset
    BY <2>1, ValuationAssumption DEF HeldAmount
  <2>3. known[portfolio[n].asset] \in Nat
    BY <2>2
  <2> QED
    BY <2>2, <2>3
<1>2. IsFiniteSet(DOMAIN portfolio) /\ DOMAIN v = DOMAIN portfolio
  BY Positions
<1>3. ValueAt(known) = SumFunction(v)
  BY DEF ValueAt
<1> HIDE DEF v
<1> QED
  BY <1>1, <1>2, <1>3, SumSame DEF SumFunction

\* A timestamp of the loop keeps what it gathers typed.
LEMMA PointType ==
    ASSUME ValuationTypeOK, NEW acc \in HistoryRecord, NEW t \in Time
    PROVE  Point(acc, t) \in HistoryRecord
<1>1. acc.known \in [ValuedAsset -> Nat] /\ acc.points \in Seq(Int)
  BY DEF HistoryRecord
<1>2. Carry(acc.known, t) \in [ValuedAsset -> Nat]
  BY <1>1, ValuationAssumption DEF Carry, ValuationTypeOK
<1>3. ValueAt(Carry(acc.known, t)) \in Int
  BY <1>2, ValueType
<1>4. Append(acc.points, ValueAt(Carry(acc.known, t))) \in Seq(Int)
  BY <1>1, <1>3
<1> QED
  BY <1>2, <1>4 DEF Point, HistoryRecord

\* The fold over the timestamps is what such a loop ends with.
LEMMA HistoryRuns ==
    ASSUME ValuationTypeOK, NEW s \in Seq(Time)
    PROVE  \E h : /\ IsHistory(h, s)
                  /\ FoldLeft(Point, [known |-> [a \in ValuedAsset |-> 0], points |-> <<>>], s)
                       = h[Len(s)]
<1> DEFINE base == [known |-> [a \in ValuedAsset |-> 0], points |-> <<>>]
           n == Len(s)
           step == [p \in (1..n) \X HistoryRecord |-> Point(p[2], s[p[1]])]
           Runs(g) == g = [U \in SUBSET (1..n) |->
                             IF U = {} THEN base ELSE Point(g[U \ {Max(U)}], s[Max(U)])]
<1>1. n \in Nat /\ DOMAIN s = 1..n /\ \A i \in 1..n : s[i] \in Time
  OBVIOUS
<1>2. base \in HistoryRecord
  <2>1. <<>> \in Seq(Int)
    OBVIOUS
  <2> QED
    BY <2>1 DEF HistoryRecord
<1>3. step \in [(1..n) \X HistoryRecord -> HistoryRecord]
  BY <1>1, PointType
<1> HIDE DEF n, base
<1>4. PICK g : FoldOf(g, 1..n, HistoryRecord, base, step, LastOf(n))
  <2> HIDE DEF step
  <2> QED
    BY <1>1, <1>2, <1>3, SeqFoldExists
<1>5. Runs(g)
  <2>1. \A U \in SUBSET (1..n) : U # {} => Max(U) \in U
    <3>1. 1 \in Nat
      OBVIOUS
    <3> QED
      BY <1>1, <3>1, IntervalMaxMin
  <2>2. ASSUME NEW U \in SUBSET (1..n), U # {}
        PROVE  g[U] = Point(g[U \ {Max(U)}], s[Max(U)])
    BY <1>4, <2>1, <2>2 DEF FoldOf, OneRound, LastOf
  <2>3. g[{}] = base /\ g = [U \in SUBSET (1..n) |-> g[U]]
    BY <1>4 DEF FoldOf, OneRound
  <2> QED
    BY <2>2, <2>3
<1>6. FoldLeft(Point, base, s) = (CHOOSE it : Runs(it))[DOMAIN s]
  BY <1>1, Zenon DEF FoldLeft, MapThenFoldSet
<1>7. PICK it : Runs(it) /\ FoldLeft(Point, base, s) = it[1..n]
  <2> HIDE DEF Runs
  <2> QED
    BY <1>1, <1>5, <1>6
<1> DEFINE h == [i \in 0..n |-> it[1..i]]
<1>8. h[0] = base
  BY <1>1, <1>7
<1>9. ASSUME NEW i \in 1..n PROVE h[i] = Point(h[i - 1], s[i])
  <2>1. /\ 1..i \in SUBSET (1..n) /\ 1..i # {}
        /\ Max(1..i) = i /\ (1..i) \ {i} = 1..(i - 1)
    BY <1>1, InitialSegment
  <2>2. it[1..i] = Point(it[1..(i - 1)], s[i])
    BY <1>7, <2>1
  <2> QED
    BY <1>1, <2>2
<1>10. h[n] = it[1..n]
  BY <1>1
<1> HIDE DEF h
<1> QED
  BY <1>7, <1>8, <1>9, <1>10 DEF IsHistory, n, base

\* s lists the numbers of S in ascending order.
Ascending(s, S) ==
    /\ s \in [1..Cardinality(S) -> S]
    /\ \A i, j \in 1..Cardinality(S) : i < j => s[i] < s[j]

\* Every finite set of numbers can be sorted: its largest number comes last.
LEMMA SortedExists ==
    ASSUME NEW S \in SUBSET Nat, IsFiniteSet(S)
    PROVE  \E s : Ascending(s, S)
<1> DEFINE Good == {U \in SUBSET S : \E s : Ascending(s, U)}
<1>1. ASSUME NEW U \in SUBSET S, \A x \in U : U \ {x} \in Good PROVE U \in Good
  <2>1. IsFiniteSet(U) /\ Cardinality(U) \in Nat
    BY FS_Subset, FS_CardinalityType
  <2>2. CASE U = {}
    <3>1. Cardinality(U) = 0
      BY <2>2, FS_EmptySet
    <3>2. Ascending([i \in 1..0 |-> 0], U)
      BY <3>1 DEF Ascending
    <3> QED
      BY <3>2
  <2>3. CASE U # {}
    <3> DEFINE m == Max(U)
               V == U \ {m}
               k == Cardinality(V)
    <3>1. m \in U /\ m \in Nat /\ \A y \in U : y <= m
      BY <2>1, <2>3, MaxMin
    <3> HIDE DEF m
    <3>2. k \in Nat /\ Cardinality(U) = k + 1
      <4>1. IsFiniteSet(V) /\ k = Cardinality(U) - 1
        BY <2>1, <3>1, FS_RemoveElement
      <4> QED
        BY <2>1, <4>1, FS_CardinalityType
    <3>3. PICK s : Ascending(s, V)
      BY <1>1, <3>1
    <3> DEFINE r == [i \in 1..(k + 1) |-> IF i = k + 1 THEN m ELSE s[i]]
    <3>4. \A i \in 1..k : s[i] \in U /\ s[i] # m /\ r[i] = s[i] /\ s[i] \in Nat
      <4>1. \A i \in 1..k : s[i] \in V
        BY <3>3 DEF Ascending
      <4> HIDE DEF k
      <4>2. \A i \in 1..k : r[i] = s[i]
        BY <3>2
      <4> QED
        BY <4>1, <4>2
    <3> HIDE DEF k
    <3>5. r[k + 1] = m /\ \A i \in 1..k : r[i] < m
      BY <3>1, <3>2, <3>4
    <3>6. r \in [1..(k + 1) -> U]
      <4>1. ASSUME NEW i \in 1..(k + 1) PROVE r[i] \in U
        <5>1. CASE i = k + 1
          BY <3>1, <5>1
        <5>2. CASE i # k + 1
          <6>1. i \in 1..k
            BY <3>2, <5>2
          <6> HIDE DEF r
          <6> QED
            BY <3>4, <6>1
        <5> QED
          BY <5>1, <5>2
      <4>2. r = [i \in 1..(k + 1) |-> r[i]]
        OBVIOUS
      <4> HIDE DEF r
      <4> QED
        BY <4>1, <4>2
    <3>7. ASSUME NEW i \in 1..(k + 1), NEW j \in 1..(k + 1), i < j PROVE r[i] < r[j]
      <4>1. CASE j = k + 1
        <5>1. i \in 1..k
          BY <3>2, <3>7, <4>1
        <5> HIDE DEF r
        <5> QED
          BY <3>5, <4>1, <5>1
      <4>2. CASE j # k + 1
        <5>1. i \in 1..k /\ j \in 1..k
          BY <3>2, <3>7, <4>2
        <5>2. s[i] < s[j]
          BY <3>3, <3>7, <5>1 DEF Ascending, k
        <5> QED
          BY <3>4, <5>1, <5>2
      <4> QED
        BY <4>1, <4>2
    <3> HIDE DEF r
    <3>8. Ascending(r, U)
      BY <3>2, <3>6, <3>7 DEF Ascending
    <3> QED
      BY <3>8
  <2> QED
    BY <2>2, <2>3
<1> HIDE DEF Good
<1>2. S \in Good
  BY <1>1, SetInduct
<1> QED
  BY <1>2 DEF Good

\* and what is sorted are all its numbers.
LEMMA SortedIsAscending ==
    ASSUME NEW S \in SUBSET Nat, IsFiniteSet(S)
    PROVE  /\ Ascending(Sorted(S), S) /\ Sorted(S) \in Seq(S) /\ Cardinality(S) \in Nat
           /\ Len(Sorted(S)) = Cardinality(S) /\ DOMAIN Sorted(S) = 1..Cardinality(S)
           /\ \A x \in S : \E i \in 1..Cardinality(S) : Sorted(S)[i] = x
<1> DEFINE k == Cardinality(S)
           s == Sorted(S)
<1>1. k \in Nat
  BY FS_CardinalityType
<1>2. Ascending(s, S)
  <2>1. PICK r : Ascending(r, S)
    BY SortedExists
  <2>2. r \in [1..k -> S] /\ \A i, j \in DOMAIN r : i < j => r[i] < r[j]
    BY <2>1 DEF Ascending
  <2>3. s \in [1..k -> S] /\ \A i, j \in DOMAIN s : i < j => s[i] < s[j]
    BY <2>2 DEF Sorted
  <2> QED
    BY <2>3 DEF Ascending
<1> HIDE DEF s
<1>3. s \in Seq(S) /\ Len(s) = k /\ DOMAIN s = 1..k
  BY <1>1, <1>2 DEF Ascending
<1>4. s \in Surjection(1..k, S)
  <2>1. ASSUME NEW i \in 1..k, NEW j \in 1..k, s[i] = s[j] PROVE i = j
    <3>1. s[i] \in Nat /\ s[j] \in Nat
      BY <1>2 DEF Ascending
    <3>2. ~(i < j) /\ ~(j < i)
      BY <1>2, <2>1, <3>1 DEF Ascending
    <3> QED
      BY <1>1, <3>2
  <2>2. s \in Injection(1..k, S)
    BY <1>2, <2>1 DEF Ascending, Injection, IsInjective
  <2>3. Cardinality(1..k) = k
    <3>1. 1 \in Int /\ k \in Int /\ k >= 0
      BY <1>1
    <3>2. Cardinality(1..k) = IF 1 > k THEN 0 ELSE k - 1 + 1
      BY <3>1, FS_Interval
    <3> QED
      BY <3>1, <3>2
  <2> QED
    BY <2>2, <2>3, FS_Injection
<1>5. \A x \in S : \E i \in 1..k : s[i] = x
  BY <1>4 DEF Surjection
<1> QED
  BY <1>1, <1>2, <1>3, <1>5 DEF s

\* The timestamp before the first is 0.
StampAt(i) == IF i = 0 THEN 0 ELSE Sorted(Timestamps)[i]

\* Between two timestamps no asset of the portfolio has a close.
LEMMA Stamps ==
    ASSUME ValuationTypeOK
    PROVE  /\ Sorted(Timestamps) \in Seq(Time) /\ Len(Sorted(Timestamps)) \in Nat
           /\ DOMAIN Sorted(Timestamps) = 1..Len(Sorted(Timestamps))
           /\ \A i \in 1..Len(Sorted(Timestamps)) :
                 /\ StampAt(i) = Sorted(Timestamps)[i] /\ StampAt(i) \in Time
                 /\ StampAt(i - 1) \in 0..LastTime /\ StampAt(i - 1) < StampAt(i)
                 /\ \A v \in Timestamps : ~(StampAt(i - 1) < v /\ v < StampAt(i))
<1> DEFINE s == Sorted(Timestamps)
           k == Cardinality(Timestamps)
<1>1. Timestamps \in SUBSET Time /\ Timestamps \in SUBSET Nat /\ LastTime \in Nat
  BY ValuationAssumption DEF Timestamps, Time
<1>2. IsFiniteSet(Timestamps)
  <2>1. IsFiniteSet(Time)
    <3>1. 1 \in Int /\ LastTime \in Int
      BY <1>1
    <3> QED
      BY <3>1, FS_Interval DEF Time
  <2> QED
    BY <1>1, <2>1, FS_Subset
<1>3. /\ Ascending(s, Timestamps) /\ s \in Seq(Timestamps) /\ k \in Nat
      /\ Len(s) = k /\ DOMAIN s = 1..k
      /\ \A x \in Timestamps : \E i \in 1..k : s[i] = x
  BY <1>1, <1>2, SortedIsAscending
<1> HIDE DEF s, k
<1>4. \A i \in 1..k : s[i] \in Timestamps
  BY <1>3
<1>5. s \in Seq(Time)
  <2>1. s \in [1..k -> Time]
    BY <1>1, <1>3 DEF Ascending, k
  <2> QED
    BY <1>3, <2>1
<1>6. \A i, j \in 1..k : i < j => s[i] < s[j]
  BY <1>3 DEF Ascending, k
<1>7. ASSUME NEW i \in 1..k
      PROVE  /\ StampAt(i) = s[i] /\ StampAt(i) \in Time
             /\ StampAt(i - 1) \in 0..LastTime /\ StampAt(i - 1) < StampAt(i)
             /\ \A v \in Timestamps : ~(StampAt(i - 1) < v /\ v < StampAt(i))
  <2>1. StampAt(i) = s[i] /\ StampAt(i) \in Time /\ i \in Nat
    <3>1. i \in Nat /\ i # 0
      BY <1>3
    <3>2. StampAt(i) = s[i]
      BY <3>1 DEF StampAt, s
    <3> QED
      BY <1>1, <1>4, <3>1, <3>2
  <2>2. CASE i = 1
    <3>1. StampAt(i - 1) = 0
      BY <2>2 DEF StampAt
    <3>2. ASSUME NEW v \in Timestamps, v < StampAt(i) PROVE FALSE
      <4>1. PICK j \in 1..k : s[j] = v
        BY <1>3
      <4>2. i < j \/ i = j
        BY <2>2
      <4>3. s[i] \in Nat /\ s[j] \in Nat /\ s[j] < s[i]
        BY <1>1, <1>4, <2>1, <3>2, <4>1
      <4>4. s[i] < s[j] \/ s[i] = s[j]
        BY <1>6, <4>2
      <4> QED
        BY <4>3, <4>4
    <3> QED
      BY <1>1, <2>1, <3>1, <3>2 DEF Time
  <2>3. CASE i # 1
    <3>1. i - 1 \in 1..k /\ i - 1 # 0 /\ i - 1 < i
      BY <1>3, <2>3
    <3>2. StampAt(i - 1) = s[i - 1] /\ s[i - 1] \in Time /\ s[i - 1] < s[i]
      BY <1>1, <1>4, <1>6, <3>1 DEF StampAt, s
    <3>3. ASSUME NEW v \in Timestamps, s[i - 1] < v, v < s[i] PROVE FALSE
      <4>1. PICK j \in 1..k : s[j] = v
        BY <1>3
      <4>2. j < i - 1 \/ j = i - 1 \/ j = i \/ i < j
        BY <1>3
      <4>3. s[j] \in Nat /\ s[i - 1] \in Nat /\ s[i] \in Nat
        BY <1>1, <1>4, <3>1
      <4>4. s[j] < s[i - 1] \/ s[j] = s[i - 1] \/ s[j] = s[i] \/ s[i] < s[j]
        BY <1>6, <3>1, <4>2
      <4> QED
        BY <3>3, <4>1, <4>3, <4>4
    <3> QED
      BY <1>1, <2>1, <3>2, <3>3 DEF Time
  <2> QED
    BY <2>2, <2>3
<1> QED
  BY <1>3, <1>5, <1>7 DEF s

\* The last close up to a time is the one at that time, if there is one, and
\* otherwise the last one up to a time after which there was none.
LEMMA LastCloseCarried ==
    ASSUME ValuationTypeOK, NEW a \in ValuedAsset, NEW t \in 0..LastTime, NEW u \in Time,
           t < u, \A v \in Time : t < v /\ v < u => closes[a][v] = 0
    PROVE  LastClose(a, u) = IF closes[a][u] # 0 THEN closes[a][u] ELSE LastClose(a, t)
<1> DEFINE Seen(x) == {y \in 1..x : closes[a][y] # 0}
<1>0. LastTime \in Nat /\ u \in Nat /\ t \in Nat /\ u <= LastTime /\ u >= 1
  BY ValuationAssumption DEF Time
<1>1. CASE closes[a][u] # 0
  <2>1. u \in Seen(u) /\ Seen(u) \in SUBSET (1..u) /\ Seen(u) # {}
    BY <1>0, <1>1
  <2>2. \A y \in Seen(u) : y <= u
    BY <1>0
  <2>3. Max(Seen(u)) \in Seen(u) /\ \A y \in Seen(u) : y <= Max(Seen(u))
    <3>1. 1 \in Nat
      OBVIOUS
    <3> HIDE DEF Seen
    <3> QED
      BY <1>0, <2>1, <3>1, IntervalMaxMin
  <2>4. Max(Seen(u)) = u
    <3> HIDE DEF Seen
    <3>1. Max(Seen(u)) <= u /\ u <= Max(Seen(u)) /\ Max(Seen(u)) \in 1..u
      BY <2>1, <2>2, <2>3
    <3> QED
      BY <1>0, <3>1
  <2> QED
    BY <1>1, <2>1, <2>4 DEF LastClose
<1>2. CASE closes[a][u] = 0
  <2>1. Seen(u) = Seen(t)
    <3>1. ASSUME NEW y \in Seen(u) PROVE y \in Seen(t)
      <4>1. y \in 1..u /\ closes[a][y] # 0 /\ y # u
        BY <1>2
      <4>2. y \in Time /\ y < u
        BY <1>0, <4>1 DEF Time
      <4>3. ~(t < y)
        BY <4>1, <4>2
      <4> QED
        BY <1>0, <4>1, <4>3
    <3>2. ASSUME NEW y \in Seen(t) PROVE y \in Seen(u)
      BY <1>0
    <3> QED
      BY <3>1, <3>2
  <2> QED
    BY <1>2, <2>1 DEF LastClose
<1> QED
  BY <1>1, <1>2

\* The prices of the portfolio's assets that the loop knows after a timestamp are
\* the last closes up to it, and it has added a point for every timestamp so far.
HistorySoFar(h, i) ==
    /\ h[i] \in HistoryRecord
    /\ \A m \in DOMAIN portfolio :
          h[i].known[portfolio[m].asset] = LastClose(portfolio[m].asset, StampAt(i))
    /\ Len(h[i].points) = i
    /\ \A j \in 1..i : h[i].points[j] = ValueAt(h[j].known)

\* So it is before the first timestamp,
LEMMA HistoryBegins ==
    ASSUME ValuationTypeOK, NEW h, IsHistory(h, Sorted(Timestamps))
    PROVE  HistorySoFar(h, 0)
<1>1. h[0].known = [a \in ValuedAsset |-> 0] /\ h[0].points = <<>>
  BY DEF IsHistory
<1>2. h[0] \in HistoryRecord
  <2>1. <<>> \in Seq(Int) /\ [a \in ValuedAsset |-> 0] \in [ValuedAsset -> Nat]
    OBVIOUS
  <2> QED
    BY <2>1 DEF IsHistory, HistoryRecord
<1>3. ASSUME NEW m \in DOMAIN portfolio
      PROVE  h[0].known[portfolio[m].asset] = LastClose(portfolio[m].asset, StampAt(0))
  <2>1. portfolio[m].asset \in ValuedAsset
    <3>1. portfolio[m] \in HeldAmount
      BY DEF ValuationTypeOK
    <3> QED
      BY <3>1 DEF HeldAmount
  <2>2. {y \in 1..StampAt(0) : closes[portfolio[m].asset][y] # 0} = {}
    BY DEF StampAt
  <2> QED
    BY <1>1, <2>1, <2>2 DEF LastClose
<1> QED
  BY <1>1, <1>2, <1>3 DEF HistorySoFar

\* and from each timestamp to the next,
LEMMA HistoryGoesOn ==
    ASSUME ValuationTypeOK, NEW h, IsHistory(h, Sorted(Timestamps)),
           NEW i \in 1..Len(Sorted(Timestamps)), HistorySoFar(h, i - 1)
    PROVE  HistorySoFar(h, i)
<1> DEFINE u == StampAt(i)
           t == StampAt(i - 1)
<1>1. /\ u = Sorted(Timestamps)[i] /\ u \in Time /\ t \in 0..LastTime /\ t < u
      /\ \A v \in Timestamps : ~(t < v /\ v < u)
  BY Stamps
<1> HIDE DEF u, t
<1>2. h[i] = Point(h[i - 1], u) /\ h[i - 1] \in HistoryRecord /\ i \in Nat /\ i >= 1
  BY <1>1, Stamps DEF IsHistory, HistorySoFar
<1>3. h[i] \in HistoryRecord
  BY <1>1, <1>2, PointType
<1>4. /\ h[i].known = Carry(h[i - 1].known, u)
      /\ h[i].points = Append(h[i - 1].points, ValueAt(h[i].known))
  BY <1>2 DEF Point
<1>5. ASSUME NEW m \in DOMAIN portfolio
      PROVE  h[i].known[portfolio[m].asset] = LastClose(portfolio[m].asset, u)
  <2> DEFINE a == portfolio[m].asset
  <2>1. a \in ValuedAsset
    <3>1. portfolio[m] \in HeldAmount
      BY DEF ValuationTypeOK
    <3> QED
      BY <3>1 DEF HeldAmount
  <2>2. \A v \in Time : t < v /\ v < u => closes[a][v] = 0
    BY <1>1 DEF Timestamps
  <2>3. h[i - 1].known[a] = LastClose(a, t)
    BY DEF HistorySoFar, t
  <2> HIDE DEF a
  <2>4. LastClose(a, u) = IF closes[a][u] # 0 THEN closes[a][u] ELSE LastClose(a, t)
    BY <1>1, <2>1, <2>2, LastCloseCarried
  <2>5. h[i].known[a] = IF closes[a][u] # 0 THEN closes[a][u] ELSE h[i - 1].known[a]
    BY <1>4, <2>1 DEF Carry
  <2> QED
    BY <2>3, <2>4, <2>5 DEF a
<1>6. /\ h[i - 1].points \in Seq(Int) /\ Len(h[i - 1].points) = i - 1
      /\ ValueAt(h[i].known) \in Int
  <2>1. h[i].known \in [ValuedAsset -> Nat]
    BY <1>3 DEF HistoryRecord
  <2> QED
    BY <1>2, <2>1, ValueType DEF HistoryRecord, HistorySoFar
<1>7. /\ Len(h[i].points) = i /\ h[i].points[i] = ValueAt(h[i].known)
      /\ \A j \in 1..(i - 1) : h[i].points[j] = h[i - 1].points[j]
  BY <1>2, <1>4, <1>6
<1>8. \A j \in 1..i : h[i].points[j] = ValueAt(h[j].known)
  <2>1. \A j \in 1..(i - 1) : h[i - 1].points[j] = ValueAt(h[j].known)
    BY DEF HistorySoFar
  <2>2. \A j \in 1..i : j = i \/ j \in 1..(i - 1)
    BY <1>2
  <2> QED
    BY <1>7, <2>1, <2>2
<1> QED
  BY <1>3, <1>5, <1>7, <1>8 DEF HistorySoFar, u

\* so that ComputeHistorical in a typed state carries closes forward.
LEMMA HistoryCarried ==
    ASSUME ValuationTypeOK
    PROVE  HistoryCarriesForward
<1> DEFINE s == Sorted(Timestamps)
           n == Len(s)
           base == [known |-> [a \in ValuedAsset |-> 0], points |-> <<>>]
<1>1. s \in Seq(Time) /\ n \in Nat /\ DOMAIN s = 1..n
  BY Stamps
<1>2. PICK h : IsHistory(h, s) /\ FoldLeft(Point, base, s) = h[n]
  BY <1>1, HistoryRuns
<1>3. Historical = h[n].points
  BY <1>2 DEF Historical
<1>4. \A i \in 0..n : HistorySoFar(h, i)
  <2> DEFINE Good == {i \in Nat : i <= n => HistorySoFar(h, i)}
  <2>1. 0 \in Good
    BY <1>2, HistoryBegins
  <2>2. ASSUME NEW i \in Nat, i \in Good PROVE i + 1 \in Good
    <3>1. SUFFICES ASSUME i + 1 <= n PROVE HistorySoFar(h, i + 1)
      OBVIOUS
    <3>2. HistorySoFar(h, i) /\ i + 1 \in 1..n /\ (i + 1) - 1 = i
      BY <1>1, <2>2, <3>1
    <3> QED
      BY <1>2, <3>2, HistoryGoesOn
  <2> HIDE DEF Good
  <2>3. \A i \in Nat : i \in Good
    BY <2>1, <2>2, NatInduct
  <2> QED
    BY <1>1, <2>3 DEF Good
<1>5. Len(Historical) = n
  <2>1. HistorySoFar(h, n)
    BY <1>1, <1>4
  <2> QED
    BY <1>3, <2>1 DEF HistorySoFar
<1>6. ASSUME NEW i \in 1..n
      PROVE  Historical[i] =
                 SumFunction([m \in DOMAIN portfolio |->
                     portfolio[m].quantity * LastClose(portfolio[m].asset, s[i])])
  <2>1. HistorySoFar(h, n) /\ HistorySoFar(h, i)
    BY <1>1, <1>4
  <2>2. Historical[i] = ValueAt(h[i].known)
    BY <1>3, <2>1 DEF HistorySoFar
  <2>3. StampAt(i) = s[i]
    BY <1>1 DEF StampAt
  <2>4. \A m \in DOMAIN portfolio :
            h[i].known[portfolio[m].asset] = LastClose(portfolio[m].asset, s[i])
    BY <2>1, <2>3 DEF HistorySoFar
  <2>5. [m \in DOMAIN portfolio |-> portfolio[m].quantity * h[i].known[portfolio[m].asset]]
        = [m \in DOMAIN portfolio |->
              portfolio[m].quantity * LastClose(portfolio[m].asset, s[i])]
    BY <2>4
  <2> QED
    BY <2>2, <2>5, Zenon DEF ValueAt
<1> QED
  BY <1>1, <1>5, <1>6 DEF HistoryCarriesForward

\* HistoryCarriesForward, for any holdings, number of candles and order of arrival:
\* each point of ComputeHistorical is the value at the last closes up to then, also
\* of assets that have no candle at its timestamp.
THEOREM HistoryIsCarriedForward == ValuationSpec => []HistoryCarriesForward
<1>1. ValuationTypeOK => HistoryCarriesForward
  BY HistoryCarried
<1> QED
  BY <1>1, ValuationTyped, PTL

-----------------------------------------------------------------------------
(* PnL: the trades *)

PnLTypeOK == trades \in Seq(TradeRecord)

\* The trades keep their types.
LEMMA PnLTyped == PnLSpec => []PnLTypeOK
<1>1. PnLInit => PnLTypeOK
  BY DEF PnLInit, PnLTypeOK
<1>2. PnLTypeOK /\ [PnLNext]_trades => PnLTypeOK'
  <2> SUFFICES ASSUME PnLTypeOK, [PnLNext]_trades PROVE PnLTypeOK'
    OBVIOUS
  <2>1. CASE NextAsset
    BY <2>1 DEF NextAsset, PnLTypeOK
  <2>2. ASSUME NEW t \in Inputs, RecordTrade(t) PROVE PnLTypeOK'
    <3>1. t \in TradeRecord
      BY DEF Inputs
    <3> QED
      BY <2>2, <3>1 DEF RecordTrade, PnLTypeOK
  <2>3. CASE UNCHANGED trades
    BY <2>3 DEF PnLTypeOK
  <2> QED
    BY <2>1, <2>2, <2>3 DEF PnLNext
<1> QED
  BY <1>1, <1>2, PTL DEF PnLSpec

-----------------------------------------------------------------------------
(* ComputeAndStore *)

\* What a trade holds.
LEMMA TradeTypes ==
    ASSUME PnLTypeOK
    PROVE  /\ Len(trades) \in Nat /\ DOMAIN trades = 1..Len(trades)
           /\ \A n \in DOMAIN trades :
                 /\ trades[n].quantity \in Nat /\ trades[n].price \in Nat
                 /\ n \in Nat
<1>1. Len(trades) \in Nat /\ DOMAIN trades = 1..Len(trades)
  BY DEF PnLTypeOK
<1>2. ASSUME NEW n \in DOMAIN trades
      PROVE  /\ trades[n].quantity \in Nat /\ trades[n].price \in Nat
             /\ n \in Nat
  <2>1. trades[n] \in TradeRecord
    BY DEF PnLTypeOK
  <2>2. trades[n].quantity \in Quantity /\ trades[n].price \in UnitPrice
    BY <2>1 DEF TradeRecord
  <2>3. n \in Nat
    BY <1>1
  <2>4. \A q \in Quantity : q \in Nat
    BY PnLAssumption
  <2>5. \A p \in UnitPrice : p \in Nat
    BY PnLAssumption
  <2> QED
    BY <2>2, <2>3, <2>4, <2>5
<1> QED
  BY <1>1, <1>2

\* The units bought grow by what each buy adds.
LEMMA BoughtSteps ==
    ASSUME PnLTypeOK
    PROVE  /\ Bought(0) = 0
           /\ \A n \in 0..Len(trades) : Bought(n) \in Int
           /\ \A n \in 1..Len(trades) :
                 Bought(n) = Bought(n - 1)
                               + (IF Counts(n, "buy") THEN trades[n].quantity ELSE 0)
<1> DEFINE T == Len(trades)
           f == [m \in DOMAIN trades |-> trades[m].quantity]
           P == {m \in 1..T : Counts(m, "buy")}
<1>1. T \in Nat /\ P \in SUBSET (1..T) /\ \A m \in 1..T : f[m] \in Int /\ f[m] = trades[m].quantity
  BY TradeTypes
<1>2. ASSUME NEW n \in 0..T PROVE Bought(n) = SumFunctionOnSet(f, UpTo(P, n))
  <2>1. UpTo(P, n) = {m \in 1..n : Counts(m, "buy")}
    BY <1>1 DEF UpTo
  <2> QED
    BY <2>1 DEF Bought
<1>3. \A m \in 1..T : m \in P <=> Counts(m, "buy")
  OBVIOUS
<1> HIDE DEF f, P, T
<1>4. /\ SumFunctionOnSet(f, UpTo(P, 0)) = 0
      /\ \A i \in 0..T : SumFunctionOnSet(f, UpTo(P, i)) \in Int
      /\ \A i \in 1..T : SumFunctionOnSet(f, UpTo(P, i))
            = SumFunctionOnSet(f, UpTo(P, i - 1))
                + (IF i \in P THEN f[i] ELSE 0)
  <2>1. Summable(T, P, f)
    BY <1>1 DEF Summable
  <2> QED
    BY <2>1, SumUpto
<1>5. Bought(0) = 0
  <2>1. 0 \in 0..T
    BY <1>1
  <2> QED
    BY <1>2, <1>4, <2>1
<1>6. \A n \in 0..T : Bought(n) \in Int
  BY <1>2, <1>4
<1>7. ASSUME NEW n \in 1..T
      PROVE  Bought(n) = Bought(n - 1) + (IF Counts(n, "buy") THEN trades[n].quantity ELSE 0)
  <2>1. n \in 0..T /\ n - 1 \in 0..T
    BY <1>1
  <2>2. Bought(n) = Bought(n - 1) + (IF n \in P THEN f[n] ELSE 0)
    BY <1>2, <1>4, <2>1
  <2> QED
    BY <1>1, <1>3, <2>2
<1> QED
  BY <1>5, <1>6, <1>7 DEF T

\* and never shrink.
LEMMA BoughtGrows ==
    ASSUME PnLTypeOK, NEW m \in 0..Len(trades), NEW n \in m..Len(trades)
    PROVE  Bought(m) \in Nat /\ Bought(n) \in Nat /\ Bought(m) <= Bought(n)
<1> DEFINE T == Len(trades)
           Good == {i \in Nat : i <= T => /\ Bought(i) \in Nat
                                          /\ \A j \in 0..i : Bought(j) <= Bought(i)}
<1>1. T \in Nat
  BY TradeTypes
<1>2. 0 \in Good
  BY BoughtSteps
<1>3. ASSUME NEW i \in Nat, i \in Good PROVE i + 1 \in Good
  <2> SUFFICES ASSUME i + 1 <= T
               PROVE  /\ Bought(i + 1) \in Nat
                      /\ \A j \in 0..(i + 1) : Bought(j) <= Bought(i + 1)
    OBVIOUS
  <2>1. i + 1 \in 1..T /\ i <= T /\ (i + 1) - 1 = i
    BY <1>1
  <2>2. Bought(i) \in Nat /\ \A j \in 0..i : Bought(j) <= Bought(i)
    BY <1>3, <2>1
  <2>3. trades[i + 1].quantity \in Nat
    BY <2>1, TradeTypes
  <2>4. Bought(i + 1) = Bought(i) + (IF Counts(i + 1, "buy") THEN trades[i + 1].quantity ELSE 0)
    BY <2>1, BoughtSteps
  <2>5. Bought(i + 1) \in Nat /\ Bought(i) <= Bought(i + 1)
    BY <2>2, <2>3, <2>4
  <2>6. ASSUME NEW j \in 0..(i + 1) PROVE Bought(j) <= Bought(i + 1)
    <3>1. CASE j = i + 1
      BY <2>5, <3>1
    <3>2. CASE j # i + 1
      <4>1. j \in 0..i /\ j \in 0..T
        BY <1>1, <2>1, <3>2
      <4>2. Bought(j) <= Bought(i) /\ Bought(j) \in Int
        BY <2>2, <4>1, BoughtSteps
      <4> QED
        BY <2>2, <2>5, <4>2
    <3> QED
      BY <3>1, <3>2
  <2> QED
    BY <2>5, <2>6
<1> HIDE DEF Good
<1>4. \A i \in Nat : i \in Good
  BY <1>2, <1>3, NatInduct
<1>5. m \in Nat /\ n \in Nat /\ n <= T /\ m <= T /\ m \in 0..n
  BY <1>1
<1> QED
  BY <1>4, <1>5 DEF Good

\* The recursion over the trades has a solution.
LEMMA InHandSteps ==
    ASSUME PnLTypeOK
    PROVE  /\ InHand[0] = 0
           /\ \A n \in 1..Len(trades) :
                 InHand[n] = IF Counts(n, "buy") THEN InHand[n - 1] + trades[n].quantity
                             ELSE IF Counts(n, "sell")
                                  THEN Max({0, InHand[n - 1] - trades[n].quantity})
                             ELSE InHand[n - 1]
<1> DEFINE T == Len(trades)
           After(n, x) == IF Counts(n, "buy") THEN x + trades[n].quantity
                          ELSE IF Counts(n, "sell") THEN Max({0, x - trades[n].quantity})
                          ELSE x
           Hand(f) == f = [n \in 0..T |-> IF n = 0 THEN 0 ELSE After(n, f[n - 1])]
           step == [p \in (1..T) \X Int |-> After(p[1], p[2])]
<1>1. T \in Nat /\ \A n \in 1..T : trades[n].quantity \in Int
  BY TradeTypes
<1>2. \A n \in 1..T : \A x \in Int : After(n, x) \in Int
  <2> SUFFICES ASSUME NEW n \in 1..T, NEW x \in Int PROVE After(n, x) \in Int
    OBVIOUS
  <2>1. trades[n].quantity \in Int
    BY <1>1
  <2>2. Max({0, x - trades[n].quantity}) \in Int
    <3>1. 0 \in Int /\ x - trades[n].quantity \in Int
      BY <2>1
    <3> QED
      BY <3>1, OfTwo
  <2> QED
    BY <2>1, <2>2
<1>3. step \in [(1..T) \X Int -> Int]
  <2> HIDE DEF After
  <2> QED
    BY <1>2
<1>4. PICK g : FoldOf(g, 1..T, Int, 0, step, LastOf(T))
  <2> HIDE DEF step, T
  <2>1. 0 \in Int
    OBVIOUS
  <2> QED
    BY <1>1, <1>3, <2>1, SeqFoldExists
<1> DEFINE f == [n \in 0..T |-> g[1..n]]
<1>5. ASSUME NEW n \in 1..T PROVE f[n] = After(n, f[n - 1])
  <2>1. /\ 1..n \in SUBSET (1..T) /\ 1..n # {}
        /\ Max(1..n) = n /\ (1..n) \ {n} = 1..(n - 1)
    BY <1>1, InitialSegment
  <2>2. 1..(n - 1) \in SUBSET (1..T) /\ n \in 0..T /\ n - 1 \in 0..T
    BY <1>1
  <2>3. g[1..n] = step[<<n, g[1..(n - 1)]>>] /\ g[1..(n - 1)] \in Int
    <3> HIDE DEF step, T
    <3>1. LastOf(T)[1..n] = n
      BY <2>1 DEF LastOf
    <3> QED
      BY <1>4, <2>1, <2>2, <3>1 DEF FoldOf, OneRound
  <2>4. g[1..n] = After(n, g[1..(n - 1)])
    <3> HIDE DEF After
    <3> QED
      BY <2>3
  <2> HIDE DEF After
  <2> QED
    BY <2>2, <2>4
<1>6. f[0] = 0
  <2>1. g[{}] = 0 /\ 1..0 = {}
    <3> HIDE DEF step, T
    <3>1. {} \in SUBSET (1..T)
      OBVIOUS
    <3>2. g[{}] = OneRound({}, g, 0, step, LastOf(T))
      BY <1>4, <3>1 DEF FoldOf
    <3> QED
      BY <3>2 DEF OneRound
  <2> QED
    BY <1>1, <2>1
<1>7. Hand(f)
  <2>1. \A n \in 0..T : n # 0 => n \in 1..T
    BY <1>1
  <2>2. f = [n \in 0..T |-> f[n]]
    OBVIOUS
  <2> HIDE DEF f, After
  <2> QED
    BY <1>5, <1>6, <2>1, <2>2
<1>8. InHand = CHOOSE h : Hand(h)
  BY Zenon DEF InHand
<1>9. Hand(InHand)
  <2> HIDE DEF Hand, f
  <2> QED
    BY <1>7, <1>8
<1>10. \A n \in 1..T : InHand[n] = After(n, InHand[n - 1])
  <2>1. \A n \in 1..T : n # 0 /\ n \in 0..T
    BY <1>1
  <2> HIDE DEF After, T
  <2> QED
    BY <1>9, <2>1
<1>11. InHand[0] = 0
  BY <1>1, <1>9
<1> QED
  BY <1>10, <1>11

\* No more is in hand than was bought; a buy leaves the units gone as they are and
\* a sell takes from the units in hand, the oldest first.
LEMMA GoneSteps ==
    ASSUME PnLTypeOK
    PROVE  /\ Gone(0) = 0
           /\ \A n \in 0..Len(trades) : Gone(n) \in Nat /\ Gone(n) <= Bought(n)
           /\ \A n \in 1..Len(trades) :
                 IF Counts(n, "sell")
                 THEN Gone(n) = IF Gone(n - 1) + trades[n].quantity <= Bought(n)
                                THEN Gone(n - 1) + trades[n].quantity ELSE Bought(n)
                 ELSE Gone(n) = Gone(n - 1)
<1> DEFINE T == Len(trades)
           Typed(i) == InHand[i] \in Nat /\ Bought(i) \in Nat /\ InHand[i] <= Bought(i)
           Good == {i \in Nat : i <= T => Typed(i)}
<1>1. T \in Nat
  BY TradeTypes
<1>2. ASSUME NEW n \in 1..T, Typed(n - 1)
      PROVE  /\ Typed(n)
             /\ IF Counts(n, "sell")
                THEN Gone(n) = IF Gone(n - 1) + trades[n].quantity <= Bought(n)
                               THEN Gone(n - 1) + trades[n].quantity ELSE Bought(n)
                ELSE Gone(n) = Gone(n - 1)
  <2> DEFINE q == trades[n].quantity
             H == InHand[n - 1]
             B == Bought(n - 1)
  <2>1. q \in Nat /\ H \in Nat /\ B \in Nat /\ H <= B /\ Gone(n - 1) = B - H
    BY <1>1, <1>2, TradeTypes DEF Gone
  <2>2. /\ InHand[n] = IF Counts(n, "buy") THEN H + q
                       ELSE IF Counts(n, "sell") THEN Max({0, H - q}) ELSE H
        /\ Bought(n) = B + (IF Counts(n, "buy") THEN q ELSE 0)
    BY <1>2, InHandSteps, BoughtSteps
  <2> HIDE DEF H, B, q
  <2>3. Max({0, H - q}) = IF 0 >= H - q THEN 0 ELSE H - q
    <3>1. 0 \in Int /\ H - q \in Int
      BY <2>1
    <3> QED
      BY <3>1, OfTwo
  <2>4. CASE Counts(n, "buy")
    <3>1. ~Counts(n, "sell")
      BY <2>4 DEF Counts
    <3>2. InHand[n] = H + q /\ Bought(n) = B + q
      BY <2>2, <2>4
    <3> QED
      BY <2>1, <3>1, <3>2 DEF Gone
  <2>5. CASE ~Counts(n, "buy") /\ Counts(n, "sell")
    <3>1. InHand[n] = (IF 0 >= H - q THEN 0 ELSE H - q) /\ Bought(n) = B
      BY <2>1, <2>2, <2>3, <2>5
    <3> QED
      BY <2>1, <2>5, <3>1 DEF Gone, q
  <2>6. CASE ~Counts(n, "buy") /\ ~Counts(n, "sell")
    <3>1. InHand[n] = H /\ Bought(n) = B
      BY <2>1, <2>2, <2>6
    <3> QED
      BY <2>1, <2>6, <3>1 DEF Gone
  <2> QED
    BY <2>4, <2>5, <2>6
<1>3. 0 \in Good
  BY InHandSteps, BoughtSteps
<1>4. ASSUME NEW i \in Nat, i \in Good PROVE i + 1 \in Good
  <2> SUFFICES ASSUME i + 1 <= T PROVE Typed(i + 1)
    OBVIOUS
  <2>1. Typed((i + 1) - 1) /\ i + 1 \in 1..T
    <3>1. Typed(i) /\ (i + 1) - 1 = i /\ i + 1 \in 1..T
      BY <1>1, <1>4
    <3> HIDE DEF Typed, T
    <3> QED
      BY <3>1
  <2> HIDE DEF Typed, T
  <2> QED
    BY <1>2, <2>1
<1> HIDE DEF Good
<1>5. \A i \in Nat : i \in Good
  BY <1>3, <1>4, NatInduct
<1>6. \A i \in 0..T : Typed(i)
  BY <1>1, <1>5 DEF Good
<1>7. Gone(0) = 0
  BY InHandSteps, BoughtSteps DEF Gone
<1>8. \A n \in 0..T : Gone(n) \in Nat /\ Gone(n) <= Bought(n)
  BY <1>6 DEF Gone
<1>9. \A n \in 1..T : Typed(n - 1)
  <2>1. \A n \in 1..T : n - 1 \in 0..T
    BY <1>1
  <2> HIDE DEF Typed, T
  <2> QED
    BY <1>6, <2>1
<1> QED
  BY <1>2, <1>7, <1>8, <1>9

\* A unit costs what the buy that brought it paid.
LEMMA CostOfBuy ==
    ASSUME PnLTypeOK, NEW n \in 1..Len(trades), Counts(n, "buy"),
           NEW u \in Int, Bought(n - 1) < u, u <= Bought(n)
    PROVE  CostOf(u) = trades[n].price
<1> DEFINE Bringing(m) == Counts(m, "buy") /\ Bought(m - 1) < u /\ u <= Bought(m)
           c == CHOOSE m \in DOMAIN trades : Bringing(m)
<1>1. Len(trades) \in Nat /\ DOMAIN trades = 1..Len(trades)
  BY TradeTypes
<1>2. c \in 1..Len(trades) /\ Bringing(c)
  BY <1>1
<1>3. CostOf(u) = trades[c].price
  BY DEF CostOf
<1> HIDE DEF c
<1>4. c = n
  <2>1. CASE c < n
    <3>1. c \in 0..Len(trades) /\ n - 1 \in c..Len(trades)
      BY <1>1, <1>2, <2>1
    <3>2. Bought(c) \in Nat /\ Bought(n - 1) \in Nat /\ Bought(c) <= Bought(n - 1)
      BY <3>1, BoughtGrows
    <3> QED
      BY <1>2, <3>2
  <2>2. CASE n < c
    <3>1. n \in 0..Len(trades) /\ c - 1 \in n..Len(trades)
      BY <1>1, <1>2, <2>2
    <3>2. Bought(n) \in Nat /\ Bought(c - 1) \in Nat /\ Bought(n) <= Bought(c - 1)
      BY <3>1, BoughtGrows
    <3> QED
      BY <1>2, <3>2
  <2> QED
    BY <1>1, <1>2, <2>1, <2>2
<1> QED
  BY <1>3, <1>4

\* Every unit bought has a cost.
LEMMA CostType ==
    ASSUME PnLTypeOK, NEW n \in 0..Len(trades), NEW u \in 1..Bought(n)
    PROVE  CostOf(u) \in Int
<1> DEFINE T == Len(trades)
           Good == {i \in Nat :
                       i <= T => \A v \in Nat : 1 <= v /\ v <= Bought(i) => CostOf(v) \in Int}
<1>1. T \in Nat
  BY TradeTypes
<1>2. 0 \in Good
  BY BoughtSteps
<1>3. ASSUME NEW i \in Nat, i \in Good PROVE i + 1 \in Good
  <2> SUFFICES ASSUME i + 1 <= T, NEW v \in Nat, 1 <= v, v <= Bought(i + 1)
               PROVE  CostOf(v) \in Int
    OBVIOUS
  <2>1. i + 1 \in 1..T /\ (i + 1) - 1 = i /\ i \in 0..T
    BY <1>1
  <2>2. /\ Bought(i) \in Int /\ trades[i + 1].price \in Int
        /\ Bought(i + 1) = Bought(i)
                             + (IF Counts(i + 1, "buy") THEN trades[i + 1].quantity ELSE 0)
    <3>1. trades[i + 1].price \in Int
      BY <2>1, TradeTypes
    <3>2. Bought(i) \in Int
      BY <2>1, BoughtSteps
    <3>3. Bought(i + 1) = Bought((i + 1) - 1)
                            + (IF Counts(i + 1, "buy") THEN trades[i + 1].quantity ELSE 0)
      BY <2>1, BoughtSteps
    <3> QED
      BY <2>1, <3>1, <3>2, <3>3
  <2>3. CASE v <= Bought(i)
    BY <1>3, <2>1, <2>3
  <2>4. CASE Bought(i) < v
    <3>1. Counts(i + 1, "buy")
      BY <2>2, <2>4
    <3>2. CostOf(v) = trades[i + 1].price
      BY <2>1, <2>4, <3>1, CostOfBuy
    <3> QED
      BY <2>2, <3>2
  <2> QED
    BY <2>2, <2>3, <2>4
<1> HIDE DEF Good
<1>4. \A i \in Nat : i \in Good
  BY <1>2, <1>3, NatInduct
<1>5. n \in Nat /\ n <= T /\ n \in Good
  BY <1>1, <1>4
<1>6. Bought(n) \in Int
  BY BoughtSteps
<1>7. u \in Nat /\ 1 <= u /\ u <= Bought(n)
  BY <1>6
<1> QED
  BY <1>5, <1>7 DEF Good

\* The units from a + 1 to b have a cost, and the same one.
Costed(a, b) == \A u \in (a + 1)..b : CostOf(u) \in Int
CostIs(a, b, c) == \A u \in (a + 1)..b : CostOf(u) = c

\* What a run of units gains is the sum unit by unit,
LEMMA GainStep ==
    ASSUME NEW p \in Int, NEW a \in Nat, NEW b \in Nat, Costed(a, b)
    PROVE  /\ Gain(p, a, b) \in Int
           /\ b <= a => Gain(p, a, b) = 0
           /\ a < b => Gain(p, a, b) = Gain(p, a, b - 1) + (p - CostOf(b))
<1> DEFINE f(c) == [u \in (a + 1)..c |-> p - CostOf(u)]
           S(c) == (a + 1)..c
<1>1. ASSUME NEW c \in Nat PROVE IsFiniteSet(S(c)) /\ DOMAIN f(c) = S(c)
  <2>1. a + 1 \in Int /\ c \in Int
    OBVIOUS
  <2> QED
    BY <2>1, FS_Interval
<1>2. \A c \in Nat : Gain(p, a, c) = SumFunctionOnSet(f(c), S(c))
  BY DEF Gain, SumFunction
<1>3. \A u \in S(b) : f(b)[u] = p - CostOf(u) /\ f(b)[u] \in Int
  BY DEF Costed
<1> HIDE DEF f
<1>4. Gain(p, a, b) \in Int
  <2> HIDE DEF S
  <2> QED
    BY <1>1, <1>2, <1>3, SumSame
<1>5. ASSUME b <= a PROVE Gain(p, a, b) = 0
  <2>1. S(b) = {}
    BY <1>5
  <2> HIDE DEF S
  <2> QED
    BY <1>2, <2>1, SumEmpty
<1>6. ASSUME a < b PROVE Gain(p, a, b) = Gain(p, a, b - 1) + (p - CostOf(b))
  <2>1. b \in S(b) /\ S(b) \ {b} = S(b - 1) /\ b - 1 \in Nat
    BY <1>6
  <2>2. \A u \in S(b - 1) : f(b - 1)[u] = f(b)[u] /\ f(b)[u] \in Int
    <3>1. \A u \in S(b - 1) : f(b - 1)[u] = p - CostOf(u)
      BY DEF f
    <3>2. \A u \in S(b - 1) : u \in S(b)
      BY <2>1
    <3> QED
      BY <1>3, <3>1, <3>2
  <2> HIDE DEF S
  <2>3. SumFunctionOnSet(f(b), S(b)) = f(b)[b] + SumFunctionOnSet(f(b), S(b - 1))
    <3>1. IsFiniteSet(S(b)) /\ \A u \in S(b) : f(b)[u] \in Int
      BY <1>1, <1>3
    <3>2. SumFunctionOnSet(f(b), S(b)) = f(b)[b] + SumFunctionOnSet(f(b), S(b) \ {b})
      BY <2>1, <3>1, SumStep
    <3> QED
      BY <2>1, <3>2
  <2>4. /\ SumFunctionOnSet(f(b - 1), S(b - 1)) = SumFunctionOnSet(f(b), S(b - 1))
        /\ SumFunctionOnSet(f(b), S(b - 1)) \in Int
    BY <1>1, <2>1, <2>2, SumSame
  <2>5. f(b)[b] = p - CostOf(b) /\ f(b)[b] \in Int
    BY <1>3, <2>1
  <2> QED
    BY <1>2, <2>1, <2>3, <2>4, <2>5
<1> QED
  BY <1>4, <1>5, <1>6

\* The units from a + 1 to b have a cost, from e + 1 on the same one.
OneCostFrom(p, a, e, b, c) ==
    /\ p \in Int /\ c \in Int /\ a \in Nat /\ e \in Nat /\ b \in Nat
    /\ a <= e /\ e <= b /\ CostIs(e, b, c) /\ Costed(a, b)

\* and over units of one cost a product.
LEMMA GainAtCost ==
    ASSUME NEW p, NEW a, NEW e, NEW b, NEW c, OneCostFrom(p, a, e, b, c)
    PROVE  Gain(p, a, b) = Gain(p, a, e) + (p - c) * (b - e)
<1> USE DEF OneCostFrom
<1> DEFINE Good == {i \in Nat : e + i <= b => Gain(p, a, e + i) = Gain(p, a, e) + (p - c) * i}
<1>1. Gain(p, a, e) \in Int
  <2>1. Costed(a, e)
    BY DEF Costed
  <2> QED
    BY <2>1, GainStep
<1>2. 0 \in Good
  <2>1. e + 0 = e /\ (p - c) * 0 = 0
    BY <1>1
  <2> QED
    BY <1>1, <2>1
<1>3. ASSUME NEW i \in Nat, i \in Good PROVE i + 1 \in Good
  <2> SUFFICES ASSUME e + (i + 1) <= b
               PROVE  Gain(p, a, e + (i + 1)) = Gain(p, a, e) + (p - c) * (i + 1)
    OBVIOUS
  <2>1. Gain(p, a, e + i) = Gain(p, a, e) + (p - c) * i
    BY <1>1, <1>3
  <2> DEFINE k == e + (i + 1)
  <2>2. k \in Nat /\ a < k /\ k - 1 = e + i /\ k \in (e + 1)..b /\ k <= b
    BY <1>1
  <2>3. Costed(a, k) /\ CostOf(k) = c
    BY <2>2 DEF Costed, CostIs
  <2> HIDE DEF k
  <2>4. Gain(p, a, k) = Gain(p, a, k - 1) + (p - CostOf(k))
    BY <2>2, <2>3, GainStep
  <2>5. Gain(p, a, k) = (Gain(p, a, e) + (p - c) * i) + (p - c)
    BY <2>1, <2>2, <2>3, <2>4
  <2>6. (p - c) * (i + 1) = (p - c) * i + (p - c) /\ (p - c) * i \in Int
    OBVIOUS
  <2> QED
    BY <1>1, <2>5, <2>6 DEF k
<1> HIDE DEF Good
<1>4. \A i \in Nat : i \in Good
  BY <1>2, <1>3, NatInduct
<1>5. b - e \in Nat /\ e + (b - e) = b
  OBVIOUS
<1> QED
  BY <1>4, <1>5 DEF Good

-----------------------------------------------------------------------------
(* Lots *)

LotRecord == [quantity : Nat, unitCost : Nat]

\* f numbers the ends of the lots, from unit a on, and a lot's units cost what it says.
Marks(f, lots, a) ==
    /\ f \in [0..Len(lots) -> Nat]
    /\ f[0] = a
    /\ \A k \in 1..Len(lots) :
          /\ f[k] = f[k - 1] + lots[k].quantity
          /\ \A u \in (f[k - 1] + 1)..f[k] : CostOf(u) = lots[k].unitCost

\* The lots are the units from a + 1 to b in the order bought.
Covers(lots, a, b) ==
    /\ lots \in Seq(LotRecord) /\ a \in Nat /\ b \in Nat /\ a <= b
    /\ \E f : Marks(f, lots, a) /\ f[Len(lots)] = b

\* No lot is no unit.
LEMMA CoversNone ==
    ASSUME NEW a \in Nat
    PROVE  Covers(<<>>, a, a)
<1>1. Marks([k \in 0..0 |-> a], <<>>, a) /\ [k \in 0..0 |-> a][Len(<<>>)] = a
  BY DEF Marks
<1> QED
  BY <1>1 DEF Covers

\* A lot more at the end.
LEMMA CoversMore ==
    ASSUME NEW lots, NEW a, NEW b, Covers(lots, a, b), NEW q \in Nat, NEW c \in Nat,
           \A u \in (b + 1)..(b + q) : CostOf(u) = c
    PROVE  Covers(Append(lots, Lot(q, c)), a, b + q)
<1> DEFINE n == Len(lots)
           more == Append(lots, Lot(q, c))
<1>1. lots \in Seq(LotRecord) /\ a \in Nat /\ b \in Nat /\ a <= b /\ n \in Nat
  BY DEF Covers
<1>2. Lot(q, c) \in LotRecord /\ Lot(q, c).quantity = q /\ Lot(q, c).unitCost = c
  BY DEF Lot, LotRecord
<1>3. /\ more \in Seq(LotRecord) /\ Len(more) = n + 1 /\ more[n + 1] = Lot(q, c)
      /\ \A k \in 1..n : more[k] = lots[k]
  BY <1>1, <1>2
<1>4. PICK f : Marks(f, lots, a) /\ f[n] = b
  BY DEF Covers
<1> DEFINE g == [k \in 0..(n + 1) |-> IF k = n + 1 THEN b + q ELSE f[k]]
<1> HIDE DEF more
<1>5. /\ f \in [0..n -> Nat] /\ f[0] = a
      /\ \A k \in 1..n : /\ f[k] = f[k - 1] + lots[k].quantity
                         /\ \A u \in (f[k - 1] + 1)..f[k] : CostOf(u) = lots[k].unitCost
  BY <1>4 DEF Marks
<1> HIDE DEF n
<1>6. g[n + 1] = b + q /\ \A k \in 0..n : g[k] = f[k]
  BY <1>1
<1>7. g \in [0..(n + 1) -> Nat]
  <2>1. \A k \in 0..(n + 1) : k # n + 1 => k \in 0..n
    BY <1>1
  <2>2. b + q \in Nat
    BY <1>1
  <2> QED
    BY <1>5, <2>1, <2>2
<1> HIDE DEF g
<1>8. ASSUME NEW k \in 1..(n + 1)
      PROVE  /\ g[k] = g[k - 1] + more[k].quantity
             /\ \A u \in (g[k - 1] + 1)..g[k] : CostOf(u) = more[k].unitCost
  <2>1. CASE k = n + 1
    <3>1. k - 1 = n /\ n \in 0..n
      BY <1>1, <2>1
    <3>2. g[k - 1] = b /\ g[k] = b + q /\ more[k].quantity = q /\ more[k].unitCost = c
      BY <1>2, <1>3, <1>4, <1>6, <2>1, <3>1 DEF n
    <3> QED
      BY <3>2
  <2>2. CASE k # n + 1
    <3>1. k \in 1..n /\ k \in 0..n /\ k - 1 \in 0..n
      BY <1>1, <2>2
    <3>2. g[k] = f[k] /\ g[k - 1] = f[k - 1] /\ more[k] = lots[k]
      BY <1>3, <1>6, <3>1
    <3> QED
      BY <1>5, <3>1, <3>2
  <2> QED
    BY <2>1, <2>2
<1>9. g[0] = a
  BY <1>1, <1>5, <1>6
<1>10. Marks(g, more, a)
  BY <1>3, <1>7, <1>8, <1>9 DEF Marks
<1>11. b + q \in Nat /\ a <= b + q
  BY <1>1
<1> QED
  BY <1>1, <1>3, <1>6, <1>10, <1>11 DEF Covers, more

-----------------------------------------------------------------------------
(* The matching loop of a sell *)

MatchRecord == [remaining : Nat, price : Nat, realized : Int, lots : Seq(LotRecord)]

\* What a round of the loop does.
LEMMA MatchRound ==
    ASSUME NEW acc \in MatchRecord, NEW lot \in LotRecord
    PROVE  LET matched == IF lot.quantity <= acc.remaining THEN lot.quantity ELSE acc.remaining
               left    == lot.quantity - matched
           IN  /\ MatchLot(acc, lot) \in MatchRecord
               /\ MatchLot(acc, lot).remaining = acc.remaining - matched
               /\ MatchLot(acc, lot).price = acc.price
               /\ MatchLot(acc, lot).realized
                    = acc.realized + (acc.price - lot.unitCost) * matched
               /\ MatchLot(acc, lot).lots
                    = IF left = 0 THEN acc.lots ELSE Append(acc.lots, Lot(left, lot.unitCost))
<1> DEFINE matched == IF lot.quantity <= acc.remaining THEN lot.quantity ELSE acc.remaining
           left == lot.quantity - matched
           less == acc.remaining - matched
           more == acc.realized + (acc.price - lot.unitCost) * matched
           kept == IF left = 0 THEN acc.lots ELSE Append(acc.lots, Lot(left, lot.unitCost))
           res == [remaining |-> less, price |-> acc.price, realized |-> more, lots |-> kept]
<1>1. /\ lot.quantity \in Nat /\ lot.unitCost \in Nat
      /\ acc.remaining \in Nat /\ acc.price \in Nat /\ acc.realized \in Int
      /\ acc.lots \in Seq(LotRecord)
  BY DEF LotRecord, MatchRecord
<1>2. Min({lot.quantity, acc.remaining}) = matched
  <2>1. lot.quantity \in Int /\ acc.remaining \in Int
    BY <1>1
  <2> QED
    BY <2>1, OfTwo
<1>3. matched \in Nat /\ left \in Nat /\ acc.remaining - matched \in Nat
  BY <1>1
<1> HIDE DEF matched
<1>4. MatchLot(acc, lot) = res
  <2>1. acc = [remaining |-> acc.remaining, price |-> acc.price,
               realized |-> acc.realized, lots |-> acc.lots]
    BY DEF MatchRecord
  <2>2. MatchLot(acc, lot) = [acc EXCEPT !.remaining = less, !.realized = more, !.lots = kept]
    BY <1>2 DEF MatchLot
  <2> HIDE DEF less, more, kept
  <2> QED
    BY <2>1, <2>2
<1>5. Lot(left, lot.unitCost) \in LotRecord
  BY <1>1, <1>3 DEF Lot, LotRecord
<1>6. kept \in Seq(LotRecord)
  <2> HIDE DEF left
  <2> QED
    BY <1>1, <1>5
<1>7. less \in Nat /\ more \in Int
  <2>1. (acc.price - lot.unitCost) * matched \in Int
    BY <1>1, <1>3
  <2> QED
    BY <1>1, <1>3, <2>1
<1> HIDE DEF less, more, kept
<1>8. res \in MatchRecord
  BY <1>1, <1>6, <1>7 DEF MatchRecord
<1>9. /\ MatchLot(acc, lot) \in MatchRecord /\ MatchLot(acc, lot).remaining = less
      /\ MatchLot(acc, lot).price = acc.price /\ MatchLot(acc, lot).realized = more
      /\ MatchLot(acc, lot).lots = kept
  BY <1>4, <1>8
<1> HIDE DEF res
<1> QED
  BY <1>9 DEF matched, less, more, kept

\* The rounds of the loop over the lots s.
IsMatching(h, s, first) ==
    /\ h[0] = first
    /\ \A i \in 1..Len(s) : h[i] = MatchLot(h[i - 1], s[i])

\* The fold over the lots is what such a loop ends with.
LEMMA MatchRuns ==
    ASSUME NEW first \in MatchRecord, NEW s \in Seq(LotRecord)
    PROVE  \E h : IsMatching(h, s, first) /\ FoldLeft(MatchLot, first, s) = h[Len(s)]
<1> DEFINE n == Len(s)
           step == [p \in (1..n) \X MatchRecord |-> MatchLot(p[2], s[p[1]])]
           Runs(g) == g = [U \in SUBSET (1..n) |->
                             IF U = {} THEN first ELSE MatchLot(g[U \ {Max(U)}], s[Max(U)])]
<1>1. n \in Nat /\ DOMAIN s = 1..n /\ \A i \in 1..n : s[i] \in LotRecord
  OBVIOUS
<1>3. step \in [(1..n) \X MatchRecord -> MatchRecord]
  BY <1>1, MatchRound
<1> HIDE DEF n
<1>4. PICK g : FoldOf(g, 1..n, MatchRecord, first, step, LastOf(n))
  <2> HIDE DEF step
  <2> QED
    BY <1>1, <1>3, SeqFoldExists
<1>5. Runs(g)
  <2>1. \A U \in SUBSET (1..n) : U # {} => Max(U) \in U
    <3>1. 1 \in Nat
      OBVIOUS
    <3> QED
      BY <1>1, <3>1, IntervalMaxMin
  <2>2. ASSUME NEW U \in SUBSET (1..n), U # {}
        PROVE  g[U] = MatchLot(g[U \ {Max(U)}], s[Max(U)])
    BY <1>4, <2>1, <2>2 DEF FoldOf, OneRound, LastOf
  <2>3. g[{}] = first /\ g = [U \in SUBSET (1..n) |-> g[U]]
    BY <1>4 DEF FoldOf, OneRound
  <2> QED
    BY <2>2, <2>3
<1>6. FoldLeft(MatchLot, first, s) = (CHOOSE it : Runs(it))[DOMAIN s]
  BY <1>1, Zenon DEF FoldLeft, MapThenFoldSet
<1>7. PICK it : Runs(it) /\ FoldLeft(MatchLot, first, s) = it[1..n]
  <2> HIDE DEF Runs
  <2> QED
    BY <1>1, <1>5, <1>6
<1> DEFINE h == [i \in 0..n |-> it[1..i]]
<1>8. h[0] = first
  BY <1>1, <1>7
<1>9. ASSUME NEW i \in 1..n PROVE h[i] = MatchLot(h[i - 1], s[i])
  <2>1. /\ 1..i \in SUBSET (1..n) /\ 1..i # {}
        /\ Max(1..i) = i /\ (1..i) \ {i} = 1..(i - 1)
    BY <1>1, InitialSegment
  <2>2. it[1..i] = MatchLot(it[1..(i - 1)], s[i])
    BY <1>7, <2>1
  <2> QED
    BY <1>1, <2>2
<1>10. h[n] = it[1..n]
  BY <1>1
<1> HIDE DEF h
<1> QED
  BY <1>7, <1>8, <1>9, <1>10 DEF IsMatching, n

\* After k lots: what was matched are the oldest units, and the lots kept are the
\* units that follow.
Matched(acc, f, k, a, q, p, realized) ==
    /\ acc \in MatchRecord /\ acc.price = p /\ acc.remaining <= q
    /\ acc.realized = realized + Gain(p, a, a + (q - acc.remaining))
    /\ \/ acc.lots = <<>> /\ a + (q - acc.remaining) = f[k]
       \/ acc.remaining = 0 /\ Covers(acc.lots, a + q, f[k])

\* A round keeps it so.
LEMMA MatchGoesOn ==
    ASSUME PnLTypeOK, NEW n \in 0..Len(trades), NEW lots \in Seq(LotRecord),
           NEW a \in Nat, NEW f, Marks(f, lots, a), NEW k \in 1..Len(lots),
           f[k - 1] >= a, f[k] <= Bought(n),
           NEW q \in Nat, NEW p \in Nat, NEW realized \in Int,
           NEW acc, Matched(acc, f, k - 1, a, q, p, realized)
    PROVE  Matched(MatchLot(acc, lots[k]), f, k, a, q, p, realized)
<1> DEFINE lot == lots[k]
           next == MatchLot(acc, lot)
           Q == lot.quantity
           c == lot.unitCost
           r == acc.remaining
           m == IF Q <= r THEN Q ELSE r
           x == f[k - 1]
           y == f[k]
           e == a + (q - r)
           d == a + (q - (r - m))
<1>1. lot \in LotRecord /\ Q \in Nat /\ c \in Nat
  <2>1. lot \in LotRecord
    OBVIOUS
  <2> HIDE DEF lot
  <2> QED
    BY <2>1 DEF LotRecord
<1>2. x \in Nat /\ y \in Nat /\ y = x + Q /\ \A u \in (x + 1)..y : CostOf(u) = c
  <2>1. k \in 0..Len(lots) /\ k - 1 \in 0..Len(lots)
    OBVIOUS
  <2> QED
    BY <2>1 DEF Marks
<1>3. /\ acc \in MatchRecord /\ acc.price = p /\ r <= q /\ r \in Nat
      /\ acc.realized = realized + Gain(p, a, e) /\ acc.realized \in Int
      /\ \/ acc.lots = <<>> /\ e = x
         \/ r = 0 /\ Covers(acc.lots, a + q, x)
  BY DEF Matched, MatchRecord
<1>4. /\ next \in MatchRecord /\ next.remaining = r - m
      /\ next.price = p /\ next.realized = acc.realized + (p - c) * m
      /\ next.lots = IF Q - m = 0 THEN acc.lots ELSE Append(acc.lots, Lot(Q - m, c))
  BY <1>1, <1>3, MatchRound
<1>5. a <= x /\ y <= Bought(n) /\ Bought(n) \in Int
  BY BoughtSteps
<1> SUFFICES Matched(next, f, k, a, q, p, realized)
  OBVIOUS
<1> HIDE DEF lot, next, Q, c, r, x, y
<1>6. /\ m \in Nat /\ Q - m \in Nat /\ r - m \in Nat /\ r - m <= q /\ e \in Nat /\ a <= e
      /\ d = e + m /\ d \in Nat /\ e <= d
  BY <1>1, <1>3
<1>7. CASE acc.lots = <<>> /\ e = x
  <2>1. d <= y /\ d - e = m /\ (Q - m = 0 => d = y)
    BY <1>1, <1>2, <1>3, <1>6, <1>7
  <2>2. Q - m # 0 => r - m = 0 /\ a + q \in Nat /\ a + q = d /\ (a + q) + (Q - m) = y
    BY <1>1, <1>2, <1>3, <1>6, <1>7
  <2>3. \A u \in (e + 1)..y : CostOf(u) = c
    BY <1>2, <1>7
  <2> HIDE DEF e, d, m
  <2>4. Costed(a, d)
    <3>1. d \in Int /\ y \in Int /\ Bought(n) \in Int /\ d <= y /\ y <= Bought(n)
      BY <1>2, <1>5, <1>6, <2>1
    <3>2. d <= Bought(n)
      BY <3>1
    <3>3. \A u \in (a + 1)..d : u \in 1..Bought(n)
      BY <3>1, <3>2
    <3> QED
      BY <3>3, CostType DEF Costed
  <2>5. Gain(p, a, d) = Gain(p, a, e) + (p - c) * m
    <3>1. CostIs(e, d, c)
      BY <1>2, <1>6, <2>1, <2>3 DEF CostIs
    <3>2. p \in Int /\ c \in Int
      BY <1>1
    <3>3. Gain(p, a, d) = Gain(p, a, e) + (p - c) * (d - e)
      <4>1. OneCostFrom(p, a, e, d, c)
        BY <1>6, <2>4, <3>1, <3>2 DEF OneCostFrom
      <4> QED
        BY <4>1, GainAtCost
    <3> QED
      BY <2>1, <3>3
  <2>6. Gain(p, a, e) \in Int
    <3>1. Costed(a, e)
      BY <1>6, <2>4 DEF Costed
    <3>2. p \in Int
      OBVIOUS
    <3> QED
      BY <1>6, <3>1, <3>2, GainStep
  <2>7. next.realized = realized + Gain(p, a, d)
    <3>1. (p - c) * m \in Int
      BY <1>1, <1>6
    <3> QED
      BY <1>3, <1>4, <2>5, <2>6, <3>1
  <2>8. \/ next.lots = <<>> /\ d = y
        \/ r - m = 0 /\ Covers(next.lots, a + q, y)
    <3>1. CASE Q - m = 0
      BY <1>4, <1>7, <2>1, <3>1
    <3>2. CASE Q - m # 0
      <4>1. next.lots = Append(<<>>, Lot(Q - m, c))
        BY <1>4, <1>7, <3>2
      <4>2. Covers(<<>>, a + q, a + q)
        BY <2>2, <3>2, CoversNone
      <4>3. \A u \in ((a + q) + 1)..((a + q) + (Q - m)) : CostOf(u) = c
        BY <1>2, <1>6, <2>2, <2>3, <3>2
      <4>4. Covers(Append(<<>>, Lot(Q - m, c)), a + q, (a + q) + (Q - m))
        BY <1>1, <1>6, <4>2, <4>3, CoversMore
      <4> QED
        BY <2>2, <3>2, <4>1, <4>4
    <3> QED
      BY <3>1, <3>2
  <2> QED
    BY <1>4, <1>6, <2>7, <2>8 DEF Matched, d, y
<1>8. CASE r = 0 /\ Covers(acc.lots, a + q, x)
  <2>1. m = 0 /\ r - m = 0 /\ Q - m = Q /\ d = e /\ (p - c) * m = 0
    BY <1>1, <1>3, <1>8
  <2> HIDE DEF e, d, m
  <2>2. next.realized = realized + Gain(p, a, d)
    BY <1>3, <1>4, <2>1
  <2>3. Covers(next.lots, a + q, y)
    <3>1. CASE Q = 0
      <4>1. next.lots = acc.lots /\ y = x
        BY <1>2, <1>4, <2>1, <3>1
      <4> QED
        BY <1>8, <4>1
    <3>2. CASE Q # 0
      <4>1. next.lots = Append(acc.lots, Lot(Q, c)) /\ y = x + Q
        BY <1>2, <1>4, <2>1, <3>2
      <4>2. Covers(Append(acc.lots, Lot(Q, c)), a + q, x + Q)
        BY <1>1, <1>2, <1>8, <4>1, CoversMore
      <4> QED
        BY <4>1, <4>2
    <3> QED
      BY <3>1, <3>2
  <2> QED
    BY <1>4, <1>6, <2>1, <2>2, <2>3 DEF Matched, d, y
<1> QED
  BY <1>3, <1>7, <1>8

\* The ends of the lots follow one another.
LEMMA MarksAscend ==
    ASSUME NEW lots \in Seq(LotRecord), NEW a, NEW f, Marks(f, lots, a)
    PROVE  \A k \in 0..Len(lots) : f[0] <= f[k] /\ f[k] <= f[Len(lots)] /\ f[k] \in Nat
<1> DEFINE n == Len(lots)
           Good == {k \in Nat : k <= n => \A j \in 0..k : f[j] <= f[k]}
<1>1. /\ n \in Nat /\ \A k \in 0..n : f[k] \in Nat
      /\ \A k \in 1..n : f[k] = f[k - 1] + lots[k].quantity /\ lots[k].quantity \in Nat
  <2>1. n \in Nat /\ \A k \in 1..n : lots[k] \in LotRecord
    OBVIOUS
  <2>2. \A k \in 1..n : lots[k].quantity \in Nat
    BY <2>1 DEF LotRecord
  <2> QED
    BY <2>1, <2>2 DEF Marks
<1> HIDE DEF n
<1>2. 0 \in Good
  <2>1. \A j \in 0..0 : j = 0
    OBVIOUS
  <2>2. f[0] \in Nat
    BY <1>1
  <2> QED
    BY <2>1, <2>2
<1>3. ASSUME NEW k \in Nat, k \in Good PROVE k + 1 \in Good
  <2> SUFFICES ASSUME k + 1 <= n, NEW j \in 0..(k + 1) PROVE f[j] <= f[k + 1]
    OBVIOUS
  <2>1. k + 1 \in 1..n /\ (k + 1) - 1 = k /\ k \in 0..n /\ k + 1 \in 0..n /\ j \in 0..n
    BY <1>1
  <2>2. f[k + 1] = f[k] + lots[k + 1].quantity /\ lots[k + 1].quantity \in Nat
    BY <1>1, <2>1
  <2>3. f[k] \in Nat /\ f[k + 1] \in Nat /\ f[j] \in Nat
    BY <1>1, <2>1
  <2>4. CASE j = k + 1
    BY <2>3, <2>4
  <2>5. CASE j # k + 1
    <3>1. j \in 0..k
      BY <2>5
    <3>2. f[j] <= f[k]
      BY <1>1, <1>3, <2>1, <3>1
    <3> QED
      BY <2>2, <2>3, <3>2
  <2> QED
    BY <2>4, <2>5
<1> HIDE DEF Good
<1>4. \A k \in Nat : k \in Good
  BY <1>2, <1>3, NatInduct
<1>5. ASSUME NEW k \in 0..n PROVE f[0] <= f[k] /\ f[k] <= f[n]
  <2>1. k \in Nat /\ k <= n /\ 0 \in 0..k /\ k \in 0..n
    BY <1>1
  <2>2. \A j \in 0..k : f[j] <= f[k]
    BY <1>4, <2>1 DEF Good
  <2>3. \A j \in 0..n : f[j] <= f[n]
    BY <1>1, <1>4 DEF Good
  <2> QED
    BY <2>1, <2>2, <2>3
<1> QED
  BY <1>1, <1>5 DEF n

\* The loop keeps what it gathers typed.
LEMMA MatchType ==
    ASSUME NEW first \in MatchRecord, NEW lots \in Seq(LotRecord)
    PROVE  FoldLeft(MatchLot, first, lots) \in MatchRecord
<1> DEFINE n == Len(lots)
           Good(h) == {k \in Nat : k <= n => h[k] \in MatchRecord}
<1>1. PICK h : IsMatching(h, lots, first) /\ FoldLeft(MatchLot, first, lots) = h[n]
  BY MatchRuns
<1>2. n \in Nat /\ \A k \in 1..n : lots[k] \in LotRecord
  OBVIOUS
<1>3. 0 \in Good(h)
  BY <1>1 DEF IsMatching
<1>4. ASSUME NEW k \in Nat, k \in Good(h) PROVE k + 1 \in Good(h)
  <2> SUFFICES ASSUME k + 1 <= n PROVE h[k + 1] \in MatchRecord
    OBVIOUS
  <2>1. k + 1 \in 1..n /\ (k + 1) - 1 = k /\ h[k] \in MatchRecord
    BY <1>2, <1>4
  <2>2. h[k + 1] = MatchLot(h[k], lots[k + 1]) /\ lots[k + 1] \in LotRecord
    BY <1>1, <1>2, <2>1 DEF IsMatching
  <2> QED
    BY <2>1, <2>2, MatchRound
<1> HIDE DEF Good
<1>5. \A k \in Nat : k \in Good(h)
  BY <1>3, <1>4, NatInduct
<1> QED
  BY <1>1, <1>2, <1>5 DEF Good

\* A sell takes the oldest units, as many as it sells or as there are, and leaves
\* the units that follow.
LEMMA SellMatches ==
    ASSUME PnLTypeOK, NEW n \in 0..Len(trades), NEW lots, NEW a, NEW b, Covers(lots, a, b),
           b <= Bought(n), NEW q \in Nat, NEW p \in Nat, NEW realized \in Int
    PROVE  LET end  == FoldLeft(MatchLot, [remaining |-> q, price |-> p,
                                           realized |-> realized, lots |-> <<>>], lots)
               gone == IF a + q <= b THEN a + q ELSE b
           IN  Covers(end.lots, gone, b) /\ end.realized = realized + Gain(p, a, gone)
<1> DEFINE first == [remaining |-> q, price |-> p, realized |-> realized, lots |-> <<>>]
           end == FoldLeft(MatchLot, first, lots)
           gone == IF a + q <= b THEN a + q ELSE b
           L == Len(lots)
           Good(h, f) == {k \in Nat : k <= L => Matched(h[k], f, k, a, q, p, realized)}
<1>1. lots \in Seq(LotRecord) /\ a \in Nat /\ b \in Nat /\ a <= b /\ L \in Nat
  BY DEF Covers
<1>2. PICK f : Marks(f, lots, a) /\ f[L] = b
  BY DEF Covers
<1>3. f[0] = a /\ \A k \in 0..L : a <= f[k] /\ f[k] <= b /\ f[k] \in Nat
  BY <1>1, <1>2, MarksAscend DEF Marks
<1>4. first \in MatchRecord
  <2>1. <<>> \in Seq(LotRecord)
    OBVIOUS
  <2> QED
    BY <2>1 DEF MatchRecord
<1>5. PICK h : IsMatching(h, lots, first) /\ end = h[L]
  BY <1>1, <1>4, MatchRuns
<1>6. 0 \in Good(h, f)
  <2>1. h[0] = first
    BY <1>5 DEF IsMatching
  <2>2. Gain(p, a, a) = 0
    <3>1. Costed(a, a) /\ p \in Int
      BY <1>1 DEF Costed
    <3> QED
      BY <1>1, <3>1, GainStep
  <2>3. a + (q - q) = a /\ q <= q /\ realized + 0 = realized
    BY <1>1
  <2> HIDE DEF L
  <2> QED
    BY <1>3, <1>4, <2>1, <2>2, <2>3 DEF Matched
<1>7. ASSUME NEW k \in Nat, k \in Good(h, f) PROVE k + 1 \in Good(h, f)
  <2> SUFFICES ASSUME k + 1 <= L PROVE Matched(h[k + 1], f, k + 1, a, q, p, realized)
    OBVIOUS
  <2> DEFINE l == k + 1
  <2>1. l \in 1..L /\ l - 1 = k /\ Matched(h[k], f, k, a, q, p, realized)
    BY <1>1, <1>7
  <2>2. h[l] = MatchLot(h[k], lots[l])
    BY <1>5, <2>1 DEF IsMatching
  <2>3. f[l - 1] >= a /\ f[l] <= Bought(n)
    <3>1. l \in 0..L /\ l - 1 \in 0..L
      BY <1>1, <2>1
    <3>2. f[l - 1] >= a /\ f[l] <= b /\ f[l - 1] \in Nat /\ f[l] \in Nat
      BY <1>1, <1>3, <3>1
    <3>3. Bought(n) \in Int
      BY BoughtSteps
    <3> QED
      BY <1>1, <3>2, <3>3
  <2> HIDE DEF l
  <2>4. Matched(MatchLot(h[k], lots[l]), f, l, a, q, p, realized)
    BY <1>1, <1>2, <2>1, <2>3, MatchGoesOn
  <2> QED
    BY <2>2, <2>4 DEF l
<1> HIDE DEF Good
<1>8. \A k \in Nat : k \in Good(h, f)
  BY <1>6, <1>7, NatInduct
<1>9. Matched(end, f, L, a, q, p, realized)
  BY <1>1, <1>5, <1>8 DEF Good
<1> HIDE DEF end, first
<1>10. /\ end.remaining \in Nat /\ end.remaining <= q
       /\ end.realized = realized + Gain(p, a, a + (q - end.remaining))
       /\ \/ end.lots = <<>> /\ a + (q - end.remaining) = b
          \/ end.remaining = 0 /\ Covers(end.lots, a + q, b)
  BY <1>2, <1>9 DEF Matched, MatchRecord
<1>11. CASE end.lots = <<>> /\ a + (q - end.remaining) = b
  <2>1. gone = b
    BY <1>1, <1>10, <1>11
  <2>2. Covers(<<>>, b, b)
    BY <1>1, CoversNone
  <2> QED
    BY <1>10, <1>11, <2>1, <2>2 DEF end, first
<1>12. CASE end.remaining = 0 /\ Covers(end.lots, a + q, b)
  <2>1. a + q <= b
    BY <1>12 DEF Covers
  <2>2. gone = a + q /\ a + (q - end.remaining) = a + q
    BY <1>1, <1>12, <2>1
  <2> QED
    BY <1>10, <1>12, <2>2 DEF end, first
<1> QED
  BY <1>10, <1>11, <1>12

-----------------------------------------------------------------------------
(* The loop over the transactions *)

BookRecord == [lots : Seq(LotRecord), realized : Int, excluded : Nat]

\* What each kind of trade does to the book.
LEMMA ProcessIs ==
    ASSUME NEW book \in BookRecord, NEW t \in TradeRecord
    PROVE  /\ ~t.resolved =>
                 Process(book, t) = [lots |-> book.lots, realized |-> book.realized,
                                     excluded |-> book.excluded + 1]
           /\ t.resolved /\ t.type = "buy" =>
                 Process(book, t) = [lots |-> Append(book.lots, Lot(t.quantity, t.price)),
                                     realized |-> book.realized, excluded |-> book.excluded]
           /\ t.resolved /\ t.type = "sell" =>
                 LET end == FoldLeft(MatchLot, [remaining |-> t.quantity, price |-> t.price,
                                         realized |-> book.realized, lots |-> <<>>], book.lots)
                 IN  Process(book, t) = [lots |-> end.lots, realized |-> end.realized,
                                         excluded |-> book.excluded]
           /\ t.resolved /\ t.type \notin {"buy", "sell"} => Process(book, t) = book
<1>1. book = [lots |-> book.lots, realized |-> book.realized, excluded |-> book.excluded]
  BY DEF BookRecord
<1>2. ASSUME ~t.resolved
      PROVE  Process(book, t) = [lots |-> book.lots, realized |-> book.realized,
                                 excluded |-> book.excluded + 1]
  BY <1>1, <1>2 DEF Process
<1>3. ASSUME t.resolved, t.type = "buy"
      PROVE  Process(book, t) = [lots |-> Append(book.lots, Lot(t.quantity, t.price)),
                                 realized |-> book.realized, excluded |-> book.excluded]
  <2>1. Process(book, t) = Buy(book, t)
    BY <1>3 DEF Process
  <2> QED
    BY <1>1, <2>1 DEF Buy
<1>4. ASSUME t.resolved, t.type = "sell"
      PROVE  LET end == FoldLeft(MatchLot, [remaining |-> t.quantity, price |-> t.price,
                                     realized |-> book.realized, lots |-> <<>>], book.lots)
             IN  Process(book, t) = [lots |-> end.lots, realized |-> end.realized,
                                     excluded |-> book.excluded]
  <2> DEFINE end == FoldLeft(MatchLot, [remaining |-> t.quantity, price |-> t.price,
                                 realized |-> book.realized, lots |-> <<>>], book.lots)
  <2>1. Process(book, t) = Sell(book, t)
    BY <1>4 DEF Process
  <2>2. Sell(book, t) = [book EXCEPT !.lots = end.lots, !.realized = end.realized]
    BY DEF Sell
  <2> HIDE DEF end
  <2>3. Process(book, t) = [lots |-> end.lots, realized |-> end.realized,
                            excluded |-> book.excluded]
    BY <1>1, <2>1, <2>2
  <2> QED
    BY <2>3 DEF end
<1>5. ASSUME t.resolved, t.type \notin {"buy", "sell"} PROVE Process(book, t) = book
  BY <1>5 DEF Process
<1> QED
  BY <1>2, <1>3, <1>4, <1>5

\* A trade keeps the book typed.
LEMMA ProcessType ==
    ASSUME NEW book \in BookRecord, NEW t \in TradeRecord
    PROVE  Process(book, t) \in BookRecord
<1>1. /\ book.lots \in Seq(LotRecord) /\ book.realized \in Int /\ book.excluded \in Nat
  BY DEF BookRecord
<1>2. t.quantity \in Nat /\ t.price \in Nat
  <2>1. t.quantity \in Quantity /\ t.price \in UnitPrice
    BY DEF TradeRecord
  <2> QED
    BY <2>1, PnLAssumption
<1>3. CASE ~t.resolved
  <2>1. Process(book, t) = [lots |-> book.lots, realized |-> book.realized,
                            excluded |-> book.excluded + 1]
    BY <1>3, ProcessIs
  <2> QED
    BY <1>1, <2>1 DEF BookRecord
<1>4. CASE t.resolved /\ t.type = "buy"
  <2>1. Lot(t.quantity, t.price) \in LotRecord
    BY <1>2 DEF Lot, LotRecord
  <2>2. Append(book.lots, Lot(t.quantity, t.price)) \in Seq(LotRecord)
    BY <1>1, <2>1
  <2>3. Process(book, t) = [lots |-> Append(book.lots, Lot(t.quantity, t.price)),
                            realized |-> book.realized, excluded |-> book.excluded]
    BY <1>4, ProcessIs
  <2> QED
    BY <1>1, <2>2, <2>3 DEF BookRecord
<1>5. CASE t.resolved /\ t.type = "sell"
  <2> DEFINE first == [remaining |-> t.quantity, price |-> t.price,
                       realized |-> book.realized, lots |-> <<>>]
             end == FoldLeft(MatchLot, first, book.lots)
  <2>1. first \in MatchRecord
    <3>1. <<>> \in Seq(LotRecord)
      OBVIOUS
    <3> QED
      BY <1>1, <1>2, <3>1 DEF MatchRecord
  <2>2. Process(book, t) = [lots |-> end.lots, realized |-> end.realized,
                            excluded |-> book.excluded]
    BY <1>5, ProcessIs
  <2> HIDE DEF first
  <2>3. end \in MatchRecord
    BY <1>1, <2>1, MatchType
  <2> HIDE DEF end
  <2>4. end.lots \in Seq(LotRecord) /\ end.realized \in Int
    BY <2>3 DEF MatchRecord
  <2> QED
    BY <1>1, <2>2, <2>4 DEF BookRecord
<1>6. CASE t.resolved /\ t.type \notin {"buy", "sell"}
  BY <1>6, ProcessIs
<1> QED
  BY <1>3, <1>4, <1>5, <1>6

\* The steps of the loop over the transactions s.
IsBook(h, s) ==
    /\ h[0] = [lots |-> <<>>, realized |-> 0, excluded |-> 0]
    /\ \A i \in 1..Len(s) : h[i] = Process(h[i - 1], s[i])

\* The fold over the transactions is what such a loop ends with.
LEMMA BookRuns ==
    ASSUME NEW s \in Seq(TradeRecord)
    PROVE  \E h : /\ IsBook(h, s)
                  /\ FoldLeft(Process, [lots |-> <<>>, realized |-> 0, excluded |-> 0], s)
                       = h[Len(s)]
<1> DEFINE base == [lots |-> <<>>, realized |-> 0, excluded |-> 0]
           n == Len(s)
           step == [p \in (1..n) \X BookRecord |-> Process(p[2], s[p[1]])]
           Runs(g) == g = [U \in SUBSET (1..n) |->
                             IF U = {} THEN base ELSE Process(g[U \ {Max(U)}], s[Max(U)])]
<1>1. n \in Nat /\ DOMAIN s = 1..n /\ \A i \in 1..n : s[i] \in TradeRecord
  OBVIOUS
<1>2. base \in BookRecord
  <2>1. <<>> \in Seq(LotRecord)
    OBVIOUS
  <2> QED
    BY <2>1 DEF BookRecord
<1>3. step \in [(1..n) \X BookRecord -> BookRecord]
  BY <1>1, ProcessType
<1> HIDE DEF n, base
<1>4. PICK g : FoldOf(g, 1..n, BookRecord, base, step, LastOf(n))
  <2> HIDE DEF step
  <2> QED
    BY <1>1, <1>2, <1>3, SeqFoldExists
<1>5. Runs(g)
  <2>1. \A U \in SUBSET (1..n) : U # {} => Max(U) \in U
    <3>1. 1 \in Nat
      OBVIOUS
    <3> QED
      BY <1>1, <3>1, IntervalMaxMin
  <2>2. ASSUME NEW U \in SUBSET (1..n), U # {}
        PROVE  g[U] = Process(g[U \ {Max(U)}], s[Max(U)])
    BY <1>4, <2>1, <2>2 DEF FoldOf, OneRound, LastOf
  <2>3. g[{}] = base /\ g = [U \in SUBSET (1..n) |-> g[U]]
    BY <1>4 DEF FoldOf, OneRound
  <2> QED
    BY <2>2, <2>3
<1>6. FoldLeft(Process, base, s) = (CHOOSE it : Runs(it))[DOMAIN s]
  BY <1>1, Zenon DEF FoldLeft, MapThenFoldSet
<1>7. PICK it : Runs(it) /\ FoldLeft(Process, base, s) = it[1..n]
  <2> HIDE DEF Runs
  <2> QED
    BY <1>1, <1>5, <1>6
<1> DEFINE h == [i \in 0..n |-> it[1..i]]
<1>8. h[0] = base
  BY <1>1, <1>7
<1>9. ASSUME NEW i \in 1..n PROVE h[i] = Process(h[i - 1], s[i])
  <2>1. /\ 1..i \in SUBSET (1..n) /\ 1..i # {}
        /\ Max(1..i) = i /\ (1..i) \ {i} = 1..(i - 1)
    BY <1>1, InitialSegment
  <2>2. it[1..i] = Process(it[1..(i - 1)], s[i])
    BY <1>7, <2>1
  <2> QED
    BY <1>1, <2>2
<1>10. h[n] = it[1..n]
  BY <1>1
<1> HIDE DEF h
<1> QED
  BY <1>7, <1>8, <1>9, <1>10 DEF IsBook, n, base

\* What the sells among the first n trades realize, by the numbering of units.
GainOfSell == [n \in DOMAIN trades |-> Gain(trades[n].price, Gone(n - 1), Gone(n))]
Sells == {n \in DOMAIN trades : Counts(n, "sell")}
RealizedUpTo(n) == SumFunctionOnSet(GainOfSell, UpTo(Sells, n))

\* It grows with each sell.
LEMMA RealizedSteps ==
    ASSUME PnLTypeOK
    PROVE  /\ RealizedUpTo(0) = 0
           /\ RealizedUpTo(Len(trades)) = RealizedRef
           /\ \A n \in 0..Len(trades) : RealizedUpTo(n) \in Int
           /\ \A n \in 1..Len(trades) :
                 /\ Gain(trades[n].price, Gone(n - 1), Gone(n)) \in Int
                 /\ RealizedUpTo(n) = RealizedUpTo(n - 1)
                      + (IF Counts(n, "sell") THEN Gain(trades[n].price, Gone(n - 1), Gone(n))
                         ELSE 0)
<1> DEFINE T == Len(trades)
<1>1. T \in Nat /\ DOMAIN trades = 1..T /\ Sells \in SUBSET (1..T)
  BY TradeTypes DEF Sells
<1>2. ASSUME NEW n \in 1..T PROVE Gain(trades[n].price, Gone(n - 1), Gone(n)) \in Int
  <2>1. n \in 0..T /\ n - 1 \in 0..T
    BY <1>1
  <2>2. Gone(n - 1) \in Nat /\ Gone(n) \in Nat /\ Gone(n) <= Bought(n) /\ Bought(n) \in Int
    BY <2>1, GoneSteps, BoughtSteps
  <2>3. trades[n].price \in Int
    BY <1>1, TradeTypes
  <2>4. Costed(Gone(n - 1), Gone(n))
    <3>1. \A u \in (Gone(n - 1) + 1)..Gone(n) : u \in 1..Bought(n)
      BY <2>2
    <3> QED
      BY <2>1, <3>1, CostType DEF Costed
  <2> QED
    BY <2>2, <2>3, <2>4, GainStep
<1>3. \A n \in 1..T : GainOfSell[n] = Gain(trades[n].price, Gone(n - 1), Gone(n))
  BY <1>1 DEF GainOfSell
<1>4. \A n \in 1..T : GainOfSell[n] \in Int
  BY <1>2, <1>3
<1>5. \A n \in 1..T : n \in Sells <=> Counts(n, "sell")
  BY <1>1 DEF Sells
<1>6. UpTo(Sells, T) = Sells
  BY <1>1 DEF UpTo
<1> HIDE DEF T
<1>7. /\ RealizedUpTo(0) = 0
      /\ \A n \in 0..T : RealizedUpTo(n) \in Int
      /\ \A n \in 1..T : RealizedUpTo(n) = RealizedUpTo(n - 1)
                            + (IF n \in Sells THEN GainOfSell[n] ELSE 0)
  <2>1. /\ SumFunctionOnSet(GainOfSell, UpTo(Sells, 0)) = 0
        /\ \A n \in 0..T : SumFunctionOnSet(GainOfSell, UpTo(Sells, n)) \in Int
        /\ \A n \in 1..T : SumFunctionOnSet(GainOfSell, UpTo(Sells, n))
              = SumFunctionOnSet(GainOfSell, UpTo(Sells, n - 1))
                  + (IF n \in Sells THEN GainOfSell[n] ELSE 0)
    <3>1. Summable(T, Sells, GainOfSell)
      BY <1>1, <1>4 DEF Summable
    <3> QED
      BY <3>1, SumUpto
  <2> QED
    BY <2>1 DEF RealizedUpTo
<1>8. RealizedUpTo(T) = RealizedRef
  <2>1. RealizedRef = SumFunctionOnSet(GainOfSell, Sells)
    BY DEF RealizedRef, GainOfSell, Sells
  <2> QED
    BY <1>6, <2>1 DEF RealizedUpTo
<1>9. ASSUME NEW n \in 1..T
      PROVE  RealizedUpTo(n) = RealizedUpTo(n - 1)
               + (IF Counts(n, "sell") THEN Gain(trades[n].price, Gone(n - 1), Gone(n)) ELSE 0)
  BY <1>3, <1>5, <1>7
<1> QED
  BY <1>2, <1>7, <1>8, <1>9 DEF T

\* The trades that cannot be resolved.
Unresolved == {n \in DOMAIN trades : ~trades[n].resolved}

\* Their number grows by one with each.
LEMMA UnresolvedSteps ==
    ASSUME PnLTypeOK
    PROVE  /\ Cardinality(UpTo(Unresolved, 0)) = 0
           /\ UpTo(Unresolved, Len(trades)) = Unresolved
           /\ \A n \in 1..Len(trades) :
                 /\ trades[n].resolved => UpTo(Unresolved, n) = UpTo(Unresolved, n - 1)
                 /\ ~trades[n].resolved => Cardinality(UpTo(Unresolved, n))
                                             = Cardinality(UpTo(Unresolved, n - 1)) + 1
<1> DEFINE T == Len(trades)
<1>1. T \in Nat /\ DOMAIN trades = 1..T
  BY TradeTypes
<1>2. UpTo(Unresolved, 0) = {}
  BY DEF UpTo
<1>3. UpTo(Unresolved, T) = Unresolved
  BY <1>1 DEF UpTo, Unresolved
<1>4. ASSUME NEW n \in 1..T, trades[n].resolved
      PROVE  UpTo(Unresolved, n) = UpTo(Unresolved, n - 1)
  <2>1. n \notin Unresolved
    BY <1>4 DEF Unresolved
  <2> QED
    BY <1>1, <2>1 DEF UpTo
<1>5. ASSUME NEW n \in 1..T, ~trades[n].resolved
      PROVE  Cardinality(UpTo(Unresolved, n)) = Cardinality(UpTo(Unresolved, n - 1)) + 1
  <2>1. n \in Unresolved
    BY <1>1, <1>5 DEF Unresolved
  <2>2. /\ UpTo(Unresolved, n) = UpTo(Unresolved, n - 1) \cup {n}
        /\ n \notin UpTo(Unresolved, n - 1)
    BY <1>1, <2>1 DEF UpTo
  <2>3. IsFiniteSet(UpTo(Unresolved, n - 1))
    <3>1. 1 \in Int /\ n - 1 \in Int
      BY <1>1
    <3>2. IsFiniteSet(1..(n - 1)) /\ UpTo(Unresolved, n - 1) \subseteq 1..(n - 1)
      BY <3>1, FS_Interval DEF UpTo
    <3> QED
      BY <3>2, FS_Subset
  <2> QED
    BY <2>2, <2>3, FS_AddElement
<1>6. Cardinality(UpTo(Unresolved, 0)) = 0
  BY <1>2, FS_EmptySet
<1> QED
  BY <1>3, <1>4, <1>5, <1>6

\* The book after n trades: the lots are the units in hand.
BookSoFar(h, n) ==
    /\ h[n] \in BookRecord
    /\ Covers(h[n].lots, Gone(n), Bought(n))
    /\ h[n].realized = RealizedUpTo(n)
    /\ h[n].excluded = Cardinality(UpTo(Unresolved, n))

\* A trade keeps it so.
LEMMA BookGoesOn ==
    ASSUME PnLTypeOK, NEW h, IsBook(h, trades), NEW n \in 1..Len(trades), BookSoFar(h, n - 1)
    PROVE  BookSoFar(h, n)
<1> DEFINE t == trades[n]
           book == h[n - 1]
<1>1. /\ h[n] = Process(book, t) /\ book \in BookRecord /\ t \in TradeRecord
      /\ Covers(book.lots, Gone(n - 1), Bought(n - 1))
      /\ book.realized = RealizedUpTo(n - 1)
      /\ book.excluded = Cardinality(UpTo(Unresolved, n - 1))
  BY DEF IsBook, BookSoFar, PnLTypeOK
<1>2. h[n] \in BookRecord
  BY <1>1, ProcessType
<1>3. /\ t.quantity \in Nat /\ t.price \in Nat
      /\ n \in 0..Len(trades) /\ n - 1 \in 0..Len(trades)
  BY TradeTypes
<1>4. /\ Gone(n - 1) \in Nat /\ Bought(n - 1) \in Int /\ Bought(n) \in Int
      /\ RealizedUpTo(n - 1) \in Int
      /\ Bought(n) = Bought(n - 1) + (IF Counts(n, "buy") THEN t.quantity ELSE 0)
      /\ RealizedUpTo(n) = RealizedUpTo(n - 1)
           + (IF Counts(n, "sell") THEN Gain(t.price, Gone(n - 1), Gone(n)) ELSE 0)
  <2>1. Gone(n - 1) \in Nat
    BY <1>3, GoneSteps
  <2>2. Bought(n - 1) \in Int /\ Bought(n) \in Int
    BY <1>3, BoughtSteps
  <2>3. Bought(n) = Bought(n - 1) + (IF Counts(n, "buy") THEN t.quantity ELSE 0)
    BY BoughtSteps
  <2>4. RealizedUpTo(n - 1) \in Int
    BY <1>3, RealizedSteps
  <2>5. RealizedUpTo(n) = RealizedUpTo(n - 1)
           + (IF Counts(n, "sell") THEN Gain(t.price, Gone(n - 1), Gone(n)) ELSE 0)
    BY RealizedSteps
  <2> QED
    BY <2>1, <2>2, <2>3, <2>4, <2>5
<1>5. /\ Counts(n, "buy") <=> t.resolved /\ t.type = "buy"
      /\ Counts(n, "sell") <=> t.resolved /\ t.type = "sell"
  BY DEF Counts
<1>6. /\ t.resolved => UpTo(Unresolved, n) = UpTo(Unresolved, n - 1)
      /\ ~t.resolved => Cardinality(UpTo(Unresolved, n))
                          = Cardinality(UpTo(Unresolved, n - 1)) + 1
      /\ ~Counts(n, "sell") => Gone(n) = Gone(n - 1)
      /\ Counts(n, "sell") => Gone(n) = IF Gone(n - 1) + t.quantity <= Bought(n)
                                        THEN Gone(n - 1) + t.quantity ELSE Bought(n)
  BY UnresolvedSteps, GoneSteps
<1>7. CASE ~t.resolved
  <2>1. ~Counts(n, "buy") /\ ~Counts(n, "sell")
    BY <1>5, <1>7
  <2>2. /\ h[n].lots = book.lots /\ h[n].realized = book.realized
        /\ h[n].excluded = book.excluded + 1
    <3> HIDE DEF t, book
    <3>1. Process(book, t) = [lots |-> book.lots, realized |-> book.realized,
                              excluded |-> book.excluded + 1]
      BY <1>1, <1>7, ProcessIs
    <3> QED
      BY <1>1, <3>1
  <2>3. Bought(n) = Bought(n - 1) /\ RealizedUpTo(n) = RealizedUpTo(n - 1)
    BY <1>4, <2>1
  <2> HIDE DEF t, book
  <2> QED
    BY <1>1, <1>2, <1>6, <1>7, <2>1, <2>2, <2>3 DEF BookSoFar
<1>8. CASE t.resolved /\ t.type = "buy"
  <2>1. Counts(n, "buy") /\ ~Counts(n, "sell")
    BY <1>5, <1>8
  <2>2. /\ h[n].lots = Append(book.lots, Lot(t.quantity, t.price))
        /\ h[n].realized = book.realized /\ h[n].excluded = book.excluded
    <3> HIDE DEF t, book
    <3>1. Process(book, t) = [lots |-> Append(book.lots, Lot(t.quantity, t.price)),
                              realized |-> book.realized, excluded |-> book.excluded]
      BY <1>1, <1>8, ProcessIs
    <3> QED
      BY <1>1, <3>1
  <2>3. Bought(n) = Bought(n - 1) + t.quantity /\ RealizedUpTo(n) = RealizedUpTo(n - 1)
    BY <1>4, <2>1
  <2>4. \A u \in (Bought(n - 1) + 1)..(Bought(n - 1) + t.quantity) : CostOf(u) = t.price
    <3> SUFFICES ASSUME NEW u \in (Bought(n - 1) + 1)..(Bought(n - 1) + t.quantity)
                 PROVE  CostOf(u) = t.price
      OBVIOUS
    <3>1. u \in Int /\ Bought(n - 1) < u /\ u <= Bought(n)
      BY <1>3, <1>4, <2>3
    <3> QED
      BY <2>1, <3>1, CostOfBuy
  <2> HIDE DEF t, book
  <2>5. Covers(Append(book.lots, Lot(t.quantity, t.price)), Gone(n - 1),
               Bought(n - 1) + t.quantity)
    BY <1>1, <1>3, <2>4, CoversMore
  <2> QED
    BY <1>1, <1>2, <1>6, <1>8, <2>1, <2>2, <2>3, <2>5 DEF BookSoFar
<1>9. CASE t.resolved /\ t.type = "sell"
  <2> DEFINE end == FoldLeft(MatchLot, [remaining |-> t.quantity, price |-> t.price,
                                 realized |-> book.realized, lots |-> <<>>], book.lots)
             gone == IF Gone(n - 1) + t.quantity <= Bought(n - 1)
                     THEN Gone(n - 1) + t.quantity ELSE Bought(n - 1)
  <2>1. ~Counts(n, "buy") /\ Counts(n, "sell")
    BY <1>5, <1>9
  <2>2. Bought(n) = Bought(n - 1)
    BY <1>4, <2>1
  <2>3. Gone(n) = gone
    BY <1>6, <2>1, <2>2
  <2>4. RealizedUpTo(n) = RealizedUpTo(n - 1) + Gain(t.price, Gone(n - 1), Gone(n))
    BY <1>4, <2>1
  <2>5. Process(book, t) = [lots |-> end.lots, realized |-> end.realized,
                            excluded |-> book.excluded]
    <3> HIDE DEF t, book
    <3> QED
      BY <1>1, <1>9, ProcessIs
  <2>6. /\ Covers(end.lots, gone, Bought(n - 1))
        /\ end.realized = book.realized + Gain(t.price, Gone(n - 1), gone)
    <3>1. Bought(n - 1) <= Bought(n - 1) /\ book.realized \in Int
      BY <1>1, <1>4
    <3> HIDE DEF t, book
    <3> QED
      BY <1>1, <1>3, <3>1, SellMatches
  <2> HIDE DEF t, book, end, gone
  <2>7. h[n].lots = end.lots /\ h[n].realized = end.realized /\ h[n].excluded = book.excluded
    BY <1>1, <2>5
  <2> QED
    BY <1>1, <1>2, <1>6, <1>9, <2>2, <2>3, <2>4, <2>6, <2>7 DEF BookSoFar
<1>10. CASE t.resolved /\ t.type \notin {"buy", "sell"}
  <2>1. ~Counts(n, "buy") /\ ~Counts(n, "sell")
    BY <1>5, <1>10
  <2>2. Bought(n) = Bought(n - 1) /\ RealizedUpTo(n) = RealizedUpTo(n - 1)
    BY <1>4, <2>1
  <2> HIDE DEF t, book
  <2>3. h[n] = book
    BY <1>1, <1>10, ProcessIs
  <2> QED
    BY <1>1, <1>2, <1>6, <1>10, <2>1, <2>2, <2>3 DEF BookSoFar
<1> QED
  BY <1>7, <1>8, <1>9, <1>10

-----------------------------------------------------------------------------
(* Unrealized P&L *)

\* The steps of the loop over the lots left, s.
IsUnrealized(h, s, current) ==
    /\ h[0] = 0
    /\ \A i \in 1..Len(s) : h[i] = h[i - 1] + (current - s[i].unitCost) * s[i].quantity

\* The fold over the lots left is what such a loop ends with.
LEMMA UnrealizedRuns ==
    ASSUME NEW current \in Int, NEW s \in Seq(LotRecord)
    PROVE  \E h : IsUnrealized(h, s, current) /\ Unrealized(s, current) = h[Len(s)]
<1> DEFINE n == Len(s)
           step == [p \in (1..n) \X Int |-> p[2] + (current - s[p[1]].unitCost) * s[p[1]].quantity]
           Runs(g) == g = [U \in SUBSET (1..n) |->
                             IF U = {} THEN 0
                             ELSE g[U \ {Max(U)}]
                                    + (current - s[Max(U)].unitCost) * s[Max(U)].quantity]
<1>1. n \in Nat /\ DOMAIN s = 1..n /\ \A i \in 1..n : s[i] \in LotRecord
  OBVIOUS
<1>2. 0 \in Int
  OBVIOUS
<1>3. step \in [(1..n) \X Int -> Int]
  <2>1. \A i \in 1..n : s[i].unitCost \in Int /\ s[i].quantity \in Int
    <3> HIDE DEF n
    <3> QED
      BY <1>1 DEF LotRecord
  <2>2. ASSUME NEW i \in 1..n, NEW x \in Int
        PROVE  x + (current - s[i].unitCost) * s[i].quantity \in Int
    BY <2>1
  <2> QED
    BY <2>2
<1> HIDE DEF n
<1>4. PICK g : FoldOf(g, 1..n, Int, 0, step, LastOf(n))
  <2> HIDE DEF step
  <2> QED
    BY <1>1, <1>2, <1>3, SeqFoldExists
<1>5. Runs(g)
  <2>1. \A U \in SUBSET (1..n) : U # {} => Max(U) \in U
    <3>1. 1 \in Nat
      OBVIOUS
    <3> QED
      BY <1>1, <3>1, IntervalMaxMin
  <2>2. ASSUME NEW U \in SUBSET (1..n), U # {}
        PROVE  g[U] = g[U \ {Max(U)}] + (current - s[Max(U)].unitCost) * s[Max(U)].quantity
    BY <1>4, <2>1, <2>2 DEF FoldOf, OneRound, LastOf
  <2>3. g[{}] = 0 /\ g = [U \in SUBSET (1..n) |-> g[U]]
    BY <1>4 DEF FoldOf, OneRound
  <2> QED
    BY <2>2, <2>3
<1>6. Unrealized(s, current) = (CHOOSE it : Runs(it))[DOMAIN s]
  BY <1>1, Zenon DEF Unrealized, FoldLeft, MapThenFoldSet
<1>7. PICK it : Runs(it) /\ Unrealized(s, current) = it[1..n]
  <2> HIDE DEF Runs
  <2> QED
    BY <1>1, <1>5, <1>6
<1> DEFINE h == [i \in 0..n |-> it[1..i]]
<1>8. h[0] = 0
  BY <1>1, <1>7
<1>9. ASSUME NEW i \in 1..n PROVE h[i] = h[i - 1] + (current - s[i].unitCost) * s[i].quantity
  <2>1. /\ 1..i \in SUBSET (1..n) /\ 1..i # {}
        /\ Max(1..i) = i /\ (1..i) \ {i} = 1..(i - 1)
    BY <1>1, InitialSegment
  <2>2. it[1..i] = it[1..(i - 1)] + (current - s[i].unitCost) * s[i].quantity
    BY <1>7, <2>1
  <2> QED
    BY <1>1, <2>2
<1>10. h[n] = it[1..n]
  BY <1>1
<1> HIDE DEF h
<1> QED
  BY <1>7, <1>8, <1>9, <1>10 DEF IsUnrealized, n

\* The lots left gain what their units do.
LEMMA UnrealizedIsGain ==
    ASSUME PnLTypeOK, NEW n \in 0..Len(trades), NEW lots, NEW a, NEW b, Covers(lots, a, b),
           b <= Bought(n), NEW current \in Int
    PROVE  Unrealized(lots, current) = Gain(current, a, b)
<1> DEFINE L == Len(lots)
           Good(h, f) == {k \in Nat : k <= L => h[k] = Gain(current, a, f[k])}
<1>1. lots \in Seq(LotRecord) /\ a \in Nat /\ b \in Nat /\ a <= b /\ L \in Nat
  BY DEF Covers
<1>2. PICK f : Marks(f, lots, a) /\ f[L] = b
  BY DEF Covers
<1>3. f[0] = a /\ \A k \in 0..L : a <= f[k] /\ f[k] <= b /\ f[k] \in Nat
  BY <1>1, <1>2, MarksAscend DEF Marks
<1>4. PICK h : IsUnrealized(h, lots, current) /\ Unrealized(lots, current) = h[L]
  BY <1>1, UnrealizedRuns
<1>5. 0 \in Good(h, f)
  <2>1. h[0] = 0
    BY <1>4 DEF IsUnrealized
  <2>2. Costed(a, a)
    BY <1>1 DEF Costed
  <2>3. Gain(current, a, a) = 0
    BY <1>1, <2>2, GainStep
  <2> HIDE DEF L
  <2> QED
    BY <1>3, <2>1, <2>3
<1>6. ASSUME NEW k \in Nat, k \in Good(h, f) PROVE k + 1 \in Good(h, f)
  <2> SUFFICES ASSUME k + 1 <= L PROVE h[k + 1] = Gain(current, a, f[k + 1])
    OBVIOUS
  <2> DEFINE l == k + 1
             q == lots[l].quantity
             c == lots[l].unitCost
  <2>1. l \in 1..L /\ l - 1 = k /\ l \in 0..L /\ k \in 0..L /\ h[k] = Gain(current, a, f[k])
    BY <1>1, <1>6
  <2>2. h[l] = h[k] + (current - c) * q
    BY <1>4, <2>1 DEF IsUnrealized
  <2>3. q \in Nat /\ c \in Nat
    <3>1. lots[l] \in LotRecord
      BY <1>1, <2>1
    <3> QED
      BY <3>1 DEF LotRecord
  <2>4. f[l] = f[k] + q /\ \A u \in (f[k] + 1)..f[l] : CostOf(u) = c
    BY <1>2, <2>1 DEF Marks
  <2>5. f[k] \in Nat /\ f[l] \in Nat /\ a <= f[k] /\ f[l] <= b
    BY <1>3, <2>1
  <2> HIDE DEF l, q, c
  <2>6. OneCostFrom(current, a, f[k], f[l], c)
    <3>1. Bought(n) \in Int
      BY BoughtSteps
    <3>2. \A u \in (a + 1)..f[l] : u \in 1..Bought(n)
      BY <1>1, <2>5, <3>1
    <3>3. Costed(a, f[l])
      BY <3>2, CostType DEF Costed
    <3>4. CostIs(f[k], f[l], c)
      BY <2>4 DEF CostIs
    <3>5. f[k] <= f[l]
      BY <2>3, <2>4, <2>5
    <3> QED
      BY <1>1, <2>3, <2>5, <3>3, <3>4, <3>5 DEF OneCostFrom
  <2>7. Gain(current, a, f[l]) = Gain(current, a, f[k]) + (current - c) * (f[l] - f[k])
    BY <2>6, GainAtCost
  <2>8. f[l] - f[k] = q
    BY <2>3, <2>4, <2>5
  <2> QED
    BY <2>1, <2>2, <2>7, <2>8 DEF l
<1> HIDE DEF Good
<1>7. \A k \in Nat : k \in Good(h, f)
  BY <1>5, <1>6, NatInduct
<1> QED
  BY <1>1, <1>2, <1>4, <1>7 DEF Good

\* ComputeAndStore in a typed state.
LEMMA FifoMatches ==
    ASSUME PnLTypeOK
    PROVE  FifoMatchesUnits
<1> DEFINE T == Len(trades)
           base == [lots |-> <<>>, realized |-> 0, excluded |-> 0]
           Good(h) == {n \in Nat : n <= T => BookSoFar(h, n)}
<1>1. T \in Nat /\ trades \in Seq(TradeRecord)
  BY TradeTypes DEF PnLTypeOK
<1>2. PICK h : IsBook(h, trades) /\ FoldLeft(Process, base, trades) = h[T]
  BY <1>1, BookRuns
<1>3. Book = h[T]
  BY <1>2 DEF Book
<1>4. 0 \in Good(h)
  <2>1. h[0].lots = <<>> /\ h[0].realized = 0 /\ h[0].excluded = 0
    BY <1>2 DEF IsBook
  <2>2. h[0] \in BookRecord
    <3>1. <<>> \in Seq(LotRecord)
      OBVIOUS
    <3> QED
      BY <1>2, <3>1 DEF IsBook, BookRecord
  <2>3. Covers(<<>>, 0, 0)
    BY CoversNone
  <2>4. Gone(0) = 0 /\ Bought(0) = 0
    BY GoneSteps, BoughtSteps
  <2>5. RealizedUpTo(0) = 0
    BY RealizedSteps
  <2>6. Cardinality(UpTo(Unresolved, 0)) = 0
    BY UnresolvedSteps
  <2> QED
    BY <2>1, <2>2, <2>3, <2>4, <2>5, <2>6 DEF BookSoFar
<1>5. ASSUME NEW n \in Nat, n \in Good(h) PROVE n + 1 \in Good(h)
  <2> SUFFICES ASSUME n + 1 <= T PROVE BookSoFar(h, n + 1)
    OBVIOUS
  <2>1. n + 1 \in 1..T /\ (n + 1) - 1 = n /\ BookSoFar(h, n)
    BY <1>1, <1>5
  <2> QED
    BY <1>2, <2>1, BookGoesOn
<1> HIDE DEF Good
<1>6. \A n \in Nat : n \in Good(h)
  BY <1>4, <1>5, NatInduct
<1>7. BookSoFar(h, T)
  BY <1>1, <1>6 DEF Good
<1>8. Book.realized = RealizedRef
  <2>1. RealizedUpTo(T) = RealizedRef
    BY RealizedSteps
  <2> QED
    BY <1>3, <1>7, <2>1 DEF BookSoFar
<1>9. ASSUME NEW current \in UnitPrice
      PROVE  Unrealized(Book.lots, current) = UnrealizedRef(current)
  <2>1. Covers(Book.lots, Gone(T), Bought(T))
    BY <1>3, <1>7 DEF BookSoFar
  <2>2. current \in Int /\ T \in 0..T /\ Bought(T) <= Bought(T)
    <3>1. T \in 0..T
      BY <1>1
    <3>2. Bought(T) \in Int
      BY <3>1, BoughtSteps
    <3> QED
      BY <3>1, <3>2, PnLAssumption
  <2>3. Unrealized(Book.lots, current) = Gain(current, Gone(T), Bought(T))
    BY <2>1, <2>2, UnrealizedIsGain
  <2> QED
    BY <2>3 DEF UnrealizedRef
<1>10. Book.excluded = Cardinality({n \in DOMAIN trades : ~trades[n].resolved})
  <2>1. UpTo(Unresolved, T) = Unresolved
    BY UnresolvedSteps
  <2>2. Book.excluded = Cardinality(Unresolved)
    BY <1>3, <1>7, <2>1 DEF BookSoFar
  <2> QED
    BY <2>2 DEF Unresolved
<1> QED
  BY <1>8, <1>9, <1>10 DEF FifoMatchesUnits

\* FifoMatchesUnits, for any number of trades, quantities and prices: the loops of
\* ComputeAndStore over the lots realize, leave and exclude exactly what numbering
\* the units says, whatever the order of buys, sells beyond the position, transfers
\* and trades without a price.
THEOREM FifoIsTheNumberingOfUnits == PnLSpec => []FifoMatchesUnits
<1>1. PnLTypeOK => FifoMatchesUnits
  BY FifoMatches
<1> QED
  BY <1>1, PnLTyped, PTL
=============================================================================
