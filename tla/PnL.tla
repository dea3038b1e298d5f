--------------------------------- MODULE PnL ---------------------------------
(***************************************************************************)
(* PnLEngine.ComputeAndStore: first-in first-out matching of the buys and  *)
(* sells of one asset (the engine keeps a queue per asset), against a      *)
(* definition that numbers the units bought.  Amounts are whole numbers; a *)
(* trade carries its unit price, the code's reference value by quantity.   *)
(***************************************************************************)
EXTENDS Integers, Sequences, SequencesExt, FiniteSetsExt

CONSTANTS
    Quantity,   \* quantities of a trade
    UnitPrice,  \* unit prices
    MaxTrades   \* bound: trades of the asset

ASSUME PnLAssumption ==
    /\ Quantity \subseteq Nat \ {0}
    /\ UnitPrice \subseteq Nat
    /\ MaxTrades \in Nat

VARIABLE trades     \* by timestamp, as loadAllTransactions sorts them

TradeRecord == [type : {"buy", "sell", "transfer"}, quantity : Quantity,
                price : UnitPrice, resolved : BOOLEAN]

\* A lot is a run of units bought at one price.
Lot(q, p) == [quantity |-> q, unitCost |-> p]

\* Mutant: the lot matched last is kept whole.
MatchLotWhole(acc, lot) ==
    LET matched == Min({lot.quantity, acc.remaining})
        left    == IF matched = lot.quantity THEN 0 ELSE lot.quantity
    IN  [acc EXCEPT !.remaining = @ - matched,
                    !.realized = @ + (acc.price - lot.unitCost) * matched,
                    !.lots = IF left = 0 THEN @ ELSE Append(@, Lot(left, lot.unitCost))]

\* One round of the matching loop; once nothing remains the lots are kept.
MatchLot(acc, lot) ==
    LET matched == Min({lot.quantity, acc.remaining})
        left    == lot.quantity - matched
    IN  [acc EXCEPT !.remaining = @ - matched,
                    !.realized = @ + (acc.price - lot.unitCost) * matched,
                    !.lots = IF left = 0 THEN @ ELSE Append(@, Lot(left, lot.unitCost))]

\* A sell is matched from the oldest lot on; what exceeds the lots is ignored.
Sell(book, t) ==
    LET end == FoldLeft(MatchLot,
                 [remaining |-> t.quantity, price |-> t.price,
                  realized |-> book.realized, lots |-> <<>>], book.lots)
    IN  [book EXCEPT !.lots = end.lots, !.realized = end.realized]

Buy(book, t) == [book EXCEPT !.lots = Append(@, Lot(t.quantity, t.price))]

\* Unresolvable trades are excluded and counted; transfers and fees leave the
\* queue alone.
Process(book, t) ==
    IF ~t.resolved THEN [book EXCEPT !.excluded = @ + 1]
    ELSE CASE t.type = "buy"  -> Buy(book, t)
           [] t.type = "sell" -> Sell(book, t)
           [] OTHER           -> book

\* The engine's run over all transactions.
Book == FoldLeft(Process, [lots |-> <<>>, realized |-> 0, excluded |-> 0], trades)

\* Unrealized P&L of the lots left, at the current price.
Unrealized(lots, current) ==
    LET AddLot(sum, lot) == sum + (current - lot.unitCost) * lot.quantity
    IN  FoldLeft(AddLot, 0, lots)

-----------------------------------------------------------------------------
(* The definition it is checked against.  Units are numbered as bought: the  *)
(* n-th unit sold is the n-th unit bought.                                   *)

Counts(n, type) == trades[n].resolved /\ trades[n].type = type

\* Units bought in the first n trades.
Bought(n) ==
    SumFunctionOnSet([m \in DOMAIN trades |-> trades[m].quantity],
                     {m \in 1..n : Counts(m, "buy")})

\* Units in hand after the first n trades: a sell takes what there is at most.
InHand ==
    LET hand[n \in 0..Len(trades)] ==
          IF n = 0 THEN 0
          ELSE IF Counts(n, "buy") THEN hand[n - 1] + trades[n].quantity
          ELSE IF Counts(n, "sell") THEN Max({0, hand[n - 1] - trades[n].quantity})
          ELSE hand[n - 1]
    IN  hand

Gone(n) == Bought(n) - InHand[n]

\* What the u-th unit bought cost.
CostOf(u) ==
    trades[CHOOSE m \in DOMAIN trades :
             Counts(m, "buy") /\ Bought(m - 1) < u /\ u <= Bought(m)].price

\* What the units from a + 1 to b gain when sold at a price.
Gain(price, a, b) == SumFunction([u \in (a + 1)..b |-> price - CostOf(u)])

RealizedRef ==
    SumFunctionOnSet([n \in DOMAIN trades |-> Gain(trades[n].price, Gone(n - 1), Gone(n))],
                     {n \in DOMAIN trades : Counts(n, "sell")})

\* The units still there are the ones bought last.
UnrealizedRef(current) == Gain(current, Gone(Len(trades)), Bought(Len(trades)))

-----------------------------------------------------------------------------
PnLInit == trades = <<>>

\* Bound: of the trades that leave the queue alone, one of each kind.
Inputs ==
    {t \in TradeRecord :
        \/ t.resolved /\ t.type # "transfer"
        \/ t.quantity = Min(Quantity) /\ t.price = Min(UnitPrice)}

RecordTrade(t) == Len(trades) < MaxTrades /\ trades' = Append(trades, t)

\* The next asset's transactions.
NextAsset == Len(trades) = MaxTrades /\ trades' = <<>>

PnLNext == NextAsset \/ \E t \in Inputs : RecordTrade(t)

PnLSpec == PnLInit /\ [][PnLNext]_trades

\* The engine realizes and leaves exactly what the numbering of units says, at
\* any price, for every order of buys, sells beyond the position, transfers and
\* trades without a price.
FifoMatchesUnits ==
    /\ Book.realized = RealizedRef
    /\ \A current \in UnitPrice : Unrealized(Book.lots, current) = UnrealizedRef(current)
    /\ Book.excluded = Cardinality({n \in DOMAIN trades : ~trades[n].resolved})
=============================================================================
