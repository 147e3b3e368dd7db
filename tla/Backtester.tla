---------------------------- MODULE Backtester -----------------------------
(***************************************************************************)
(* A backtest: ExecuteBacktest of application/use_cases.py around the      *)
(* replay loop of domain/backtester.py.  At each two-sided snapshot the    *)
(* strategy may hold, raise, or order any of Quantities on either side:    *)
(* whole numbers, where the code takes any float, but zero (what a Kelly   *)
(* stake without an edge is) and negative ones too.                        *)
(*                                                                         *)
(* Amounts are exact integers in the units of PaperBroker.  An average     *)
(* cost is in 1/CostScale of a price; PnL and cash are in 1/FeeScale of    *)
(* that.  CostScale must be divisible by what the averages of an instance  *)
(* divide by: CashBacksReturn fails where a division rounds.               *)
(***************************************************************************)
EXTENDS PaperBroker, SequencesExt

CONSTANTS
  Quotes,         \* two-sided quotes
  Times,          \* values of captured_at
  Quantities,     \* what a strategy may order
  MaxSnapshots,   \* bound: snapshots of the market
  FeeScale, CostScale,
  Certainty,      \* the mid-price of a sure event, 1.0
  NumBuckets,     \* n_buckets of the calibration
  OneSided,       \* a snapshot without a bid or without an ask
  NoEntry, NoRun,
  NoMetric        \* None for a metric, and for the metrics of no run

ASSUME BacktestAssumption ==
  /\ Quotes \subseteq Quote
  /\ Times \subseteq Nat
  /\ Quantities \subseteq Int
  /\ MaxSnapshots \in Nat
  /\ FeeScale \in Nat \ {0} /\ CostScale \in Nat \ {0}
  /\ Certainty \in Nat \ {0} /\ NumBuckets \in Nat \ {0}
  /\ \A q \in Quotes : q.bid + q.ask <= Certainty
  /\ OneSided \notin Quotes

(* PriceSnapshot; BacktestMetrics and its calibration buckets, a fraction  *)
(* being its two terms; StrategyRun with its summary_metrics.              *)
Snapshot == [at : Times, quote : Quotes \union {OneSided}]
Entry == [at : Times, mid : Nat]
RoundTrip == [held : Int, forecast : Nat, profitable : BOOLEAN]
Fraction == [num : Int, den : Nat \ {0}]
Bucket == [place : 0..(NumBuckets - 1), forecast : Fraction, observed : Fraction,
           count : Nat \ {0}]
Metrics == [ total_return : Int, hit_rate : Fraction \union {NoMetric}, max_drawdown : Nat,
             avg_edge_captured : Fraction \union {NoMetric},
             avg_holding_time : Fraction \union {NoMetric}, turnover : Int,
             brier_score : Fraction \union {NoMetric},
             calibration_buckets : Seq(Bucket) \union {NoMetric} ]
StrategyRun == [ total_return : Int, hit_rate : Fraction \union {NoMetric},
                 max_drawdown : Nat, total_trades : Nat ]

ASSUME BacktestNullAssumption ==
  /\ NoEntry \notin Entry /\ NoRun \notin StrategyRun
  /\ NoMetric \notin Fraction /\ NoMetric \notin Metrics /\ NoMetric \notin Seq(Bucket)

VARIABLES
  snapshots,     \* what the snapshot repository returns, in its order
  pc,            \* "idle", "replay", then how execute() ended
  replay, next,  \* sorted_snaps and the loop's place in it
  qty, avg,      \* position_qty, avg_cost
  realized, trips, peak, drawdown,   \* realized_pnl, round_trips, ...
  entry,         \* entry_time and entry_mid_price
  pairs,         \* holding_times and forecast_outcome_pairs
  trades,        \* len(fills)
  metrics,       \* the BacktestMetrics returned
  recorded,      \* the StrategyRun saved
  flow           \* history: quantities and cash moved, fees paid on buys, and
                 \* the turns that last opened and last emptied the position

position == <<qty, avg, realized, trips, peak, drawdown, entry, pairs, trades, flow>>
result == <<metrics, recorded>>
vars == <<snapshots, pc, replay, next, position, result>>

PC == {"idle", "replay", "returned", "unknown", "raised"}

----------------------------------------------------------------------------
(* Mutant: the snapshots are replayed as they come. *)
Chronological_Unsorted(s) == s

(* sorted(snapshots, key=captured_at), which is stable. *)
Chronological(s) ==
  LET place(i) == Cardinality({ j \in DOMAIN s :
                    s[j].at < s[i].at \/ (s[j].at = s[i].at /\ j <= i) })
  IN [ k \in DOMAIN s |-> s[CHOOSE i \in DOMAIN s : place(i) = k] ]

Init ==
  /\ snapshots \in UNION { [1..n -> Snapshot] : n \in 0..MaxSnapshots }
  /\ pc = "idle"
  /\ replay = <<>> /\ next = 1
  /\ qty = 0 /\ avg = 0
  /\ realized = 0 /\ trips = <<>> /\ peak = 0 /\ drawdown = 0
  /\ entry = NoEntry /\ pairs = <<>>
  /\ trades = 0
  /\ metrics = NoMetric /\ recorded = NoRun
  /\ flow = [ bought |-> 0, sold |-> 0, cash |-> 0, fees |-> 0,
              opened |-> 0, closed |-> 0 ]

(* market_repo.get_by_id(mid) is None. *)
UnknownMarket ==
  /\ pc = "idle"
  /\ pc' = "unknown"
  /\ UNCHANGED <<snapshots, replay, next, position, result>>

Load ==
  /\ pc = "idle"
  /\ pc' = "replay"
  /\ replay' = Chronological(snapshots)
  /\ UNCHANGED <<snapshots, next, position, result>>

(* The snapshot of this turn of the loop. *)
Current == replay[next]

AtQuote == pc = "replay" /\ next <= Len(replay) /\ Current.quote # OneSided

Turn == next' = next + 1 /\ UNCHANGED <<snapshots, pc, replay, result>>

SkipOneSided ==
  /\ pc = "replay" /\ next <= Len(replay)
  /\ Current.quote = OneSided
  /\ Turn /\ UNCHANGED position

StrategyHolds == AtQuote /\ Turn /\ UNCHANGED position

(* Nothing catches what a strategy raises. *)
StrategyRaises ==
  /\ AtQuote
  /\ pc' = "raised"
  /\ UNCHANGED <<snapshots, replay, next, position, result>>

(* The exposure the broker is given is the quantity held, on either side.  *)
OrderRejected(side, quantity) ==
  /\ AtQuote
  /\ ~RiskAccepts(quantity, qty)
  /\ Turn /\ UNCHANGED position

(* Mutant: the new average ignores what is held. *)
Average_LastFill(held, quantity, price) == CostScale * price

(* avg_cost after a buy: weighted by quantity.                             *)
Average(held, quantity, price) ==
  IF held + quantity > 0
  THEN (avg * held + CostScale * price * quantity) \div (held + quantity)
  ELSE 0

Notional(fill) == FeeScale * CostScale * fill.price * fill.quantity

(* What is remembered of the snapshot a position is entered at.            *)
EntryAt(snapshot) ==
  [at |-> snapshot.at, mid |-> snapshot.quote.bid + snapshot.quote.ask]

(* Mutant: an entry is remembered only when none is.                       *)
EntryAfterBuy_Kept == IF entry = NoEntry THEN EntryAt(Current) ELSE entry

(* A buy while nothing is held is the entry, whatever it buys.             *)
EntryAfterBuy == IF qty = 0 THEN EntryAt(Current) ELSE entry

BuyFills(quantity) ==
  LET fill == FillOf("BUY", quantity, Current.quote)
  IN /\ AtQuote
     /\ RiskAccepts(quantity, qty)
     /\ entry' = EntryAfterBuy
     /\ avg' = Average(qty, quantity, fill.price)
     /\ qty' = qty + quantity
     /\ trades' = trades + 1
     /\ flow' = [flow EXCEPT !.bought = @ + quantity, !.fees = @ + CostScale * fill.fee,
                             !.cash = @ - Notional(fill) - CostScale * fill.fee,
                             !.opened = IF qty = 0 /\ quantity > 0 THEN next ELSE @]
     /\ Turn /\ UNCHANGED <<realized, trips, peak, drawdown, pairs>>

(* Mutant: the drawdown is measured before the PnL is added. *)
Equity_PeakAfter(pnl) ==
  /\ realized' = realized + pnl
  /\ trips' = Append(trips, pnl)
  /\ drawdown' = IF peak - realized > drawdown THEN peak - realized ELSE drawdown
  /\ peak' = IF realized + pnl > peak THEN realized + pnl ELSE peak

(* The realized equity curve: peak_pnl and max_drawdown. *)
Equity(pnl) ==
  LET newPeak == IF realized + pnl > peak THEN realized + pnl ELSE peak
      decline == newPeak - (realized + pnl)
  IN /\ realized' = realized + pnl
     /\ trips' = Append(trips, pnl)
     /\ peak' = newPeak
     /\ drawdown' = IF decline > drawdown THEN decline ELSE drawdown

(* Mutant: an oversized sale leaves a negative position. *)
Close_Unclamped(quantity) ==
  IF quantity = qty
  THEN qty' = 0 /\ avg' = 0 /\ entry' = NoEntry
  ELSE qty' = qty - quantity /\ UNCHANGED <<avg, entry>>

(* What a sale leaves of the position; selling more than is held leaves    *)
(* nothing.                                                                *)
Close(quantity) ==
  IF quantity >= qty
  THEN qty' = 0 /\ avg' = 0 /\ entry' = NoEntry
  ELSE qty' = qty - quantity /\ UNCHANGED <<avg, entry>>

(* The PnL of a sale is booked on the whole quantity sold. *)
SellFills(quantity) ==
  LET fill == FillOf("SELL", quantity, Current.quote)
      pnl == FeeScale * (CostScale * fill.price - avg) * quantity - CostScale * fill.fee
  IN /\ AtQuote
     /\ RiskAccepts(quantity, qty)
     /\ Equity(pnl)
     /\ pairs' = IF entry = NoEntry THEN pairs
                 ELSE Append(pairs, [held |-> Current.at - entry.at,
                                     forecast |-> entry.mid, profitable |-> pnl > 0])
     /\ Close(quantity)
     /\ trades' = trades + 1
     /\ flow' = [flow EXCEPT !.sold = @ + quantity,
                             !.cash = @ + Notional(fill) - CostScale * fill.fee,
                             !.closed = IF quantity >= qty THEN next ELSE @]
     /\ Turn

----------------------------------------------------------------------------
Total(s) == SumFunction(s)

(* A mean is None when there is nothing to take it of.                     *)
Mean(s, unit) ==
  IF s = <<>> THEN NoMetric ELSE [num |-> Total(s), den |-> unit * Len(s)]

(* Mutant: the losing trips are counted. *)
Hits_Losses(pnls) == { i \in DOMAIN pnls : pnls[i] < 0 }

(* The round trips that made money. *)
Hits(pnls) == { i \in DOMAIN pnls : pnls[i] > 0 }

HitRate ==
  IF trips = <<>> THEN NoMetric
  ELSE [num |-> Cardinality(Hits(trips)), den |-> Len(trips)]

(* Outcomes are in the unit of forecasts. *)
Outcome(pair) == IF pair.profitable THEN Certainty ELSE 0

SquaredError(pair) == (pair.forecast - Outcome(pair)) * (pair.forecast - Outcome(pair))

Each(f(_)) == [ i \in DOMAIN pairs |-> f(pairs[i]) ]

(* Mutant: the last bucket leaves out certainty. *)
InBucket_HalfOpen(pair, i) ==
  i * Certainty <= NumBuckets * pair.forecast /\ NumBuckets * pair.forecast < (i + 1) * Certainty

(* Bucket i spans [i, i + 1) / NumBuckets; the last one is closed.         *)
InBucket(pair, i) ==
  LET place == NumBuckets * pair.forecast IN
  /\ i * Certainty <= place
  /\ place < (i + 1) * Certainty \/ (i = NumBuckets - 1 /\ place = (i + 1) * Certainty)

(* in_bucket: the places of the pairs in bucket i. *)
PairsIn(i) == { k \in DOMAIN pairs : InBucket(pairs[k], i) }

ForecastIn(i) == Total([ k \in PairsIn(i) |-> pairs[k].forecast ])

ObservedIn(i) == Total([ k \in PairsIn(i) |-> Outcome(pairs[k]) ])

(* Mutant: the observed frequency is a sum, not a mean. *)
BucketOf_Sum(i) ==
  LET count == Cardinality(PairsIn(i)) IN
  [ place |-> i, count |-> count,
    forecast |-> [num |-> ForecastIn(i), den |-> count],
    observed |-> [num |-> ObservedIn(i), den |-> 1] ]

BucketOf(i) ==
  LET count == Cardinality(PairsIn(i)) IN
  [ place |-> i, count |-> count,
    forecast |-> [num |-> ForecastIn(i), den |-> count],
    observed |-> [num |-> ObservedIn(i), den |-> count] ]

(* The loop of _compute_calibration_buckets, which leaves out the empty    *)
(* buckets: what it has listed after n of its turns.                       *)
CalibrationBuckets ==
  LET listed[n \in 0..NumBuckets] ==
        IF n = 0 THEN <<>>
        ELSE IF PairsIn(n - 1) = {} THEN listed[n - 1]
        ELSE Append(listed[n - 1], BucketOf(n - 1))
  IN listed[NumBuckets]

(* The metrics computed when the loop is over.  The Sharpe ratio, a square *)
(* root, is left out.                                                      *)
ComputedMetrics ==
  [ total_return |-> realized, hit_rate |-> HitRate, max_drawdown |-> drawdown,
    avg_edge_captured |-> Mean(trips, 1),
    avg_holding_time |-> Mean(Each(LAMBDA pair : pair.held), 1),
    turnover |-> flow.bought + flow.sold,
    brier_score |-> Mean(Each(SquaredError), Certainty * Certainty),
    calibration_buckets |-> IF pairs = <<>> THEN NoMetric ELSE CalibrationBuckets ]

(* The loop is over: the StrategyRun is built and saved. *)
SaveRun ==
  /\ pc = "replay" /\ next > Len(replay)
  /\ pc' = "returned"
  /\ metrics' = ComputedMetrics
  /\ recorded' = [ total_return |-> metrics'.total_return, hit_rate |-> metrics'.hit_rate,
                   max_drawdown |-> metrics'.max_drawdown, total_trades |-> trades ]
  /\ UNCHANGED <<snapshots, replay, next, position>>

Next ==
  \/ UnknownMarket \/ Load
  \/ SkipOneSided \/ StrategyHolds \/ StrategyRaises
  \/ \E side \in OrderSide, quantity \in Quantities : OrderRejected(side, quantity)
  \/ \E quantity \in Quantities : BuyFills(quantity) \/ SellFills(quantity)
  \/ SaveRun

Spec == Init /\ [][Next]_vars

----------------------------------------------------------------------------
(* What is held: never short, unless the strategy orders less than nothing.*)
Holding == IF Quantities \subseteq Nat THEN Nat ELSE Int

(* Every variable has its type, the position included: overselling leaves  *)
(* nothing, and not a short position.                                      *)
TypeOK ==
  /\ snapshots \in Seq(Snapshot) /\ replay \in Seq(Snapshot)
  /\ pc \in PC
  /\ next \in 1..(MaxSnapshots + 1)
  /\ qty \in Holding /\ avg \in Int
  /\ realized \in Int /\ peak \in Nat /\ drawdown \in Nat
  /\ trips \in Seq(Int) /\ pairs \in Seq(RoundTrip)
  /\ entry \in Entry \union {NoEntry}
  /\ trades \in Nat
  /\ metrics \in Metrics \union {NoMetric}
  /\ recorded \in StrategyRun \union {NoRun}
  /\ flow \in [ bought : Int, sold : Int, cash : Int, fees : Int,
                opened : Nat, closed : Nat ]

Count(s, x) == Cardinality({ i \in DOMAIN s : s[i] = x })

(* No lookahead: in whatever order the repository returns the snapshots,   *)
(* what a strategy has been shown is never later than what it has not, and *)
(* each snapshot comes up once.                                            *)
NoLookahead ==
  pc \in {"replay", "returned"} =>
    /\ \A i, j \in DOMAIN replay : i < next /\ next <= j => replay[i].at <= replay[j].at
    /\ \A x \in ToSet(snapshots) : Count(replay, x) = Count(snapshots, x)
    /\ Len(replay) = Len(snapshots)

(* The entry of what is held is that of the buy that opened the position,  *)
(* after it was last emptied: never one of a position closed before, nor of*)
(* a buy of nothing before it.  While nothing is held an entry may still be*)
(* remembered (a buy of 0 leaves one), but of a snapshot since the last    *)
(* close.  So no holding time, forecast or outcome is booked from an entry *)
(* that was given up, and none is negative.  For quantities that are not.  *)
EntryIsOpening ==
  /\ qty > 0 => /\ flow.closed < flow.opened /\ flow.opened < next
                /\ entry = EntryAt(replay[flow.opened])
  /\ entry # NoEntry =>
       \E i \in (flow.closed + 1)..(next - 1) :
         replay[i].quote # OneSided /\ entry = EntryAt(replay[i])
  /\ \A i \in DOMAIN pairs : pairs[i].held >= 0

RealizedAfter(k) == Total(SubSeq(trips, 1, k))

(* max_drawdown is the worst decline of the realized PnL between any two   *)
(* moments of the run, and the realized PnL the sum of the trips' PnL.     *)
DrawdownIsWorstDecline ==
  LET curve == [ k \in 0..Len(trips) |-> RealizedAfter(k) ]
      declines == { curve[i] - curve[j] : i, j \in 0..Len(trips) }
  IN /\ realized = curve[Len(trips)]
     /\ \A i, j \in 0..Len(trips) : i <= j => curve[i] - curve[j] <= drawdown
     /\ \E i, j \in 0..Len(trips) : i <= j /\ drawdown = curve[i] - curve[j]

(* As long as no more was sold than held, average cost loses no money,     *)
(* however buys and partial sales alternate: the realized PnL is the cash  *)
(* that came in less the cash that went out, plus what is held at cost,    *)
(* plus the fees of the buys.  These fees were paid and are in no PnL: the *)
(* code subtracts a fee "at the point of sell" only                        *)
(* (docs/math/pnl_and_mark_to_market.md:57).                               *)
CashBacksReturn ==
  qty = flow.bought - flow.sold =>
    realized = flow.cash + FeeScale * avg * qty + flow.fees

(* Every forecast of the run is in one calibration bucket and no other,    *)
(* certainty included, and the average forecast of a bucket is within it;  *)
(* there are no buckets exactly when there is no forecast.                 *)
CalibrationPartitions ==
  metrics # NoMetric =>
    LET buckets == metrics.calibration_buckets IN
    /\ buckets = NoMetric <=> pairs = <<>>
    /\ buckets # NoMetric =>
         /\ Total([ k \in DOMAIN buckets |-> buckets[k].count ]) = Len(pairs)
         /\ \A k \in DOMAIN buckets :
              LET b == buckets[k] IN
              /\ b.place * Certainty * b.forecast.den <= NumBuckets * b.forecast.num
              /\ NumBuckets * b.forecast.num <= (b.place + 1) * Certainty * b.forecast.den
              /\ k > 1 => buckets[k - 1].place < b.place

(* The calibration error is the part of the Brier score that the buckets   *)
(* explain: the squared gaps between average forecast and observed         *)
(* frequency, weighted by count, are never more than the score.  Two       *)
(* summaries of the same pairs that contradict each other would show here. *)
CalibrationWithinBrier ==
  metrics # NoMetric /\ metrics.brier_score # NoMetric =>
    LET buckets == metrics.calibration_buckets
        gap(b) == b.forecast.num * b.observed.den - b.observed.num * b.forecast.den
        unit(b) == b.forecast.den * b.observed.den
        all == FoldSeq(LAMBDA b, product : unit(b) * product, 1, buckets)
        scale == all * all     \* makes every term whole
        error(b) == b.count * gap(b) * gap(b) * (scale \div (unit(b) * unit(b)))
    IN Total([ k \in DOMAIN buckets |-> error(buckets[k]) ])
         <= scale * metrics.brier_score.num

(* The recorded summary is consistent: a run whose every trip made money   *)
(* has no drawdown, one whose trips all failed to has lost as much as its  *)
(* drawdown says, and one with a drawdown has a trip that lost.            *)
HitRateExplainsReturn ==
  recorded # NoRun /\ recorded.hit_rate # NoMetric =>
    /\ recorded.hit_rate.num = recorded.hit_rate.den =>
         recorded.max_drawdown = 0 /\ recorded.total_return > 0
    /\ recorded.hit_rate.num = 0 => recorded.max_drawdown = -recorded.total_return

============================================================================
