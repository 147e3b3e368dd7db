# PredDesk in TLA+

PredDesk (`src/src/preddesk/`) is a research workbench for prediction markets:
it ingests market data, estimates probabilities, detects signals, simulates
orders against a paper broker, and backtests strategies. This directory holds
TLA+ models of the parts with state worth reasoning about, TLC configurations
that check them on small instances, and TLAPS proofs for all instances.

Run everything here: `tlc -config X.cfg MCX.tla`, `tlapm X.tla`.
`PROJECT.json` lists the runs, the source lines each definition translates,
the hazards of the code, and a mutant of the code for each property.

## 1. Inventory

Paths are below `src/src/preddesk/`.

| Component | State | Operations | Hard parts |
|---|---|---|---|
| Paper broker (`domain/paper_broker.py`) | none (limits and rates) | `PaperBroker.execute`: risk check, price, slippage, fee | signs of every charge; what the risk policy measures |
| Paper trading (`SimulateOrder`, `POST /paper-orders`) | order dict, position dict | get_latest, list_by_portfolio, broker, save order, read and save position | threads without locks or transactions; saves that fail half-way |
| Market ingestion (`IngestMarkets`) | events, markets, snapshots, raw payloads | fetch, then per record: find, create event and market, save snapshot, save payload | one record failing between two saves; retries; counters |
| Backtesting (`ExecuteBacktest`, `domain/backtester.py`) | position, realized PnL, drawdown, entry, run record | sort, replay, metrics and calibration, record | order of updates; partial and oversized sales; risk limits on sales; bucket boundaries |
| Signals (`GenerateEstimate`, `DetectSignal`, `domain/signal_engine.py`) | estimates, signals | estimate; read the latest snapshot and estimate, evaluate, save; list the recent | two reads and a clock reading that other threads move between; stored out of the order of times |
| Probability models (`domain/probability_models.py`) | probability and history of a `BayesianUpdater` | implied probability, base rate, Bayes update, analyst's opinion | evidence impossible under the current probability; certainty |
| Decision services and sizing (`domain/services.py`, `PositionSizer`) | none | expected value, break-even, edge, fractional Kelly, Brier, sizes | formulas that must agree at their boundaries |
| Research (`research_use_cases.py`) | notes, watchlists, items | append, list | none: no operation depends on what is stored |
| Polymarket adapter | none | HTTP fetch and normalization | one bad payload loses the batch |
| REST API, CLI | none | forward requests | endpoints are plain `def`: one thread each |
| Entities, value objects, ports | none | validation | -- |

**Interaction.** The API calls use cases; use cases call repositories (ports)
and the broker. Ingestion writes the snapshots that paper trading, signals and
backtests read through `get_latest` and `list_by_market`. All sharing is through
repositories; `UnitOfWork` is declared in `domain/ports.py` and used by nothing,
so no operation is atomic beyond one repository call.

**What makes each component correct.** Broker: charges are adverse, limits
hold. Paper trading: positions are the sum of the filled orders, rejected and
failed requests leave no trace, limits hold. Ingestion: no duplicates, no
dangling references, a summary that accounts for every record, a latest snapshot
that never goes back in time. Backtesting: no lookahead, the entry of what is
held is where it was opened, PnL is the money that moved, drawdown is the worst
decline. Signals: each follows its data in time, and is no staler than the
request for it; the list of recent signals leaves out nothing it should show.
Section 5 lists where the code does not keep such a promise. Models and services:
updating does not depend on the order of the evidence, what is certain stays
certain, every formula calls the same bets good, and no stake is past the
growth-optimal one.

## 2. Modules

| Module | Models | Composition |
|---|---|---|
| `PaperBroker` | broker as operators on integers | extended by the three below |
| `BrokerAccount` | a client of the broker, with its own cash and holding, against one quote | extends `PaperBroker` |
| `PaperTrading` | threads running `SimulateOrder.execute` over shared repositories | extends `PaperBroker`; instantiates `PaperLedger` |
| `PaperLedger` | abstract: each order decided and booked in one step, as the code books it | refined by `PaperTrading` with one worker |
| `Ingestion` | `IngestMarkets.execute` and its repositories, with record faults and repository failures | -- |
| `Backtester` | `ExecuteBacktest`, the replay loop for any strategy that orders whole quantities, and the metrics | extends `PaperBroker` |
| `Fractions` | exact fractions, for the two below | -- |
| `ProbabilityModels` | what each model returns, and the Bayes update | extends `Fractions` |
| `Services` | the decision formulas and `PositionSizer` | extends `Fractions` |
| `Bettor` | a client that takes a prior, learns, bets and settles | extends `ProbabilityModels` and `Services` |
| `SignalEngine` | the evaluators as operators on integers, and the sort of a list | extended by `SignalPipeline` |
| `SignalPipeline` | estimates and signals on server threads, with the ingester beside them | extends `SignalEngine` |
| `MC*` | instances for TLC | extend the module they name |
| `*Proofs` | theorems and proofs | extend the module they name |
| `PaperTradingSerialProofs` | theorems about one worker: the portfolio limit and the refinement | extends `PaperTradingProofs` |
| `DataTheorems` | lemmas: least and greatest numbers, induction, recursion, folds, sums of functions and lists | extended by the proof modules |

### Correspondence with the code

* **PaperTrading.** `pc[w]` is the next repository call of the thread,
  `frame[w]` the locals of `execute`. `ReadPosition` and `SavePosition` are
  separate steps because nothing joins lines 456 and 486 of `use_cases.py`. The
  position repository is a dict (`positions`) and its insertion order
  (`entries`), because `list_by_portfolio` iterates over the live dict:
  `BeginScan`, one `ScanEntry` per key, and `ScanInterrupted` where CPython
  raises `RuntimeError` for a dict that grew. `UpdatedPosition` multiplies the
  average cost out, adds the fill and divides again as the code does, and keeps
  the new average in whole 1/`CostScale` of a price: the code's float has a
  finite precision too, and what the division loses goes into the next one. It
  adds the quantity whatever the side of the order, and so does `PaperLedger`:
  what the refinement shows is that a request takes effect as if at one moment,
  not that a SELL is booked rightly (it is not: run `TradingSell`). `counted`
  and `staleKeys` are history: which orders a position was computed from, and
  which keys were saved over a value other than the one read. `StoreFails` is a
  repository call that raises (the README of the repository names PostgreSQL and
  SQLAlchemy as the persistence; the in-memory repositories do not raise), and
  then has not taken effect, as a transaction of its own would not. A request
  that is no order (an unknown side) raises before anything is read and is left
  out. `PaperFill` objects are returned and never stored, so they are not state.
* **Ingestion.** A record is a market, an event, a quote and a *fault*: which
  entity, if any, will refuse it. `Raise` is the `except` of the loop, `Finish`
  the normal end of a record. Ids are places in the repositories, which only
  grow. `named` of a market is history, the event its record named; `run`
  remembers how much was stored when the run began.
* **Backtester.** The strategy is nondeterministic: hold, raise, or order any of
  `Quantities` on either side. These are whole numbers where the code takes any
  float. Zero is one of them, as a Kelly stake without an edge is (a BUY of 0
  passes the risk policy and remembers an entry with nothing held); negative
  ones, which the code does not refuse either, are in the theorems and not in
  the run. `Close` and `Equity` are the two halves of the SELL branch. `flow` is
  history: what was bought, sold, paid and received, and the turns at which the
  position was last opened and last emptied. `ComputedMetrics` is what the code
  computes after the loop, a mean being the two terms of its quotient;
  `BucketOf` is one turn of `_compute_calibration_buckets`.
* **Bettor.** `updater` is the `BayesianUpdater`, with the product of the
  likelihoods given so far (`joint`) as history. No use case calls the models
  and services together, so the client is any program that calls them: it opens
  an updater at an implied probability, a base rate or an opinion, updates it,
  bets what `fractional_kelly` and `PositionSizer` say, and sees the market
  resolve, in any order the functions allow. What their constructors refuse is a
  guard (`ImpliedAccepts`, `BaseRateAccepts`, `AnalystAccepts`).
* **SignalPipeline.** `pc[w]` and `frame[w]` are again the place and the locals
  of a request. The ingester is reduced to what a reader of its repositories can
  tell: the time is read, the market stored, the snapshot stored (`Ingestion`
  has the rest). `get_latest` is one step, unlike the dict iteration of
  `PaperTrading`: a list iterated while others append to it yields the appended
  elements too, so the answer is that of the moment the iteration ends. The
  clock is read where the code reads it, before the save. `ListRecent` is a
  read, stated as an operator on what is stored. `snapshot`, `actionable` and
  `since` of a signal are history.
* **PaperBroker.** Prices are in half ticks times `Scale`, fees in 1/`FeeScale`
  of that, average costs in 1/`CostScale` of a price. `CostScale` is chosen so
  that no average of `Backtest` is rounded, and so that those of the `Trading`
  runs are.

## 3. Runs

| Run | Instance | Shows |
|---|---|---|
| `BrokerAccount` | quotes on a 0..2 grid, orders of 0..3, mid-price execution | no trade gains |
| `TradingConcurrent` | 2 threads, 1 portfolio, 2 markets, 3 requests, averages in half units, failures | positions are sums of filled orders, up to bounded rounding; reported fills counted |
| `TradingSerial` | 1 thread, 2 portfolios, 2 markets, 3 requests | refinement of `PaperLedger`; exposure within the limit |
| `IngestFaults` | 2 runs, batches of up to 2, 2 markets, 6 faults, failures, a clock that may advance, stand still or step back | uniqueness, references, summary, payload order; the latest snapshot never goes back |
| `Backtest` | up to 4 snapshots in any order, 2 quotes or one-sided, orders of 0, 1 or 2, 10 buckets | no lookahead, entry, drawdown, cash; calibration and Brier score, hit rate and return agree |
| `TradingLostUpdate` | violation | two overlapping fills, one lost |
| `TradingSell` | violation | BUY 1 then SELL 1 leaves 2 |
| `TradingShort` | violation | an order of -1 opens a position of -1 |
| `TradingOverExposure` | violation, 2 threads | two overlapping orders exceed the portfolio limit together |
| `IngestSharedEvent` | violation | two markets of one event get an event each |
| `Signals` | 2 threads, 2 markets, 3 requests, 2 snapshots, 2 instants, 3 prices, failures | signals follow their data, and are never staler than their request; list of recent ones |
| `Bettor` | prices in thirds, half Kelly capped at a third, 2 pieces of evidence, 2 markets | order of evidence, certainty, agreement of the services, stakes, ruin, base rate |

**Bounds.** `MaxRequests = 3` lets two requests overlap on one key while a third
uses another, or follows both; the limit of 3 units with orders of 1 and 2 lets
the broker accept and reject. Two markets are what it takes for a key to be
inserted during another thread's iteration. Two portfolios appear in
`TradingSerial`, where the filter of the exposure matters. Two ingestion runs
and batches of two let a market fail half-way, come again in the same batch, and
again in the next run; ticks of -1, 0 and 1 let a later record bear an equal or
an earlier time. Four snapshots allow buy, buy, partial sale, sale; limits of 2
and 4 are reached. In `Signals`, three requests are two estimates and a signal,
or two signals after an estimate; one of the two estimates a model may return is
not a probability. In `Bettor`, likelihoods of 0, 1/2 and 1 make evidence that
excludes either hypothesis, both or none; two pieces are what it takes for their
order to matter; an overround of 0, an opinion above 1 and a bet lost after a
bet won all occur, and prices in thirds put beliefs below, at and above
break-even. `Credit`, `MaxEvidence`, `MaxMarkets`, `MaxRuns`, `MaxBatch` and
`MaxSnapshots` are the other bounds; each is a guard of the action that grows
the state. Symmetry sets are used for safety runs only.

**Deadlock** is checked wherever the system may always go on (a quote can always
arrive, the account can always trade). Ingestion, backtests and the bounded
clock of the signals end, as do the markets of `Bettor`, and their runs say
`CHECK_DEADLOCK FALSE`.

**Fairness.** None is assumed and no liveness is stated. A request, an ingestion or a
backtest is straight-line code over finite loops, without a wait, a lock or a retry: a
thread that the system goes on scheduling ends it, whatever the others do, so there
is nothing in this code that could starve or block.

**Assumptions that limit a property.** `PositionIsSumOfFills` is for positive
quantities (the code zeroes the cost otherwise), and for a precision that is absolute,
where that of a float is relative. `FillsCounted` exempts the keys that overlapping
requests overwrote, which is what `TradingLostUpdate` shows. `ExposureWithinLimit` holds
for one worker; two workers check against exposures read earlier and exceed it
together (`TradingOverExposure`). `EntryIsOpening` is for quantities that are not
negative; it allows an entry while nothing is held, as a BUY of 0 leaves one, and a
sale then books a round trip from it. `CashBacksReturn` is for runs that never sell
more than is held. `SignalsFollowTheirData` rests on
a clock that does not step back, which the clock of `SignalPipeline` does not;
`SignalsNeverStale` compares times only: it says nothing of two snapshots or two
estimates of one instant, nor that the two a signal compares were ever the latest
together. `BatchUpdate` is for evidence that is possible as a whole
under the prior: `update()` skips what is not, at the moment it comes.
`BaseRateIsBestForecast` is about the unsmoothed rate.

## 4. Proofs

| Module | Theorem | Statement |
|---|---|---|
| `BrokerAccountProofs` | `NoFreeMoney` | equity never rises |
| `PaperTradingProofs` | `TypeCorrect`, `RejectionsLeaveNoTrace`, `ReportedFillsCounted` | types; positions from filled orders of their key; reported fills counted |
| | `QuantitiesSumFills`, `PositionsSumFills` | quantity of a position is the sum of its orders', its cost too, up to one rounding per update |
| | `SerialLosesNothing`, `SerialNeverErrs` | one worker: no stale save; no interrupted iteration |
| `PaperTradingSerialProofs` | `SerialWithinLimit`, `SerialRefinesLedger` | one worker: exposure within the limit; implements `PaperLedger` |
| `IngestionProofs` | `TypeCorrect`, `NoDuplicates`, `ReferencesHold`, `ObservationsBelong`, `SummaryAccounts` | types; uniqueness; references; summary |
| | `PayloadsAreBacked`, `LatestOnlyAdvances` | no more payloads than snapshots; the latest snapshot only advances |
| `BacktesterProofs` | `TypeCorrect`, `NoFutureShown`, `EntriesAreOpenings` | types; chronological replay of the whole history; the entry is where the position was opened |
| | `DrawdownIsExact`, `CashBacksReturns` | drawdown is the worst decline; the return is the cash that moved |
| | `RunsAreSummarised`, `HitRatesExplainReturns` | the run recorded is that of the replay; its figures agree |
| | `CalibrationsPartition`, `CalibrationsWithinBrier` | each forecast in one bucket; buckets explain no more than the score |
| `SignalPipelineProofs` | `TypeCorrect`, `NoLookaheadInSignals`, `SignalsAreFresh` | types; signals follow their data; none is staler than its request |
| | `RecentOnesAreShown` | the list of recent signals leaves out nothing |
| `BettorProofs` | `TypeCorrect` | types, of reduced fractions |
| | `OrderDoesNotMatter`, `CertaintyKeptForever`, `NoUnearnedCertainty` | sequential updating; certainty kept, and only earned |
| | `ServicesAgree`, `StakesAreBounded`, `NeverStakesAll` | services agree; stakes bounded; never the whole bankroll |
| | `ClientSurvives`, `BaseRateIsOptimal` | no ruin; no constant forecast scores better than the base rate |

All are proved for every value of the constants allowed by the named
assumptions of the modules (`BrokerAssumption`, `AccountAssumption`,
`TradingAssumption`, `IngestionAssumption`, `BacktestAssumption`,
`BacktestNullAssumption`, `EngineAssumption`, `PipelineAssumption`,
`ServicesAssumption`, `BettorAssumption`), which TLC evaluates in the runs.
Further hypotheses stand in the theorems that need them:

* the serial theorems: `Workers = {w}`; the limit and the refinement also that
  `Markets` is finite, the refinement and `SerialNeverErrs` that repositories do
  not fail;
* `PositionsSumFills`: positive quantities, as the code drops the cost of a position
  that is not positive (the quantity is the sum without that); any `CostScale`;
* `EntriesAreOpenings`: quantities of 0 or more. The other theorems of
  `BacktesterProofs` are for all whole quantities, what is held then being as `Holding` of
  `Backtester` says;
* `CashBacksReturns`: `ExactAverages`, that no average cost is rounded or dropped, which
  is how `CostScale` is chosen for an instance;
* `NeverStakesAll`: a Kelly fraction below 1; `ClientSurvives`: that, or a cap below 1.

The arguments:

* **BrokerAccount.** The invariant is the type invariant, by which nothing is
  held short. `FillAdverse` puts every fill price on the wrong side of the
  mid-price, and `TradeLoses` turns that into the change of the equity.
* **PaperTrading.** `PositionsBackedByFills` and `FillsCounted` are not
  inductive: what a thread *holds* between reading and saving must be backed by
  filled orders too (`HeldBackedByFills`), the order in hand must be saved
  exactly from `SaveFilled` on (`OrderSavedInTurn`), and two threads must not
  run the same request (`RunsOwnRequest`). `IInv` joins them, one step of the
  proof per action. `FillsCounted` survives `SavePosition` because either the
  position is the one that was read, and gains exactly the order that is being
  reported, or its key enters `staleKeys`. `SumIInv` follows quantities and
  costs the same way: what is stored, and what a thread holds, adds up to its
  orders (`AddsUp`), and the fill in hand is that of the order saved. For the
  costs it carries the error of the average (`ErrorIn`): a division leaves a
  remainder smaller than its divisor, the new quantity, and the error already
  there was at most the old quantity for each earlier update, so it grows by at
  most the new quantity (`AveragingError`). With one worker `SerialIInv` adds
  that what was read is still stored, so `staleKeys` stays empty, and
  `LedgerIInv` that the scan has summed exactly the entries it has passed
  (`ScanAddsUp`), each key listed once; so the decision is the one the ledger
  takes at that moment (`DecisionHolds`). The steps up to the decision are then
  stutters of the ledger, the last step of each branch its `Reject` or
  `NotFound`, and the save its `Fill`.
* **Ingestion.** `Control` says what each place in the code knows (the market
  being created is not stored yet, the event just saved belongs to no market),
  `Tally` how far the counters lag behind the stores: by one snapshot at
  `"payload"`, by one market between `CreateMarket` and the end of its record.
  `SummaryBrackets` is `Tally` at the end of a run. `Backed` counts snapshots
  and payloads per market, with the payload owed at `"payload"`.
  `LatestOnlyAdvances` needs no order of the stored times: `LatestFound` says
  that `GetLatest` is the first of those with the greatest time, and appending
  one snapshot (`SaveSnapshot`, the only step that matters) leaves that first or
  puts one of a strictly greater time in its place.
* **Backtester.** The sort is a permutation: the place of a snapshot is the
  number of those up to it, places differ, and an injection of `1..n` into
  itself takes every place (`PlacesTaken`); so the sorted history is in the
  order of time (`SortOrders`) and holds each snapshot as often (`SortKeeps`).
  `RInv` adds that what is held was entered no later than any snapshot still to
  come, which is why a holding time is never negative. `OpeningInv` adds, for
  quantities of 0 or more, that what is held was bought at the turn
  `flow.opened` and after that no sale has emptied it, and that an entry kept
  with nothing held is of a snapshot since the last close. `AccountInv` holds
  the peak and the drawdown against the curve of the partial sums of the trips
  (`EquityInv`), and counts of winning trips against its shape (`HitInv`).
  `CashInv` adds that no more is held than was bought and not sold. `Summarised`
  ties the metrics to the replay. The loop over the buckets is a recursion that
  is shown to have a solution (`ListingExists`), and each of its turns lists the
  pairs of one bucket more (`LoopTurns`, `BeforeGrows`). What a bucket adds to
  the calibration error is bounded by its squared errors (`BucketErrs`, from
  `SquareOfSum`: the square of a sum is at most as many times the sum of the
  squares), and these add up to the score over disjoint buckets.
* **SignalPipeline.** `Hand(w)` says what a thread knows between its reads and
  its save: what it read is stored, of its market, and no older than anything
  stored when its request began; `Past` that no stored time is ahead of the
  clock. Stores only grow (`StoresGrow`), so what one thread knows survives the
  steps of the others (`HandKept`), and `LatestIsNewest` gives what `get_latest`
  returns. The ranks of a sort are a permutation, as in `Backtester`, from which
  the list of recent signals follows.
* **Bettor.** The updater keeps the *odds form*: current odds times the product
  of the likelihoods under the negation equal prior odds times the product under
  the hypothesis, multiplied out (`OddsForm`). It survives skipped evidence,
  where both sides become 0 (`OddsStep`), and gives `BatchUpdate` and
  `CromwellsRule`. Bets rest on `KellyBounds`: the full Kelly fraction is
  positive exactly with a positive edge, and maximizes growth, so no smaller
  fraction is past it. `MoneyInv` says what a bet holds of the bankroll; it
  needs that reducing a fraction leaves it the same (`ReducedIsSame`), which
  needs that `Gcd` divides both its arguments (`GcdDivides`, by induction on the
  second). The Brier score of a constant forecast `a/b` over `w` wins and `l`
  losses comes to `(w(b-a)^2 + l a^2) / (b^2 (w+l))` (`BrierOfConstant`), which
  is least where `a/b` is the base rate (`MeanIsBest`).
* **Sums.** A sum is a fold whose recursive function picks elements in an order
  of its own. `FoldExists` shows that such a recursion has a solution, by
  induction on the size of the set; `SumTakes` that any element may be picked
  first. Induction is over sets of numbers (`NaturalInduction`, from the
  well-ordering of the naturals).

**Model-checked only.** Nothing of the passing runs: each of their properties is a
theorem too, `ExposureWithinLimit` and `RefinesLedger` for one worker. The five
disagreements of section 3 are counterexamples of TLC.

Some definitions have the form they have so that they can be reasoned about: sums are
`SumFunction`, filters of a list are sets of its places, the loop over the buckets and
`Gcd` are recursive functions of one argument, and `NewestFirst` ranks places.

## 5. Not modelled

* Floats: rounding, overflow, infinities, NaN. `PaperOrderRequest` accepts any float
  as a quantity; `TradingShort` has negative ones, NaN passes `RiskPolicy` as well.
  A `BayesianUpdater` that rounds to exactly 0 or 1 is stuck there like one that was
  certain.
* Square roots: the Sharpe ratio of a backtest, the Wilson interval of a base rate.
* The optional bounds and the explanation of `AnalystOverride`.
* Research: notes, watchlists and items are lists that are appended to and read.
  No operation depends on what is stored (`AddToWatchlist` checks neither that the
  watchlist exists nor that the market is not in it), so there is nothing to get
  wrong in an order of steps.
* Validation of single values by entities and value objects, except as the faults
  of ingestion and the refusals of models; interfaces (`ports.py`).
* `rank_signals`: a filter and a sort of a list, which nothing in the repository calls.
* `IngestMarkets` run twice at a time: nothing in the repository does.
* HTTP, serialization, the CLI; endpoints that forward one read. The strategy of
  `POST /backtests/run` never sells, so its return is always 0: `Backtester` has any
  strategy.

Promises of the documents that the code does not keep, each shown by a run:

* a position aggregates its fills (`use_cases.py:456`: `TradingLostUpdate`) and holds the
  net quantity (`use_cases.py:458`: `TradingSell`), never a negative one (`api.py:62`:
  `TradingShort`);
* the risk policy "rejects orders that would exceed position or exposure limits"
  (`docs/domain/paper_trading.md:30`): overlapping orders are checked against an exposure
  that no longer is (`use_cases.py:389`: `TradingOverExposure`);
* an event is created or found, and "one or more markets are based on" it
  (`use_cases.py:79`, `docs/domain/market_data.md:29`, `entities.py:68`): each new market gets a
  new event (`use_cases.py:137`: `IngestSharedEvent`).

Others, seen while modelling and not kept as runs:

* the position limit bounds single orders, not positions (`paper_broker.py:140`, against
  the same line 30);
* every signal is saved (`use_cases.py:309`, against "If actionable, persist as a
  Signal entity", line 271), and its verdict is not saved with it: no property is about
  the verdict;
* realized PnL is net of "total transaction costs" (`docs/math/pnl_and_mark_to_market.md:19`),
  but the fee of a buy is never subtracted (`backtester.py:214`), as line 57 of the same
  document has it; `CashBacksReturn` says by how much;
* a filled order can be saved without its position when a repository fails
  (`use_cases.py:443`);
* a market stored before its record failed is missing from the summary, which counts
  it as an error only (`use_cases.py:113`);
* a run whose strategy raises is not recorded (`use_cases.py:537`, against "Every
  backtest run is recorded" in `docs/domain/backtesting.md`);
* `DetectSignal` passes no interval width, so `ConfidenceWeightedSignal` discounts
  nothing there (`use_cases.py:306`);
* sales of more than is held are booked as PnL (`backtester.py:213`); near the exposure
  limit a backtest's sale of what it holds is rejected (`backtester.py:192`);
* the order of evidence does matter once some of it is impossible under the current
  probability (`docs/math/bayes.md:38`), and the history of an updater holds
  probabilities only, not "prior, likelihoods, and posterior" (line 39);
* `brier_score` validates neither forecasts nor outcomes (`services.py:120`, against the
  implementation notes of `docs/math/brier_score.md`);
* `PositionSizer.kelly()` has no default fraction and no cap
  (`docs/domain/paper_trading.md:47`);
* `GetMarketResearch` returns no watchlist memberships (`research_use_cases.py:114`).

## 6. Plan

Done, in this order: `PaperBroker`, `PaperTrading` and `PaperLedger`, `BrokerAccount`,
`Ingestion`, `Backtester`, `SignalEngine` and `SignalPipeline`, the metrics of
`Backtester`, `ProbabilityModels`, `Services` and `Bettor`; proofs for each, the sums
and the refinement of `PaperLedger` last.

Left:

1. A ledger for several workers: what concurrent orders implement when saves may be lost.
2. NaN as a quantity that compares false with everything.
3. Bucket boundaries as the floats `i * width` are.
4. Fractional quantities in a backtest, so that a position may be left with less than one.
5. A clock that steps back under the signal pipeline, and what is then left of
   `SignalsFollowTheirData`.
