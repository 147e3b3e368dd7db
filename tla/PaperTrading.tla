---------------------------- MODULE PaperTrading ----------------------------
(***************************************************************************)
(* Paper trading: POST /paper-orders of interface/api.py, the SimulateOrder*)
(* use case behind it, and the order and position repositories it writes.  *)
(*                                                                         *)
(* The endpoint is a plain `def`, so the web server runs each request on a *)
(* thread of a pool: Workers are those threads.  A request holds no lock   *)
(* and no transaction while it runs, and one repository call is one step.  *)
(* The comprehension of list_by_portfolio is finer: it takes one step per  *)
(* entry of the dict it iterates over.                                     *)
(***************************************************************************)
EXTENDS PaperBroker, Sequences, FiniteSets, Functions

CONSTANTS
  Workers,        \* threads of the server's pool
  Portfolios, Markets,
  Quotes,         \* the two-sided quotes the market data may bring
  Quantities,     \* the quantities clients ask for
  CostScale,      \* an average cost is in 1/CostScale of a fill price
  MaxRequests,    \* bound: requests submitted in a behaviour
  StoreMayFail,   \* TRUE: a repository call may raise (a database adapter)
  NoQuote,        \* get_latest gives None or a one-sided snapshot
  NoOrder, NoPosition, NoFill, NoFrame

Key == Portfolios \X Markets       \* the keys of InMemoryPositionRepository
OrderId == 1..MaxRequests
MarketSide == {"YES", "NO"}
Answer == {"filled", "rejected", "notfound", "error"}

(* PaperOrder. *)
Order == [ portfolio : Portfolios, market : Markets, side : OrderSide,
           quantity : Int, limitPrice : Int, status : {"FILLED", "REJECTED"} ]

(* Position.  avgCost is a number of finite precision, as the float of the *)
(* code is: a whole number of 1/CostScale.  counted is a history field: the*)
(* orders whose fills this value of the position was computed from.        *)
Position == [ side : MarketSide, netQuantity : Int, avgCost : Int,
              realizedPnl : Int, counted : SUBSET OrderId ]

(* The progress of a list_by_portfolio: the size of the dict when the      *)
(* iteration began, the next entry, and the sum over the entries seen.     *)
Scan == [ size : Nat, next : Nat, exposure : Int ]

(* PaperOrderRequest, the body of the POST. *)
Request == [ portfolio : Portfolios, market : Markets, side : OrderSide,
             quantity : Quantities ]

(* The locals of a running SimulateOrder.execute; id tells which request   *)
(* it runs.                                                                *)
Frame == [ id : OrderId, quote : Quotes \union {NoQuote}, scan : Scan,
           fill : Fill \union {NoFill}, held : Position \union {NoPosition} ]

ASSUME TradingAssumption ==
  /\ Quotes \subseteq Quote
  /\ Quantities \subseteq Int
  /\ CostScale \in Nat \ {0}
  /\ MaxRequests \in Nat
  /\ StoreMayFail \in BOOLEAN
  /\ NoQuote \notin Quotes
  /\ NoOrder \notin Order
  /\ NoPosition \notin Position
  /\ NoFill \notin Fill
  /\ NoFrame \notin Frame

VARIABLES
  latest,      \* [Markets -> Quotes \union {NoQuote}]: get_latest's answer
  orders,      \* [OrderId -> Order \union {NoOrder}]: the order repository
  positions,   \* [Key -> Position \union {NoPosition}]: the position dict
  entries,     \* Seq(Key): the dict's keys in insertion order
  pc,          \* where each worker is in execute()
  frame,       \* [Workers -> Frame \union {NoFrame}]: its locals
  requests,    \* Seq(Request): the requests submitted so far
  outcome,     \* [OrderId -> Answer \union {"none"}]: what the client got
  staleKeys    \* history: keys saved over a value other than the one read

store == <<orders, positions, entries, staleKeys>>
vars == <<latest, orders, positions, entries, pc, frame, requests, outcome, staleKeys>>

PC == {"idle", "quote", "list", "scan", "reject", "respond", "fill", "read", "save"}

(* The request a worker runs, and the dict key it is about. *)
RequestOf(w) == requests[frame[w].id]
KeyOf(w) == <<RequestOf(w).portfolio, RequestOf(w).market>>

----------------------------------------------------------------------------
(* The entities the use case builds from its request, fill and reads. *)
OrderOf(request, status, limitPrice) ==
  [ portfolio |-> request.portfolio, market |-> request.market,
    side |-> request.side, quantity |-> request.quantity,
    limitPrice |-> limitPrice, status |-> status ]

(* The limit price of a rejected order is the raw quote it would have hit, *)
(* in the unit of fill prices.                                             *)
QuotedPrice(side, quote) ==
  2 * Scale * (IF side = "BUY" THEN quote.ask ELSE quote.bid)

(* Mutant: the side of the order is stored as the side of the position. *)
SideHeld_OrderSide(side) == side

SideHeld(side) == IF side = "BUY" THEN "YES" ELSE "NO"

NewPosition(id, side, fill) ==
  [ side |-> SideHeld(side), netQuantity |-> fill.quantity,
    avgCost |-> CostScale * fill.price, realizedPnl |-> 0,
    counted |-> {id} ]

(* What the code computes when it averages: the cost of what was held,     *)
(* from its rounded average, and of the fill, over the new quantity.       *)
TotalCost(fill, old) ==
  old.avgCost * old.netQuantity + CostScale * fill.price * fill.quantity

(* Mutant: the mean of the two prices, whatever was held of each.          *)
UpdatedPosition_Unweighted(id, side, fill, old) ==
  [ side |-> SideHeld(side), netQuantity |-> old.netQuantity + fill.quantity,
    avgCost |-> (old.avgCost + CostScale * fill.price) \div 2,
    realizedPnl |-> old.realizedPnl, counted |-> old.counted \union {id} ]

(* The code adds the quantity whatever the side of the order, and keeps    *)
(* the realized PnL it found.                                              *)
UpdatedPosition(id, side, fill, old) ==
  LET quantity == old.netQuantity + fill.quantity
  IN [ side |-> SideHeld(side), netQuantity |-> quantity,
       avgCost |-> IF quantity > 0 THEN TotalCost(fill, old) \div quantity ELSE 0,
       realizedPnl |-> old.realizedPnl,
       counted |-> old.counted \union {id} ]

(* Mutant: every fill is saved as a new position. *)
PositionToSave_AlwaysNew(w) ==
  NewPosition(frame[w].id, RequestOf(w).side, frame[w].fill)

PositionToSave(w) ==
  LET f == frame[w] IN
  IF f.held = NoPosition
  THEN NewPosition(f.id, RequestOf(w).side, f.fill)
  ELSE UpdatedPosition(f.id, RequestOf(w).side, f.fill, f.held)

----------------------------------------------------------------------------
Init ==
  /\ latest = [m \in Markets |-> NoQuote]
  /\ orders = [o \in OrderId |-> NoOrder]
  /\ positions = [k \in Key |-> NoPosition]
  /\ entries = <<>>
  /\ pc = [w \in Workers |-> "idle"]
  /\ frame = [w \in Workers |-> NoFrame]
  /\ requests = <<>>
  /\ outcome = [o \in OrderId |-> "none"]
  /\ staleKeys = {}

(* Market data: the newest snapshot of a market changes. *)
QuoteArrives(m, q) ==
  /\ latest' = [latest EXCEPT ![m] = q]
  /\ UNCHANGED <<store, pc, frame, requests, outcome>>

Goto(w, from, to) == pc[w] = from /\ pc' = [pc EXCEPT ![w] = to]

(* execute() returns or raises, and its locals are gone. *)
Return(w, answer) ==
  /\ outcome' = [outcome EXCEPT ![frame[w].id] = answer]
  /\ frame' = [frame EXCEPT ![w] = NoFrame]

(* A client posts an order and a thread of the pool takes it.  A body that *)
(* is no order (a side that is neither BUY nor SELL, an id that is no UUID)*)
(* raises before anything is read or written and is left out.              *)
Submit(w, request) ==
  /\ Len(requests) < MaxRequests
  /\ Goto(w, "idle", "quote")
  /\ requests' = Append(requests, request)
  /\ frame' = [frame EXCEPT ![w] =
       [ id |-> Len(requests) + 1, quote |-> NoQuote,
         scan |-> [size |-> 0, next |-> 0, exposure |-> 0],
         fill |-> NoFill, held |-> NoPosition ]]
  /\ UNCHANGED <<latest, store, outcome>>

(* snapshot_repo.get_latest and the early return. *)
NoSnapshot(w) ==
  /\ Goto(w, "quote", "idle")
  /\ latest[RequestOf(w).market] = NoQuote
  /\ Return(w, "notfound")
  /\ UNCHANGED <<latest, store, requests>>

GetLatest(w) ==
  /\ Goto(w, "quote", "list")
  /\ latest[RequestOf(w).market] # NoQuote
  /\ frame' = [frame EXCEPT ![w].quote = latest[RequestOf(w).market]]
  /\ UNCHANGED <<latest, store, requests, outcome>>

(* position_repo.list_by_portfolio: the iteration over the dict begins,    *)
(* takes the entries one by one, and raises a RuntimeError at its next     *)
(* step when another thread has added a key meanwhile.                     *)
ScanStart == [size |-> Len(entries), next |-> 1, exposure |-> 0]

ScanAdvance(scan, quantity) ==
  [ size |-> scan.size, next |-> scan.next + 1,
    exposure |-> scan.exposure + quantity ]

BeginScan(w) ==
  /\ Goto(w, "list", "scan")
  /\ frame' = [frame EXCEPT ![w].scan = ScanStart]
  /\ UNCHANGED <<latest, store, requests, outcome>>

(* Mutant: the positions are not filtered by portfolio. *)
Exposure_AllPortfolios(p, k) == positions[k].netQuantity

Exposure(p, k) == IF k[1] = p THEN positions[k].netQuantity ELSE 0

EntryExposure(w) == Exposure(RequestOf(w).portfolio, entries[frame[w].scan.next])

ScanEntry(w) ==
  /\ Goto(w, "scan", "scan")
  /\ frame[w].scan.size = Len(entries)
  /\ frame[w].scan.next <= Len(entries)
  /\ frame' = [frame EXCEPT ![w].scan = ScanAdvance(@, EntryExposure(w))]
  /\ UNCHANGED <<latest, store, requests, outcome>>

ScanInterrupted(w) ==
  /\ Goto(w, "scan", "idle")
  /\ frame[w].scan.size # Len(entries)
  /\ Return(w, "error")
  /\ UNCHANGED <<latest, store, requests>>

ScanEnds(w) ==
  /\ frame[w].scan.size = Len(entries)
  /\ frame[w].scan.next > Len(entries)

(* broker.execute, on the quote and the exposure read before. *)
BrokerRejects(w) ==
  /\ Goto(w, "scan", "reject")
  /\ ScanEnds(w)
  /\ ~ RiskAccepts(RequestOf(w).quantity, frame[w].scan.exposure)
  /\ UNCHANGED <<latest, store, frame, requests, outcome>>

BrokerFills(w) ==
  /\ Goto(w, "scan", "fill")
  /\ ScanEnds(w)
  /\ RiskAccepts(RequestOf(w).quantity, frame[w].scan.exposure)
  /\ frame' = [frame EXCEPT ![w].fill =
       FillOf(RequestOf(w).side, RequestOf(w).quantity, frame[w].quote)]
  /\ UNCHANGED <<latest, store, requests, outcome>>

(* The rejected branch: the order is saved, then the position is read for  *)
(* the answer only (a dummy one when there is none).                       *)
SaveRejected(w) ==
  /\ Goto(w, "reject", "respond")
  /\ orders' = [orders EXCEPT ![frame[w].id] =
       OrderOf(RequestOf(w), "REJECTED",
               QuotedPrice(RequestOf(w).side, frame[w].quote))]
  /\ UNCHANGED <<latest, positions, entries, staleKeys, frame, requests, outcome>>

RespondRejected(w) ==
  /\ Goto(w, "respond", "idle")
  /\ Return(w, "rejected")
  /\ UNCHANGED <<latest, store, requests>>

(* Mutant: the filled order is never saved. *)
SaveFilled_OrderNotSaved(w) ==
  /\ Goto(w, "fill", "read")
  /\ UNCHANGED <<latest, store, frame, requests, outcome>>

(* The filled branch: order_repo.save, position_repo.get_by_market, and    *)
(* position_repo.save of the value computed from what was read.            *)
SaveFilled(w) ==
  /\ Goto(w, "fill", "read")
  /\ orders' = [orders EXCEPT ![frame[w].id] =
       OrderOf(RequestOf(w), "FILLED", frame[w].fill.price)]
  /\ UNCHANGED <<latest, positions, entries, staleKeys, frame, requests, outcome>>

ReadPosition(w) ==
  /\ Goto(w, "read", "save")
  /\ frame' = [frame EXCEPT ![w].held = positions[KeyOf(w)]]
  /\ UNCHANGED <<latest, store, requests, outcome>>

SavePosition(w) ==
  LET k == KeyOf(w) IN
  /\ Goto(w, "save", "idle")
  /\ positions' = [positions EXCEPT ![k] = PositionToSave(w)]
  /\ entries' = IF positions[k] = NoPosition THEN Append(entries, k) ELSE entries
  /\ staleKeys' = IF positions[k] = frame[w].held
                  THEN staleKeys ELSE staleKeys \union {k}
  /\ Return(w, "filled")
  /\ UNCHANGED <<latest, orders, requests>>

(* A repository call raises and what was saved before is not rolled back.  *)
(* The call that raises has itself had no effect: a database adapter runs  *)
(* each save in a transaction of its own.                                  *)
StoreFails(w) ==
  /\ StoreMayFail
  /\ pc[w] \notin {"idle", "scan"}
  /\ pc' = [pc EXCEPT ![w] = "idle"]
  /\ Return(w, "error")
  /\ UNCHANGED <<latest, store, requests>>

(* What a worker does once it has a request. *)
Execute(w) ==
  \/ NoSnapshot(w) \/ GetLatest(w)
  \/ BeginScan(w) \/ ScanEntry(w) \/ ScanInterrupted(w)
  \/ BrokerRejects(w) \/ BrokerFills(w)
  \/ SaveRejected(w) \/ RespondRejected(w)
  \/ SaveFilled(w) \/ ReadPosition(w) \/ SavePosition(w)
  \/ StoreFails(w)

Next ==
  \/ \E m \in Markets, q \in Quotes \union {NoQuote} : QuoteArrives(m, q)
  \/ \E w \in Workers, request \in Request : Submit(w, request)
  \/ \E w \in Workers : Execute(w)

Spec == Init /\ [][Next]_vars

----------------------------------------------------------------------------
(* Every variable has its type.                                            *)
TypeOK ==
  /\ latest \in [Markets -> Quotes \union {NoQuote}]
  /\ orders \in [OrderId -> Order \union {NoOrder}]
  /\ positions \in [Key -> Position \union {NoPosition}]
  /\ entries \in Seq(Key)
  /\ pc \in [Workers -> PC]
  /\ frame \in [Workers -> Frame \union {NoFrame}]
  /\ requests \in Seq(Request) /\ Len(requests) <= MaxRequests
  /\ outcome \in [OrderId -> Answer \union {"none"}]
  /\ staleKeys \subseteq Key

----------------------------------------------------------------------------
(* Orders and positions of a key. *)
FilledOn(k) ==
  { o \in OrderId : /\ orders[o] # NoOrder
                    /\ orders[o].status = "FILLED"
                    /\ <<orders[o].portfolio, orders[o].market>> = k }

ReportedOn(k) == { o \in FilledOn(k) : outcome[o] = "filled" }

Counted(k) == IF positions[k] = NoPosition THEN {} ELSE positions[k].counted

Held(k) == IF positions[k] = NoPosition THEN 0 ELSE positions[k].netQuantity

AtRest(k) == \A w \in Workers : frame[w] # NoFrame => KeyOf(w) # k

SumQuantity(S) == SumFunction([o \in S |-> orders[o].quantity])

SumNotional(S) == SumFunction([o \in S |-> orders[o].limitPrice * orders[o].quantity])

PortfolioExposure(p) == SumFunction([m \in Markets |-> Held(<<p, m>>)])

(* What a position was computed from is a set of FILLED orders on its own  *)
(* portfolio and market: a rejected, failed or unfinished order, or one of *)
(* another key, never moves a position, whatever runs concurrently and     *)
(* whichever repository call fails (paper_trading.md, invariant 1).        *)
PositionsBackedByFills == \A k \in Key : Counted(k) \subseteq FilledOn(k)

(* Unless an overlapping request overwrote the position with a value read  *)
(* before (staleKeys), the position counts exactly the fills reported to   *)
(* clients: none is lost, none counted twice, none counted unreported.     *)
FillsCounted == \A k \in Key \ staleKeys : Counted(k) = ReportedOn(k)

(* The quantity of a position is the sum of the fills it counts, and its   *)
(* average cost their weighted average (paper_trading.md, invariant 4),    *)
(* through any interleaving and any number of fills: each averaging starts *)
(* from an average that was rounded before, and the error it adds up to is *)
(* never more than one 1/CostScale for each averaging there has been.  For *)
(* positive quantities; the code drops the cost when the quantity is not.  *)
PositionIsSumOfFills ==
  \A k \in Key : positions[k] # NoPosition =>
    LET position == positions[k]
        error == CostScale * SumNotional(position.counted)
                   - position.avgCost * position.netQuantity
    IN /\ position.netQuantity = SumQuantity(position.counted)
       /\ 0 <= error
       /\ error <= (Cardinality(position.counted) - 1) * position.netQuantity

(* What a portfolio holds never exceeds the limit of RiskPolicy (it rejects*)
(* orders that would exceed position or exposure limits, paper_trading.md).*)
(* One worker keeps it; two check against exposures they read earlier.     *)
ExposureWithinLimit ==
  \A p \in Portfolios : PortfolioExposure(p) <= MaxPortfolioExposure

(* Once no request on a key is running, its position holds the quantity of *)
(* all its filled orders ("aggregated holding", paper_trading.md).         *)
PositionAggregatesFills ==
  \A k \in Key : AtRest(k) => Held(k) = SumQuantity(FilledOn(k))

(* The net quantity of a position is what was bought less what was sold,   *)
(* as long as no more was sold than bought ("no short selling").           *)
HoldingIsNet ==
  \A k \in Key :
    LET total(side) == SumQuantity({ o \in Counted(k) : orders[o].side = side })
    IN total("SELL") <= total("BUY") => Held(k) = total("BUY") - total("SELL")

(* No position is ever short ("net_quantity is non-negative (no short      *)
(* selling in Phase 1)", paper_trading.md), whatever quantity is asked for.*)
NoShortPositions == \A k \in Key : Held(k) >= 0

(* What the proofs need to know of a running request: its frame exists, it *)
(* works for a submitted, unanswered request that no other worker has, and *)
(* its order is saved exactly from SaveFilled or SaveRejected on.          *)
Running(w) == frame[w] # NoFrame

RunningIffNotIdle == \A w \in Workers : pc[w] = "idle" <=> ~ Running(w)

RunsOwnRequest ==
  /\ \A w \in Workers : Running(w) =>
       frame[w].id <= Len(requests) /\ outcome[frame[w].id] = "none"
  /\ \A v, w \in Workers :
       Running(v) /\ Running(w) /\ v # w => frame[v].id # frame[w].id

UnsubmittedUntouched ==
  \A o \in OrderId : o > Len(requests) => orders[o] = NoOrder /\ outcome[o] = "none"

LocalsRead ==
  \A w \in Workers :
    /\ pc[w] \in {"list", "scan", "reject", "respond", "fill", "read", "save"} =>
         frame[w].quote # NoQuote
    /\ pc[w] = "scan" => frame[w].scan.next >= 1
    /\ pc[w] \in {"fill", "read", "save"} => frame[w].fill # NoFill

EntriesArePositions ==
  \A i \in 1..Len(entries) : positions[entries[i]] # NoPosition

OrderSavedInTurn ==
  \A w \in Workers :
    /\ pc[w] \in {"quote", "list", "scan", "reject", "fill"} =>
         orders[frame[w].id] = NoOrder
    /\ pc[w] \in {"read", "save"} => frame[w].id \in FilledOn(KeyOf(w))

HeldBackedByFills ==
  \A w \in Workers : pc[w] = "save" /\ frame[w].held # NoPosition =>
    frame[w].held.counted \subseteq FilledOn(KeyOf(w))

Control ==
  /\ RunningIffNotIdle /\ RunsOwnRequest /\ UnsubmittedUntouched
  /\ LocalsRead /\ EntriesArePositions /\ OrderSavedInTurn

IInv ==
  TypeOK /\ Control /\ HeldBackedByFills /\ PositionsBackedByFills /\ FillsCounted

(* A single worker: what it read is still what is stored.                  *)
SerialIInv(w) ==
  /\ IInv
  /\ pc[w] = "save" => frame[w].held = positions[KeyOf(w)]
  /\ pc[w] = "scan" => frame[w].scan.size = Len(entries)
  /\ staleKeys = {}

(* A server that runs one request at a time implements the ledger that     *)
(* decides each order, and moves the holding, in one step.                 *)
Ledger == INSTANCE PaperLedger WITH
  held <- [k \in Key |-> Held(k)], answer <- outcome

RefinesLedger == Ledger!Spec

============================================================================
