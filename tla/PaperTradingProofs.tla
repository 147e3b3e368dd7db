------------------------- MODULE PaperTradingProofs -------------------------
(***************************************************************************)
(* Machine-checked proofs about PaperTrading, for every set of workers,    *)
(* portfolios, markets, quotes and quantities, every bound on the requests *)
(* and every broker configuration.                                         *)
(***************************************************************************)
EXTENDS PaperTrading, DataTheorems

(* What the broker computes from a typed order and quote is a typed fill.  *)
LEMMA FillTyped ==
  ASSUME NEW side \in OrderSide, NEW quantity \in Int, NEW quote \in Quote
  PROVE  /\ FillOf(side, quantity, quote) \in Fill
         /\ QuotedPrice(side, quote) \in Int
<1> DEFINE base == BasePrice(side, quote)
           price == FillPrice(side, quote)
<1>1. base \in Int
  BY DEF BasePrice, Quote
<1>2. SlippageRate \in Int /\ Scale \in Int /\ FeeRate \in Int
  BY BrokerAssumption
<1>3. SlippageAmount(base) \in Int
  BY <1>1, <1>2 DEF SlippageAmount
<1>4. price \in Int
  BY <1>1, <1>2, <1>3 DEF FillPrice, ApplySlippage
<1>5. FeeOf(quantity, price) \in Int
  BY <1>2, <1>4 DEF FeeOf
<1>6. QuotedPrice(side, quote) \in Int
  BY <1>2 DEF QuotedPrice, Quote
<1> QED BY <1>3, <1>4, <1>5, <1>6 DEF FillOf, Fill

(* The position computed from a typed fill and what was read is typed.     *)
LEMMA PositionTyped ==
  ASSUME NEW id \in OrderId, NEW side \in OrderSide, NEW fill \in Fill
  PROVE  /\ NewPosition(id, side, fill) \in Position
         /\ \A old \in Position : UpdatedPosition(id, side, fill, old) \in Position
<1>1. SideHeld(side) \in MarketSide
  BY DEF SideHeld, MarketSide
<1>2. /\ fill.price \in Int /\ fill.quantity \in Int
      /\ CostScale * fill.price \in Int /\ CostScale * fill.price * fill.quantity \in Int
  BY TradingAssumption DEF Fill
<1>3. NewPosition(id, side, fill) \in Position
  BY <1>1, <1>2 DEF NewPosition, Position
<1>4. ASSUME NEW old \in Position
      PROVE  UpdatedPosition(id, side, fill, old) \in Position
  <2> DEFINE quantity == old.netQuantity + fill.quantity
             total == TotalCost(fill, old)
  <2>1. /\ old.netQuantity \in Int /\ old.avgCost \in Int /\ old.realizedPnl \in Int
        /\ old.counted \union {id} \in SUBSET OrderId
    BY DEF Position
  <2>2. quantity \in Int /\ total \in Int
    BY <1>2, <2>1 DEF TotalCost
  <2> HIDE DEF quantity, total
  <2>3. (IF quantity > 0 THEN total \div quantity ELSE 0) \in Int
    BY <2>2
  <2> USE DEF quantity, total
  <2> QED BY <1>1, <2>1, <2>2, <2>3 DEF UpdatedPosition, Position
<1> QED BY <1>3, <1>4

(* A running worker's frame, request and key, from the invariant.          *)
LEMMA RunningTyped ==
  ASSUME TypeOK, RunningIffNotIdle, RunsOwnRequest, NEW w \in Workers, pc[w] # "idle"
  PROVE  /\ frame[w] \in Frame
         /\ frame[w].id \in OrderId /\ frame[w].id \in 1..Len(requests)
         /\ RequestOf(w) \in Request
         /\ KeyOf(w) \in Key
         /\ outcome[frame[w].id] = "none"
<1>1. Running(w) /\ frame[w] \in Frame
  BY DEF TypeOK, RunningIffNotIdle, Running
<1>2. frame[w].id \in OrderId /\ frame[w].id <= Len(requests)
      /\ outcome[frame[w].id] = "none"
  BY <1>1 DEF RunsOwnRequest, Frame
<1>3. frame[w].id \in 1..Len(requests)
  BY <1>2, TradingAssumption DEF OrderId, TypeOK
<1>4. RequestOf(w) \in Request
  BY <1>3 DEF RequestOf, TypeOK
<1>5. KeyOf(w) \in Key
  BY <1>4 DEF KeyOf, Key, Request
<1> QED BY <1>1, <1>2, <1>3, <1>4, <1>5

(* Assigning a local of execute() keeps its frame a frame of the same      *)
(* request.                                                                *)
LEMMA LocalAssigned ==
  ASSUME NEW f \in Frame, NEW x
  PROVE  /\ [f EXCEPT !.quote = x].id = f.id
         /\ [f EXCEPT !.scan = x].id = f.id
         /\ [f EXCEPT !.fill = x].id = f.id
         /\ [f EXCEPT !.held = x].id = f.id
         /\ x \in Quotes \union {NoQuote} => [f EXCEPT !.quote = x] \in Frame
         /\ x \in Scan => [f EXCEPT !.scan = x] \in Frame
         /\ x \in Fill \union {NoFill} => [f EXCEPT !.fill = x] \in Frame
         /\ x \in Position \union {NoPosition} => [f EXCEPT !.held = x] \in Frame
BY DEF Frame

(* A step that does not return leaves the worker a frame of its request.   *)
LEMMA FrameStep ==
  ASSUME TypeOK, RunningIffNotIdle, RunsOwnRequest, LocalsRead, EntriesArePositions,
         NEW w \in Workers, Execute(w), pc'[w] # "idle"
  PROVE  /\ frame' = [frame EXCEPT ![w] = frame'[w]]
         /\ frame'[w] \in Frame /\ frame'[w].id = frame[w].id
         /\ outcome' = outcome
<1> DEFINE f == frame[w]
           Goal == /\ frame' = [frame EXCEPT ![w] = frame'[w]]
                   /\ frame'[w] \in Frame /\ frame'[w].id = frame[w].id
                   /\ outcome' = outcome
<1>0. pc[w] # "idle"
  BY DEF Execute, NoSnapshot, GetLatest, BeginScan, ScanEntry, ScanInterrupted,
       BrokerRejects, BrokerFills, SaveRejected, RespondRejected, SaveFilled,
       ReadPosition, SavePosition, StoreFails, Goto
<1>a. /\ f \in Frame /\ RequestOf(w) \in Request /\ KeyOf(w) \in Key
  BY <1>0, RunningTyped
<1>b. /\ RequestOf(w).side \in OrderSide /\ RequestOf(w).quantity \in Int
      /\ RequestOf(w).portfolio \in Portfolios /\ RequestOf(w).market \in Markets
  BY <1>a, TradingAssumption DEF Request
<1>1. CASE GetLatest(w)
  <2>1. latest[RequestOf(w).market] \in Quotes \union {NoQuote}
    BY <1>b DEF TypeOK
  <2>2. /\ frame'[w] = [f EXCEPT !.quote = latest[RequestOf(w).market]]
        /\ frame' = [frame EXCEPT ![w] = frame'[w]] /\ outcome' = outcome
    BY <1>1 DEF GetLatest, TypeOK
  <2>3. /\ [f EXCEPT !.quote = latest[RequestOf(w).market]] \in Frame
        /\ [f EXCEPT !.quote = latest[RequestOf(w).market]].id = f.id
    BY <2>1, <1>a, LocalAssigned, Zenon
  <2> QED BY <2>2, <2>3
<1>2. CASE BeginScan(w)
  <2>1. ScanStart \in Scan
    BY DEF ScanStart, Scan, TypeOK
  <2>2. /\ frame'[w] = [f EXCEPT !.scan = ScanStart]
        /\ frame' = [frame EXCEPT ![w] = frame'[w]] /\ outcome' = outcome
    BY <1>2 DEF BeginScan, TypeOK
  <2>3. /\ [f EXCEPT !.scan = ScanStart] \in Frame
        /\ [f EXCEPT !.scan = ScanStart].id = f.id
    BY <2>1, <1>a, LocalAssigned, Zenon
  <2> QED BY <2>2, <2>3
<1>3. CASE ScanEntry(w)
  <2>1. f.scan \in Scan /\ f.scan.next >= 1
    BY <1>3, <1>a DEF ScanEntry, Goto, LocalsRead, Frame, TypeOK
  <2>2. entries[f.scan.next] \in Key /\ positions[entries[f.scan.next]] \in Position
    BY <1>3, <2>1 DEF ScanEntry, EntriesArePositions, Scan, TypeOK
  <2>3. EntryExposure(w) \in Int
    BY <2>2 DEF EntryExposure, Exposure, Position
  <2>4. ScanAdvance(f.scan, EntryExposure(w)) \in Scan
    BY <2>1, <2>3 DEF ScanAdvance, Scan
  <2>5. /\ frame'[w] = [f EXCEPT !.scan = ScanAdvance(f.scan, EntryExposure(w))]
        /\ frame' = [frame EXCEPT ![w] = frame'[w]] /\ outcome' = outcome
    BY <1>3 DEF ScanEntry, TypeOK
  <2>6. /\ [f EXCEPT !.scan = ScanAdvance(f.scan, EntryExposure(w))] \in Frame
        /\ [f EXCEPT !.scan = ScanAdvance(f.scan, EntryExposure(w))].id = f.id
    BY <2>4, <1>a, LocalAssigned, Zenon
  <2> QED BY <2>5, <2>6
<1>4. CASE BrokerFills(w)
  <2> DEFINE filled == FillOf(RequestOf(w).side, RequestOf(w).quantity, f.quote)
  <2>1. f.quote \in Quote
    BY <1>4, <1>a, TradingAssumption DEF BrokerFills, Goto, LocalsRead, Frame
  <2>2. filled \in Fill
    BY <1>b, <2>1, FillTyped
  <2>3. /\ frame'[w] = [f EXCEPT !.fill = filled]
        /\ frame' = [frame EXCEPT ![w] = frame'[w]] /\ outcome' = outcome
    BY <1>4 DEF BrokerFills, TypeOK
  <2>4. /\ [f EXCEPT !.fill = filled] \in Frame
        /\ [f EXCEPT !.fill = filled].id = f.id
    BY <2>2, <1>a, LocalAssigned, Zenon
  <2> QED BY <2>3, <2>4
<1>5. CASE ReadPosition(w)
  <2>1. positions[KeyOf(w)] \in Position \union {NoPosition}
    BY <1>a DEF TypeOK
  <2>2. /\ frame'[w] = [f EXCEPT !.held = positions[KeyOf(w)]]
        /\ frame' = [frame EXCEPT ![w] = frame'[w]] /\ outcome' = outcome
    BY <1>5 DEF ReadPosition, TypeOK
  <2>3. /\ [f EXCEPT !.held = positions[KeyOf(w)]] \in Frame
        /\ [f EXCEPT !.held = positions[KeyOf(w)]].id = f.id
    BY <2>1, <1>a, LocalAssigned, Zenon
  <2> QED BY <2>2, <2>3
<1>6. CASE BrokerRejects(w) \/ SaveRejected(w) \/ SaveFilled(w)
  <2>1. frame' = frame /\ outcome' = outcome
    BY <1>6 DEF BrokerRejects, SaveRejected, SaveFilled
  <2> QED BY <2>1, <1>a DEF TypeOK
<1>7. CASE \/ NoSnapshot(w) \/ ScanInterrupted(w) \/ RespondRejected(w)
           \/ SavePosition(w) \/ StoreFails(w)
  BY <1>7 DEF NoSnapshot, ScanInterrupted, RespondRejected, SavePosition,
       StoreFails, Goto, TypeOK
<1> QED BY <1>1, <1>2, <1>3, <1>4, <1>5, <1>6, <1>7 DEF Execute

----------------------------------------------------------------------------
(* Every step keeps the types: a saved order, a saved position and every   *)
(* local of execute() is of its class.                                     *)
LEMMA TypeStep ==
  ASSUME TypeOK, RunningIffNotIdle, RunsOwnRequest, LocalsRead,
         EntriesArePositions, [Next]_vars
  PROVE  TypeOK'
<1> USE DEF TypeOK
<1>1. ASSUME NEW m \in Markets, NEW q \in Quotes \union {NoQuote}, QuoteArrives(m, q)
      PROVE  TypeOK'
  BY <1>1 DEF QuoteArrives, store
<1>2. ASSUME NEW w \in Workers, NEW request \in Request, Submit(w, request)
      PROVE  TypeOK'
  <2>1. requests' \in Seq(Request) /\ Len(requests') <= MaxRequests
    BY <1>2, TradingAssumption DEF Submit
  <2>2. Len(requests) + 1 \in OrderId
    BY <1>2, TradingAssumption DEF Submit, OrderId
  <2>3. frame' \in [Workers -> Frame \union {NoFrame}]
    BY <1>2, <2>2 DEF Submit, Frame, Scan
  <2> QED BY <1>2, <2>1, <2>3 DEF Submit, store, Goto, PC
<1>3. ASSUME NEW w \in Workers, Execute(w)
      PROVE  TypeOK'
  <2>0. pc[w] # "idle"
    BY <1>3 DEF Execute, NoSnapshot, GetLatest, BeginScan, ScanEntry,
         ScanInterrupted, BrokerRejects, BrokerFills, SaveRejected,
         RespondRejected, SaveFilled, ReadPosition, SavePosition, StoreFails, Goto
  <2> DEFINE f == frame[w]
  <2>a. /\ f \in Frame /\ f.id \in OrderId /\ RequestOf(w) \in Request
        /\ KeyOf(w) \in Key
    BY <2>0, RunningTyped
  <2>b. /\ RequestOf(w).side \in OrderSide /\ RequestOf(w).quantity \in Int
        /\ RequestOf(w).portfolio \in Portfolios /\ RequestOf(w).market \in Markets
    BY <2>a, TradingAssumption DEF Request
  <2>c. ASSUME NEW answer \in Answer, Return(w, answer)
        PROVE  /\ outcome' \in [OrderId -> Answer \union {"none"}]
               /\ frame' \in [Workers -> Frame \union {NoFrame}]
    BY <2>c, <2>a DEF Return
  <2>d. ASSUME f.quote # NoQuote PROVE f.quote \in Quote
    BY <2>d, <2>a, TradingAssumption DEF Frame
  <2>e. ASSUME NEW status \in {"FILLED", "REJECTED"}, NEW price \in Int
        PROVE  OrderOf(RequestOf(w), status, price) \in Order
    BY <2>b DEF OrderOf, Order
  <2>1. CASE NoSnapshot(w)
    BY <2>1, <2>c DEF NoSnapshot, Goto, PC, Answer, store
  <2>g. ASSUME pc'[w] # "idle" PROVE frame' \in [Workers -> Frame \union {NoFrame}]
    BY <2>g, <1>3, FrameStep
  <2>2. CASE GetLatest(w)
    BY <2>2, <2>g DEF GetLatest, Goto, PC, store
  <2>3. CASE BeginScan(w)
    BY <2>3, <2>g DEF BeginScan, Goto, PC, store
  <2>4. CASE ScanEntry(w)
    BY <2>4, <2>g DEF ScanEntry, Goto, PC, store
  <2>5. CASE ScanInterrupted(w)
    BY <2>5, <2>c DEF ScanInterrupted, Goto, PC, Answer, store
  <2>6. CASE BrokerRejects(w)
    BY <2>6 DEF BrokerRejects, Goto, PC, store
  <2>7. CASE BrokerFills(w)
    BY <2>7, <2>g DEF BrokerFills, Goto, PC, store
  <2>8. CASE SaveRejected(w)
    <3>1. QuotedPrice(RequestOf(w).side, f.quote) \in Int
      BY <2>8, <2>b, <2>d, FillTyped DEF SaveRejected, Goto, LocalsRead
    <3>2. orders' \in [OrderId -> Order \union {NoOrder}]
      BY <2>8, <2>a, <2>e, <3>1 DEF SaveRejected
    <3> QED BY <2>8, <3>2 DEF SaveRejected, Goto, PC
  <2>9. CASE RespondRejected(w)
    BY <2>9, <2>c DEF RespondRejected, Goto, PC, Answer, store
  <2>10. CASE SaveFilled(w)
    <3>1. f.fill \in Fill
      BY <2>10, <2>a DEF SaveFilled, Goto, LocalsRead, Frame
    <3>2. f.fill.price \in Int
      BY <3>1 DEF Fill
    <3>3. orders' \in [OrderId -> Order \union {NoOrder}]
      BY <2>10, <2>a, <2>e, <3>2 DEF SaveFilled
    <3> QED BY <2>10, <3>3 DEF SaveFilled, Goto, PC
  <2>11. CASE ReadPosition(w)
    BY <2>11, <2>g DEF ReadPosition, Goto, PC, store
  <2>12. CASE SavePosition(w)
    <3>1. f.fill \in Fill /\ f.held \in Position \union {NoPosition}
      BY <2>12, <2>a DEF SavePosition, Goto, LocalsRead, Frame
    <3>2. PositionToSave(w) \in Position
      BY <3>1, <2>a, <2>b, PositionTyped DEF PositionToSave
    <3>3. positions' \in [Key -> Position \union {NoPosition}]
      BY <2>12, <2>a, <3>2 DEF SavePosition
    <3>4. entries' \in Seq(Key) /\ staleKeys' \subseteq Key
      BY <2>12, <2>a DEF SavePosition
    <3>5. /\ outcome' \in [OrderId -> Answer \union {"none"}]
          /\ frame' \in [Workers -> Frame \union {NoFrame}]
      BY <2>12, <2>c DEF SavePosition, Answer
    <3> QED BY <2>12, <3>3, <3>4, <3>5 DEF SavePosition, Goto, PC
  <2>13. CASE StoreFails(w)
    BY <2>13, <2>c DEF StoreFails, PC, Answer, store
  <2> QED BY <1>3, <2>1, <2>2, <2>3, <2>4, <2>5, <2>6, <2>7, <2>8, <2>9, <2>10,
             <2>11, <2>12, <2>13 DEF Execute
<1>4. CASE UNCHANGED vars
  BY <1>4 DEF vars
<1> QED BY <1>1, <1>2, <1>3, <1>4 DEF Next

----------------------------------------------------------------------------
(* A step of one running request leaves every other worker where it was,   *)
(* with its locals, its request and its order.                             *)
LEMMA OthersUntouched ==
  ASSUME TypeOK, RunningIffNotIdle, RunsOwnRequest, NEW w \in Workers, Execute(w)
  PROVE  /\ pc[w] # "idle" /\ Running(w)
         /\ requests' = requests
         /\ \A v \in Workers \ {w} :
              /\ pc'[v] = pc[v] /\ frame'[v] = frame[v] /\ KeyOf(v)' = KeyOf(v)
              /\ Running(v) =>
                   /\ frame[v].id # frame[w].id
                   /\ orders'[frame[v].id] = orders[frame[v].id]
                   /\ outcome'[frame[v].id] = outcome[frame[v].id]
<1> USE DEF TypeOK
<1>1. pc[w] # "idle" /\ Running(w)
  BY DEF Execute, RunningIffNotIdle, Goto, NoSnapshot, GetLatest, BeginScan, ScanEntry, ScanInterrupted,
         BrokerRejects, BrokerFills, SaveRejected, RespondRejected, SaveFilled,
         ReadPosition, SavePosition, StoreFails
<1>2. requests' = requests
  BY DEF Execute, NoSnapshot, GetLatest, BeginScan, ScanEntry, ScanInterrupted,
         BrokerRejects, BrokerFills, SaveRejected, RespondRejected, SaveFilled,
         ReadPosition, SavePosition, StoreFails
<1>3. ASSUME NEW v \in Workers \ {w}
      PROVE  pc'[v] = pc[v] /\ frame'[v] = frame[v]
  BY DEF Execute, Goto, Return, NoSnapshot, GetLatest, BeginScan, ScanEntry, ScanInterrupted,
         BrokerRejects, BrokerFills, SaveRejected, RespondRejected, SaveFilled,
         ReadPosition, SavePosition, StoreFails
<1>4. ASSUME NEW v \in Workers \ {w} PROVE KeyOf(v)' = KeyOf(v)
  BY <1>2, <1>3 DEF KeyOf, RequestOf
<1>5. ASSUME NEW v \in Workers \ {w}, Running(v) PROVE frame[v].id # frame[w].id
  BY <1>1, <1>5 DEF RunsOwnRequest
<1>6. \A o \in OrderId : o # frame[w].id =>
        orders'[o] = orders[o] /\ outcome'[o] = outcome[o]
  BY DEF Execute, Goto, Return, store, NoSnapshot, GetLatest, BeginScan, ScanEntry, ScanInterrupted,
         BrokerRejects, BrokerFills, SaveRejected, RespondRejected, SaveFilled,
         ReadPosition, SavePosition, StoreFails
<1>7. ASSUME NEW v \in Workers, Running(v) PROVE frame[v].id \in OrderId
  BY <1>7 DEF Running, Frame
<1> QED BY <1>1, <1>2, <1>3, <1>4, <1>5, <1>6, <1>7

----------------------------------------------------------------------------
(* A step of a running request keeps the shape of the running requests.    *)
LEMMA ExecuteControl ==
  ASSUME TypeOK, TypeOK', Control, NEW w \in Workers, Execute(w)
  PROVE  Control'
<1> USE DEF Control
<1>o. /\ pc[w] # "idle" /\ Running(w)
      /\ requests' = requests
      /\ \A v \in Workers \ {w} :
           /\ pc'[v] = pc[v] /\ frame'[v] = frame[v] /\ KeyOf(v)' = KeyOf(v)
           /\ Running(v) =>
                /\ frame[v].id # frame[w].id
                /\ orders'[frame[v].id] = orders[frame[v].id]
                /\ outcome'[frame[v].id] = outcome[frame[v].id]
  BY OthersUntouched
<1>f. /\ frame[w] \in Frame /\ frame[w].id \in OrderId
      /\ frame[w].id \in 1..Len(requests) /\ KeyOf(w) \in Key
  BY <1>o, RunningTyped
<1>n. NoFrame \notin Frame
  BY TradingAssumption
(* The worker itself goes on with the same request, or returns. *)
<1>1. \/ /\ pc'[w] # "idle" /\ frame'[w] \in Frame /\ frame'[w].id = frame[w].id
         /\ outcome' = outcome
      \/ /\ pc'[w] = "idle" /\ frame'[w] = NoFrame
         /\ \A o \in OrderId : o # frame[w].id => outcome'[o] = outcome[o]
  <2>1. ASSUME pc'[w] # "idle"
        PROVE  frame'[w] \in Frame /\ frame'[w].id = frame[w].id /\ outcome' = outcome
    BY <2>1, FrameStep
  <2>2. ASSUME pc'[w] = "idle"
        PROVE  /\ frame'[w] = NoFrame
               /\ \A o \in OrderId : o # frame[w].id => outcome'[o] = outcome[o]
    BY <2>2, <1>f DEF Execute, Goto, Return, TypeOK, NoSnapshot, GetLatest,
         BeginScan, ScanEntry, ScanInterrupted, BrokerRejects, BrokerFills, SaveRejected, RespondRejected, SaveFilled,
           ReadPosition, SavePosition, StoreFails
  <2> QED BY <2>1, <2>2
<1>2. RunningIffNotIdle'
  BY <1>1, <1>o, <1>n DEF RunningIffNotIdle, Running
<1>3. RunsOwnRequest'
  <2>1. ASSUME NEW v \in Workers, Running(v)'
        PROVE  frame'[v].id <= Len(requests') /\ outcome'[frame'[v].id] = "none"
    BY <2>1, <1>1, <1>o, <1>n DEF RunsOwnRequest, Running
  <2>2. ASSUME NEW u \in Workers, NEW v \in Workers, Running(u)', Running(v)', u # v
        PROVE  frame'[u].id # frame'[v].id
    BY <2>2, <1>1, <1>o, <1>n DEF RunsOwnRequest, Running
  <2> QED BY <2>1, <2>2 DEF RunsOwnRequest
<1>4. UnsubmittedUntouched'
  <2>1. \A o \in OrderId : o # frame[w].id => orders'[o] = orders[o]
    BY <1>f DEF Execute, store, TypeOK, NoSnapshot, GetLatest, BeginScan, ScanEntry, ScanInterrupted,
           BrokerRejects, BrokerFills, SaveRejected, RespondRejected, SaveFilled,
           ReadPosition, SavePosition, StoreFails
  <2> QED BY <2>1, <1>1, <1>o, <1>f DEF UnsubmittedUntouched, OrderId
<1>5. EntriesArePositions'
  <2>1. CASE SavePosition(w)
    <3>1. PositionToSave(w) # NoPosition
      <4>1. frame[w].fill \in Fill /\ RequestOf(w).side \in OrderSide
        BY <2>1, <1>f, <1>o, RunningTyped DEF SavePosition, Goto, LocalsRead, Frame, Request
      <4>2. PositionToSave(w) \in Position
        BY <4>1, <1>f, PositionTyped DEF PositionToSave, Frame
      <4> QED BY <4>2, TradingAssumption
    <3>2. \A k \in Key : positions[k] # NoPosition => positions'[k] # NoPosition
      BY <2>1, <3>1, <1>f DEF SavePosition, TypeOK
    <3>3. positions'[KeyOf(w)] # NoPosition
      BY <2>1, <3>1, <1>f DEF SavePosition, TypeOK
    <3>4. ASSUME NEW i \in 1..Len(entries')
          PROVE  \/ entries'[i] = KeyOf(w)
                 \/ i \in 1..Len(entries) /\ entries'[i] = entries[i]
      BY <2>1, <3>4 DEF SavePosition, TypeOK
    <3>5. ASSUME NEW i \in 1..Len(entries) PROVE entries[i] \in Key
      BY <3>5 DEF TypeOK
    <3> QED BY <3>2, <3>3, <3>4, <3>5 DEF EntriesArePositions
  <2>2. CASE ~ SavePosition(w)
    <3>1. positions' = positions /\ entries' = entries
      BY <2>2 DEF Execute, store, NoSnapshot, GetLatest, BeginScan, ScanEntry,
           ScanInterrupted, BrokerRejects, BrokerFills, SaveRejected,
           RespondRejected, SaveFilled, ReadPosition, StoreFails
    <3> QED BY <3>1 DEF EntriesArePositions
  <2> QED BY <2>1, <2>2
<1>6. LocalsRead'
  <2>1. ASSUME NEW v \in Workers \ {w}
        PROVE  /\ pc'[v] \in {"list", "scan", "reject", "respond", "fill", "read", "save"} =>
                    frame'[v].quote # NoQuote
               /\ pc'[v] = "scan" => frame'[v].scan.next >= 1
               /\ pc'[v] \in {"fill", "read", "save"} => frame'[v].fill # NoFill
    BY <1>o DEF LocalsRead
  <2>2. pc'[w] \in {"list", "scan", "reject", "respond", "fill", "read", "save"} =>
          frame'[w].quote # NoQuote
    BY <1>f DEF LocalsRead, Execute, Goto, Frame, TypeOK, NoSnapshot, GetLatest, BeginScan, ScanEntry, ScanInterrupted,
           BrokerRejects, BrokerFills, SaveRejected, RespondRejected, SaveFilled,
           ReadPosition, SavePosition, StoreFails
  <2>3. pc'[w] = "scan" => frame'[w].scan.next >= 1
    <3>1. CASE BeginScan(w)
      BY <3>1, <1>f DEF BeginScan, ScanStart, Frame, TypeOK
    <3>2. CASE ScanEntry(w)
      BY <3>2, <1>f DEF ScanEntry, ScanAdvance, Goto, LocalsRead, Frame, Scan, TypeOK
    <3>3. CASE ~ BeginScan(w) /\ ~ ScanEntry(w)
      BY <3>3, <1>f DEF Execute, Goto, TypeOK, NoSnapshot, GetLatest,
           ScanInterrupted, BrokerRejects, BrokerFills, SaveRejected,
           RespondRejected, SaveFilled, ReadPosition, SavePosition, StoreFails
    <3> QED BY <3>1, <3>2, <3>3
  <2>4. pc'[w] \in {"fill", "read", "save"} => frame'[w].fill # NoFill
    <3>1. CASE BrokerFills(w)
      <4>1. frame[w].quote \in Quote
        BY <3>1, <1>f, TradingAssumption DEF BrokerFills, Goto, LocalsRead, Frame
      <4>2. FillOf(RequestOf(w).side, RequestOf(w).quantity, frame[w].quote) \in Fill
        BY <4>1, <1>o, RunningTyped, FillTyped, TradingAssumption DEF Request
      <4> QED BY <3>1, <4>2, <1>f, TradingAssumption DEF BrokerFills, Frame, TypeOK
    <3>2. CASE ~ BrokerFills(w)
      BY <3>2, <1>f DEF LocalsRead, Execute, Goto, Frame, TypeOK, NoSnapshot,
           GetLatest, BeginScan, ScanEntry, ScanInterrupted, BrokerRejects,
           SaveRejected, RespondRejected, SaveFilled, ReadPosition, SavePosition,
           StoreFails
    <3> QED BY <3>1, <3>2
  <2> QED BY <2>1, <2>2, <2>3, <2>4 DEF LocalsRead
<1>7. OrderSavedInTurn'
  <2>1. ASSUME NEW v \in Workers \ {w}
        PROVE  /\ pc'[v] \in {"quote", "list", "scan", "reject", "fill"} =>
                    orders'[frame'[v].id] = NoOrder
               /\ pc'[v] \in {"read", "save"} => frame'[v].id \in FilledOn(KeyOf(v))'
    BY <1>o DEF OrderSavedInTurn, RunningIffNotIdle, FilledOn
  <2>2. pc'[w] \in {"quote", "list", "scan", "reject", "fill"} =>
          orders'[frame'[w].id] = NoOrder
    <3>1. CASE SaveRejected(w) \/ SaveFilled(w)
      BY <3>1 DEF SaveRejected, SaveFilled, Goto, TypeOK
    <3>2. CASE ~ SaveRejected(w) /\ ~ SaveFilled(w)
      <4>1. orders' = orders
        BY <3>2 DEF Execute, store, NoSnapshot, GetLatest, BeginScan, ScanEntry,
             ScanInterrupted, BrokerRejects, BrokerFills, RespondRejected,
             ReadPosition, SavePosition, StoreFails
      <4>2. pc'[w] \in {"quote", "list", "scan", "reject", "fill"} =>
              pc[w] \in {"quote", "list", "scan"}
        BY <3>2 DEF Execute, Goto, TypeOK, NoSnapshot, GetLatest, BeginScan, ScanEntry,
             ScanInterrupted, BrokerRejects, BrokerFills, RespondRejected,
             ReadPosition, SavePosition, StoreFails
      <4> QED BY <4>1, <4>2, <1>1 DEF OrderSavedInTurn
    <3> QED BY <3>1, <3>2
  <2>3. pc'[w] \in {"read", "save"} => frame'[w].id \in FilledOn(KeyOf(w))'
    <3>0. pc'[w] # "idle" => KeyOf(w)' = KeyOf(w)
      BY <1>1, <1>o DEF KeyOf, RequestOf
    <3>1. CASE SaveFilled(w)
      <4>1. orders'[frame[w].id] = OrderOf(RequestOf(w), "FILLED", frame[w].fill.price)
        BY <3>1, <1>f DEF SaveFilled, TypeOK
      <4>2. frame' = frame /\ pc'[w] = "read"
        BY <3>1 DEF SaveFilled, Goto, TypeOK
      <4>3. orders'[frame[w].id] # NoOrder
        <5>1. frame[w].fill \in Fill
          BY <3>1, <1>f DEF SaveFilled, Goto, LocalsRead, Frame
        <5>2. frame[w].fill.price \in Int
          BY <5>1 DEF Fill
        <5>3. RequestOf(w) \in Request
          BY <1>o, RunningTyped
        <5>4. OrderOf(RequestOf(w), "FILLED", frame[w].fill.price) \in Order
          BY <5>2, <5>3, TradingAssumption DEF OrderOf, Order, Request
        <5> QED BY <4>1, <5>4, TradingAssumption
      <4> QED BY <4>1, <4>2, <4>3, <3>0, <1>f DEF FilledOn, OrderOf, KeyOf
    <3>2. CASE ReadPosition(w)
      BY <3>2, <3>0, <1>1 DEF ReadPosition, Goto, store, OrderSavedInTurn, FilledOn, TypeOK
    <3>3. CASE ~ SaveFilled(w) /\ ~ ReadPosition(w)
      BY <3>3 DEF Execute, Goto, TypeOK, NoSnapshot, GetLatest, BeginScan, ScanEntry,
           ScanInterrupted, BrokerRejects, BrokerFills, SaveRejected, RespondRejected,
           SavePosition, StoreFails
    <3> QED BY <3>1, <3>2, <3>3
  <2> QED BY <2>1, <2>2, <2>3 DEF OrderSavedInTurn
<1> QED BY <1>2, <1>3, <1>4, <1>5, <1>6, <1>7

(* A new request takes an id that nobody used, on an idle worker.          *)
LEMMA SubmitControl ==
  ASSUME TypeOK, TypeOK', Control, NEW w \in Workers, NEW request \in Request,
         Submit(w, request)
  PROVE  /\ Control'
         /\ \A v \in Workers : Running(v) => KeyOf(v)' = KeyOf(v)
<1> USE DEF Control
<1> DEFINE id == Len(requests) + 1
<1>1. /\ pc[w] = "idle" /\ ~ Running(w)
      /\ pc' = [pc EXCEPT ![w] = "quote"]
      /\ frame'[w] \in Frame /\ frame'[w].id = id
      /\ \A v \in Workers \ {w} : frame'[v] = frame[v] /\ pc'[v] = pc[v]
      /\ id \in OrderId
      /\ UNCHANGED <<orders, outcome, positions, entries>>
  <2>1. id \in OrderId
    BY TradingAssumption DEF Submit, OrderId, TypeOK
  <2>2. frame'[w] \in Frame /\ frame'[w].id = id
    BY <2>1 DEF Submit, Frame, Scan, TypeOK
  <2> QED BY <2>1, <2>2 DEF Submit, Goto, RunningIffNotIdle, store, TypeOK
<1>2. NoFrame \notin Frame
  BY TradingAssumption
<1>3. /\ Len(requests') = id
      /\ \A i \in 1..Len(requests) : requests'[i] = requests[i]
  BY DEF Submit, TypeOK
<1>4. ASSUME NEW v \in Workers, Running(v)
      PROVE  /\ v # w /\ Running(v)' /\ frame[v].id \in 1..Len(requests)
             /\ frame'[v] = frame[v] /\ KeyOf(v)' = KeyOf(v)
  <2>1. v # w /\ pc[v] # "idle"
    BY <1>1, <1>4 DEF RunningIffNotIdle
  <2>2. frame[v].id \in 1..Len(requests)
    BY <2>1, RunningTyped
  <2> QED BY <2>1, <2>2, <1>1, <1>3, <1>4 DEF Running, KeyOf, RequestOf
<1>5. RunningIffNotIdle'
  BY <1>1, <1>2 DEF RunningIffNotIdle, Running, TypeOK
<1>6. RunsOwnRequest'
  <2>1. outcome[id] = "none" /\ \A v \in Workers : Running(v) => frame[v].id # id
    BY <1>1, <1>4 DEF UnsubmittedUntouched, TypeOK
  <2>2. ASSUME NEW v \in Workers, Running(v)'
        PROVE  frame'[v].id <= Len(requests') /\ outcome'[frame'[v].id] = "none"
    BY <2>1, <2>2, <1>1, <1>3, <1>4 DEF RunsOwnRequest, Running, TypeOK
  <2>3. ASSUME NEW u \in Workers, NEW v \in Workers, Running(u)', Running(v)', u # v
        PROVE  frame'[u].id # frame'[v].id
    BY <2>1, <2>3, <1>1, <1>4 DEF RunsOwnRequest, Running
  <2> QED BY <2>2, <2>3 DEF RunsOwnRequest
<1>7. UnsubmittedUntouched'
  BY <1>1, <1>3 DEF UnsubmittedUntouched, OrderId, TypeOK
<1>8. LocalsRead'
  BY <1>1 DEF LocalsRead, TypeOK
<1>9. EntriesArePositions'
  BY <1>1 DEF EntriesArePositions
<1>10. OrderSavedInTurn'
  <2>1. orders[id] = NoOrder
    BY <1>1 DEF UnsubmittedUntouched, TypeOK
  <2>2. ASSUME NEW v \in Workers, v # w
        PROVE  /\ pc'[v] \in {"quote", "list", "scan", "reject", "fill"} =>
                    orders'[frame'[v].id] = NoOrder
               /\ pc'[v] \in {"read", "save"} => frame'[v].id \in FilledOn(KeyOf(v))'
    BY <2>2, <1>1, <1>4 DEF OrderSavedInTurn, RunningIffNotIdle, FilledOn
  <2>3. pc'[w] = "quote" /\ orders'[frame'[w].id] = NoOrder
    BY <2>1, <1>1 DEF TypeOK
  <2> QED BY <2>2, <2>3 DEF OrderSavedInTurn
<1> QED BY <1>4, <1>5, <1>6, <1>7, <1>8, <1>9, <1>10

(* Market data does not touch the requests.                                *)
LEMMA IdleControl ==
  ASSUME TypeOK, Control,
         (\E m \in Markets, q \in Quotes \union {NoQuote} : QuoteArrives(m, q))
           \/ UNCHANGED vars
  PROVE  Control'
<1>1. UNCHANGED <<orders, positions, entries, staleKeys, pc, frame, requests, outcome>>
  BY DEF QuoteArrives, vars, store
<1>2. \A v \in Workers : KeyOf(v)' = KeyOf(v) /\ Running(v)' = Running(v)
  BY <1>1 DEF KeyOf, RequestOf, Running
<1> QED BY <1>1, <1>2 DEF Control, RunningIffNotIdle, RunsOwnRequest,
           UnsubmittedUntouched, LocalsRead, EntriesArePositions,
           OrderSavedInTurn, FilledOn

(* Every step keeps what is known of running requests.                     *)
LEMMA ControlStep ==
  ASSUME TypeOK, TypeOK', Control, [Next]_vars
  PROVE  Control'
BY ExecuteControl, SubmitControl, IdleControl DEF Next

----------------------------------------------------------------------------
(* Every step keeps the accounting: positions are computed from fills of   *)
(* their key, and count the reported ones exactly unless overwritten.      *)
Accounting == HeldBackedByFills /\ PositionsBackedByFills /\ FillsCounted

(* A step of a request keeps positions and fills in agreement.             *)
LEMMA ExecuteAccounting ==
  ASSUME TypeOK, TypeOK', Control, Accounting, NEW w \in Workers, Execute(w)
  PROVE  Accounting'
<1> DEFINE id == frame[w].id
<1>o. /\ pc[w] # "idle" /\ Running(w)
      /\ \A v \in Workers \ {w} :
           /\ pc'[v] = pc[v] /\ frame'[v] = frame[v] /\ KeyOf(v)' = KeyOf(v)
           /\ Running(v) => frame[v].id # id
  BY OthersUntouched DEF Control
<1>f. frame[w] \in Frame /\ id \in OrderId /\ KeyOf(w) \in Key /\ outcome[id] = "none"
  BY <1>o, RunningTyped DEF Control
<1>k. \A v \in Workers : pc[v] # "idle" => KeyOf(v) \in Key
  BY RunningTyped DEF Control
(* The fills of a key only grow. *)
<1>g. \A k \in Key : FilledOn(k) \subseteq FilledOn(k)'
  <2>1. CASE SaveRejected(w) \/ SaveFilled(w)
    <3>1. orders[id] = NoOrder /\ \A o \in OrderId \ {id} : orders'[o] = orders[o]
      BY <2>1, <1>f DEF SaveRejected, SaveFilled, Goto, Control, OrderSavedInTurn, TypeOK
    <3> QED BY <3>1 DEF FilledOn
  <2>2. CASE ~ SaveRejected(w) /\ ~ SaveFilled(w)
    <3>1. orders' = orders
      BY <2>2 DEF Execute, store, NoSnapshot, GetLatest, BeginScan, ScanEntry,
           ScanInterrupted, BrokerRejects, BrokerFills, RespondRejected,
           ReadPosition, SavePosition, StoreFails
    <3> QED BY <3>1 DEF FilledOn
  <2> QED BY <2>1, <2>2
<1>1. CASE SavePosition(w)
  <2>k. PICK key \in Key : key = KeyOf(w)
    BY <1>f
  <2>s. PICK saved : saved = PositionToSave(w)
    OBVIOUS
  <2>1. /\ pc[w] = "save" /\ pc'[w] = "idle"
        /\ positions' = [positions EXCEPT ![key] = saved]
        /\ outcome' = [outcome EXCEPT ![id] = "filled"]
        /\ orders' = orders
    BY <1>1, <2>k, <2>s DEF SavePosition, Goto, Return, TypeOK
  <2>2. \A k \in Key : FilledOn(k)' = FilledOn(k)
    BY <2>1 DEF FilledOn
  <2>3. id \in FilledOn(key)
    BY <2>1, <2>k DEF Control, OrderSavedInTurn
  <2>4. /\ saved \in Position
        /\ saved.counted = {id} \union
             (IF frame[w].held = NoPosition THEN {} ELSE frame[w].held.counted)
    <3>1. /\ frame[w].fill \in Fill /\ RequestOf(w).side \in OrderSide
          /\ frame[w].held \in Position \union {NoPosition}
      BY <2>1, <1>f, <1>o, RunningTyped DEF Control, LocalsRead, Frame, Request
    <3>2. saved \in Position
      BY <2>s, <3>1, <1>f, PositionTyped DEF PositionToSave
    <3> QED BY <2>s, <3>1, <3>2 DEF PositionToSave, NewPosition, UpdatedPosition
  <2>5. saved.counted \subseteq FilledOn(key)
    BY <2>1, <2>3, <2>4, <2>k DEF Accounting, HeldBackedByFills
  <2>6. Counted(key)' = saved.counted /\ \A k \in Key \ {key} : Counted(k)' = Counted(k)
    <3>1. positions'[key] = saved /\ saved # NoPosition
      BY <2>1, <2>4, TradingAssumption DEF TypeOK
    <3>2. ASSUME NEW k \in Key \ {key} PROVE positions'[k] = positions[k]
      BY <2>1, <3>2 DEF TypeOK
    <3> QED BY <3>1, <3>2 DEF Counted
  <2>7. PositionsBackedByFills'
    BY <2>2, <2>5, <2>6 DEF PositionsBackedByFills, Accounting
  <2>8. HeldBackedByFills'
    BY <2>1, <2>2, <1>o, <1>k DEF HeldBackedByFills, Accounting
  <2>9. FillsCounted'
    <3>1. ReportedOn(key)' = ReportedOn(key) \union {id}
      BY <2>1, <2>2, <2>3, <1>f DEF ReportedOn, TypeOK
    <3>2. ASSUME NEW k \in Key \ {key} PROVE ReportedOn(k)' = ReportedOn(k)
      <4>1. id \notin FilledOn(k)
        BY <2>3, <3>2 DEF FilledOn
      <4> QED BY <4>1, <2>1, <2>2 DEF ReportedOn, TypeOK
    <3>3. ASSUME key \notin staleKeys' PROVE Counted(key)' = ReportedOn(key)'
      <4>1. key \notin staleKeys /\ positions[key] = frame[w].held
        BY <1>1, <2>k, <3>3 DEF SavePosition
      <4>2. Counted(key) = ReportedOn(key)
        BY <4>1, <1>f DEF Accounting, FillsCounted
      <4> QED BY <4>1, <4>2, <2>4, <2>6, <3>1 DEF Counted
    <3>4. staleKeys \subseteq staleKeys'
      BY <1>1 DEF SavePosition
    <3> QED BY <3>2, <3>3, <3>4, <2>6 DEF FillsCounted, Accounting
  <2> QED BY <2>7, <2>8, <2>9 DEF Accounting
<1>2. CASE ~ SavePosition(w)
  <2>1. UNCHANGED <<positions, staleKeys>>
    BY <1>2 DEF Execute, store, NoSnapshot, GetLatest, BeginScan, ScanEntry,
         ScanInterrupted, BrokerRejects, BrokerFills, SaveRejected, SaveFilled,
         RespondRejected, ReadPosition, StoreFails
  <2>2. \A k \in Key : Counted(k)' = Counted(k)
    BY <2>1 DEF Counted
  <2>3. PositionsBackedByFills'
    BY <2>2, <1>g DEF PositionsBackedByFills, Accounting
  <2>4. \A k \in Key : ReportedOn(k)' = ReportedOn(k)
    <3>1. \A o \in OrderId \ {id} : orders'[o] = orders[o] /\ outcome'[o] = outcome[o]
      BY DEF Execute, store, Return, TypeOK, NoSnapshot, GetLatest, BeginScan, ScanEntry,
           ScanInterrupted, BrokerRejects, BrokerFills, SaveRejected,
           RespondRejected, SaveFilled, ReadPosition, SavePosition, StoreFails
    <3>2. outcome[id] # "filled" /\ outcome'[id] # "filled"
      BY <1>2, <1>f DEF Execute, Return, TypeOK, NoSnapshot, GetLatest, BeginScan,
           ScanEntry, ScanInterrupted, BrokerRejects, BrokerFills, SaveRejected,
           RespondRejected, SaveFilled, ReadPosition, StoreFails
    <3> QED BY <3>1, <3>2 DEF ReportedOn, FilledOn
  <2>5. FillsCounted'
    BY <2>1, <2>2, <2>4 DEF FillsCounted, Accounting
  <2>6. ASSUME pc'[w] = "save", frame'[w].held # NoPosition
        PROVE  frame'[w].held.counted \subseteq FilledOn(KeyOf(w))'
    <3>1. ReadPosition(w)
      BY <2>6, <1>2 DEF Execute, Goto, TypeOK, NoSnapshot, GetLatest, BeginScan,
           ScanEntry, ScanInterrupted, BrokerRejects, BrokerFills, SaveRejected,
           RespondRejected, SaveFilled, StoreFails
    <3>2. frame'[w].held = positions[KeyOf(w)] /\ orders' = orders
      BY <3>1, <1>f DEF ReadPosition, store, Frame, TypeOK
    <3>3. KeyOf(w)' = KeyOf(w)
      BY <1>f, <2>6, FrameStep, OthersUntouched DEF Control, KeyOf, RequestOf
    <3> QED BY <2>6, <3>2, <3>3, <1>f DEF Accounting, PositionsBackedByFills, Counted, FilledOn
  <2>7. HeldBackedByFills'
    BY <2>6, <1>o, <1>g, <1>k DEF HeldBackedByFills, Accounting
  <2> QED BY <2>3, <2>5, <2>7 DEF Accounting
<1> QED BY <1>1, <1>2

(* Neither a new request nor a quote moves a fill or a position.           *)
LEMMA OtherAccounting ==
  ASSUME TypeOK, TypeOK', Control, Accounting,
         \/ \E m \in Markets, q \in Quotes \union {NoQuote} : QuoteArrives(m, q)
         \/ \E w \in Workers, request \in Request : Submit(w, request)
         \/ UNCHANGED vars
  PROVE  Accounting'
<1>1. UNCHANGED <<orders, positions, staleKeys, outcome>>
  BY DEF QuoteArrives, Submit, vars, store
<1>2. \A k \in Key : /\ FilledOn(k)' = FilledOn(k) /\ Counted(k)' = Counted(k)
                      /\ ReportedOn(k)' = ReportedOn(k)
  BY <1>1 DEF FilledOn, Counted, ReportedOn
<1>3. PositionsBackedByFills' /\ FillsCounted'
  BY <1>1, <1>2 DEF PositionsBackedByFills, FillsCounted, Accounting
<1>4. HeldBackedByFills'
  <2>1. ASSUME NEW v \in Workers, pc'[v] = "save"
        PROVE  /\ pc[v] = "save" /\ frame'[v] = frame[v] /\ KeyOf(v)' = KeyOf(v)
               /\ KeyOf(v) \in Key
    <3>1. CASE \E w \in Workers, request \in Request : Submit(w, request)
      <4>1. PICK w \in Workers, request \in Request : Submit(w, request)
        BY <3>1
      <4>2. v # w /\ pc[v] = "save" /\ frame'[v] = frame[v]
        BY <2>1, <4>1 DEF Submit, Goto, TypeOK
      <4>3. Running(v)
        BY <4>2 DEF Control, RunningIffNotIdle
      <4> QED BY <4>1, <4>2, <4>3, SubmitControl, RunningTyped DEF Control
    <3>2. CASE \/ \E m \in Markets, q \in Quotes \union {NoQuote} : QuoteArrives(m, q)
               \/ UNCHANGED vars
      <4>1. UNCHANGED <<pc, frame, requests>>
        BY <3>2 DEF QuoteArrives, vars
      <4> QED BY <2>1, <4>1, RunningTyped DEF Control, KeyOf, RequestOf
    <3> QED BY <3>1, <3>2
  <2> QED BY <2>1, <1>2 DEF HeldBackedByFills, Accounting
<1> QED BY <1>3, <1>4 DEF Accounting

(* Nothing is ordered and nothing held at the start.                       *)
LEMMA InitIInv == Init => IInv
<1> SUFFICES ASSUME Init PROVE IInv
  OBVIOUS
<1> USE DEF Init
<1>1. TypeOK
  BY TradingAssumption DEF TypeOK, PC, Answer
<1>2. Control
  BY DEF Control, RunningIffNotIdle, RunsOwnRequest, UnsubmittedUntouched,
       LocalsRead, EntriesArePositions, OrderSavedInTurn, Running
<1>3. \A k \in Key : FilledOn(k) = {} /\ Counted(k) = {} /\ ReportedOn(k) = {}
  BY DEF FilledOn, Counted, ReportedOn
<1>4. Accounting
  BY <1>3 DEF Accounting, HeldBackedByFills, PositionsBackedByFills, FillsCounted
<1> QED BY <1>1, <1>2, <1>4 DEF IInv, Accounting

(* The invariant is inductive.                                             *)
LEMMA StepIInv == IInv /\ [Next]_vars => IInv'
<1> SUFFICES ASSUME IInv, [Next]_vars PROVE IInv'
  OBVIOUS
<1>1. TypeOK /\ Control /\ Accounting
  BY DEF IInv, Accounting
<1>2. TypeOK'
  BY <1>1, TypeStep DEF Control
<1>3. Control'
  BY <1>1, <1>2, ControlStep
<1>4. Accounting'
  BY <1>1, <1>2, ExecuteAccounting, OtherAccounting DEF Next
<1> QED BY <1>2, <1>3, <1>4 DEF IInv, Accounting

(* The inductive invariant holds of every behaviour. *)
THEOREM Invariance == Spec => []IInv
BY InitIInv, StepIInv, PTL DEF Spec

(* Everything stored and every local of a request is of its class.         *)
THEOREM TypeCorrect == Spec => []TypeOK
<1>1. IInv => TypeOK
  BY DEF IInv
<1> QED BY <1>1, Invariance, PTL

(* A position is computed from filled orders of its own portfolio and      *)
(* market only, for any number of workers and with failing repositories.   *)
THEOREM RejectionsLeaveNoTrace == Spec => []PositionsBackedByFills
<1>1. IInv => PositionsBackedByFills
  BY DEF IInv
<1> QED BY <1>1, Invariance, PTL

(* A position that was never overwritten with a stale value counts exactly *)
(* the fills reported to clients.                                          *)
THEOREM ReportedFillsCounted == Spec => []FillsCounted
<1>1. IInv => FillsCounted
  BY DEF IInv
<1> QED BY <1>1, Invariance, PTL

----------------------------------------------------------------------------
(* With one worker nothing that was read is stale when it is used.         *)
LEMMA SerialStep ==
  ASSUME NEW w \in Workers, Workers = {w}, SerialIInv(w), [Next]_vars
  PROVE  SerialIInv(w)'
<1>1. TypeOK /\ Control /\ IInv'
  BY StepIInv DEF SerialIInv, IInv
<1>2. CASE Execute(w)
  <2>0. pc[w] # "idle" /\ frame[w] \in Frame /\ requests' = requests
    BY <1>1, <1>2, OthersUntouched, RunningTyped DEF Control
  <2>1. CASE SavePosition(w)
    BY <2>1, <1>1 DEF SavePosition, Goto, TypeOK, SerialIInv
  <2>2. CASE ReadPosition(w)
    <3>1. pc'[w] = "save" /\ frame'[w].held = positions[KeyOf(w)]
      BY <2>2, <2>0, <1>1 DEF ReadPosition, Goto, Frame, TypeOK
    <3>2. KeyOf(w)' = KeyOf(w)
      BY <1>1, <1>2, <2>0, <3>1, FrameStep DEF Control, KeyOf, RequestOf
    <3>3. UNCHANGED <<positions, staleKeys>>
      BY <2>2 DEF ReadPosition, store
    <3> QED BY <1>1, <3>1, <3>2, <3>3 DEF SerialIInv
  <2>3. CASE BeginScan(w)
    <3>1. pc'[w] = "scan" /\ frame'[w].scan.size = Len(entries)
      BY <2>3, <2>0, <1>1 DEF BeginScan, ScanStart, Goto, Frame, TypeOK
    <3>2. UNCHANGED <<entries, staleKeys>>
      BY <2>3 DEF BeginScan, store
    <3> QED BY <1>1, <3>1, <3>2 DEF SerialIInv
  <2>4. CASE ScanEntry(w)
    <3>1. pc'[w] = "scan" /\ frame'[w].scan.size = frame[w].scan.size
      BY <2>4, <2>0, <1>1 DEF ScanEntry, ScanAdvance, Goto, Frame, TypeOK
    <3>2. UNCHANGED <<entries, staleKeys>> /\ pc[w] = "scan"
      BY <2>4 DEF ScanEntry, Goto, store
    <3> QED BY <1>1, <3>1, <3>2 DEF SerialIInv
  <2>5. CASE ~ (SavePosition(w) \/ ReadPosition(w) \/ BeginScan(w) \/ ScanEntry(w))
    <3>1. pc'[w] \notin {"save", "scan"} /\ UNCHANGED staleKeys
      BY <1>1, <1>2, <2>5 DEF Execute, Goto, store, TypeOK, NoSnapshot, GetLatest,
           ScanInterrupted, BrokerRejects, BrokerFills, SaveRejected,
           RespondRejected, SaveFilled, StoreFails
    <3> QED BY <1>1, <3>1 DEF SerialIInv
  <2> QED BY <2>1, <2>2, <2>3, <2>4, <2>5
<1>3. CASE \E request \in Request : Submit(w, request)
  <2>1. pc'[w] = "quote" /\ UNCHANGED staleKeys
    BY <1>1, <1>3 DEF Submit, Goto, store, TypeOK
  <2> QED BY <1>1, <2>1 DEF SerialIInv
<1>4. CASE \/ \E m \in Markets, q \in Quotes \union {NoQuote} : QuoteArrives(m, q)
           \/ UNCHANGED vars
  <2>1. UNCHANGED <<store, pc, frame, requests>>
    BY <1>4 DEF QuoteArrives, vars, store
  <2> QED BY <1>1, <2>1 DEF SerialIInv, store, KeyOf, RequestOf
<1> QED BY <1>2, <1>3, <1>4 DEF Next

(* Nothing is stale at the start.                                          *)
LEMMA SerialInit ==
  ASSUME NEW w \in Workers, Init PROVE SerialIInv(w)
BY InitIInv DEF SerialIInv, Init

(* A server that runs one request at a time loses no fill: every position  *)
(* counts exactly the fills reported to clients.                           *)
THEOREM SerialLosesNothing ==
  ASSUME NEW w \in Workers, Workers = {w}
  PROVE  Spec => [](FillsCounted /\ staleKeys = {})
<1>1. Init => SerialIInv(w)
  BY SerialInit
<1>2. SerialIInv(w) /\ [Next]_vars => SerialIInv(w)'
  BY SerialStep
<1>3. SerialIInv(w) => FillsCounted /\ staleKeys = {}
  BY DEF SerialIInv, IInv
<1> QED BY <1>1, <1>2, <1>3, PTL DEF Spec

(* A server that runs one request at a time on repositories that do not    *)
(* raise never fails a request: the iteration over the positions is only   *)
(* ever interrupted by another request.                                    *)
NoErrors == \A o \in OrderId : outcome[o] # "error"

(* A single worker never sees the dict grow under its iteration.           *)
THEOREM SerialNeverErrs ==
  ASSUME NEW w \in Workers, Workers = {w}, ~ StoreMayFail
  PROVE  Spec => []NoErrors
<1>1. Init => SerialIInv(w) /\ NoErrors
  BY SerialInit DEF Init, NoErrors
<1>2. ASSUME SerialIInv(w), NoErrors, [Next]_vars
      PROVE  SerialIInv(w)' /\ NoErrors'
  <2>1. SerialIInv(w)'
    BY <1>2, SerialStep
  <2>2. CASE Execute(w)
    <3>1. ~ ScanInterrupted(w) /\ ~ StoreFails(w)
      BY <1>2 DEF ScanInterrupted, StoreFails, SerialIInv, Goto
    <3> QED BY <2>1, <2>2, <3>1, <1>2 DEF Execute, NoErrors, Return, SerialIInv, IInv, TypeOK,
           NoSnapshot, GetLatest, BeginScan, ScanEntry, BrokerRejects, BrokerFills,
           SaveRejected, RespondRejected, SaveFilled, ReadPosition, SavePosition
  <2>3. CASE ~ Execute(w)
    <3>1. outcome' = outcome
      BY <1>2, <2>3 DEF Next, QuoteArrives, Submit, vars
    <3> QED BY <2>1, <3>1, <1>2 DEF NoErrors
  <2> QED BY <2>2, <2>3
<1> QED BY <1>1, <1>2, PTL DEF Spec

----------------------------------------------------------------------------
(* The sums of a set of orders, whatever the order repository holds. *)
QuantityIn(book, S) == SumFunction([o \in S |-> book[o].quantity])

NotionalIn(book, S) ==
  SumFunction([o \in S |-> book[o].limitPrice * book[o].quantity])

PositiveQuantities == Quantities \subseteq Nat \ {0}

(* How far the cost of a position is from the sum of its notionals.        *)
ErrorIn(position, book) ==
  CostScale * NotionalIn(book, position.counted)
    - position.avgCost * position.netQuantity

(* A position is what a set of answered orders adds up to.  The code drops *)
(* the cost of a position that is not positive, so the cost is only near   *)
(* the sum when no quantity takes one there.                               *)
AddsUp(position, book, answers) ==
  /\ position.netQuantity = QuantityIn(book, position.counted)
  /\ PositiveQuantities =>
       /\ position.netQuantity > 0
       /\ Cardinality(position.counted) >= 1
       /\ 0 <= ErrorIn(position, book)
       /\ ErrorIn(position, book)
            <= (Cardinality(position.counted) - 1) * position.netQuantity
  /\ \A o \in position.counted : answers[o] = "filled"

(* The fill of a request is of its quantity, and saved as it was made.     *)
FillIsOrdered ==
  \A w \in Workers :
    /\ pc[w] \in {"fill", "read", "save"} =>
         frame[w].fill.quantity = RequestOf(w).quantity
    /\ pc[w] \in {"read", "save"} =>
         /\ orders[frame[w].id].quantity = frame[w].fill.quantity
         /\ orders[frame[w].id].limitPrice = frame[w].fill.price

StoredAddUp ==
  \A k \in Key : positions[k] # NoPosition => AddsUp(positions[k], orders, outcome)

HeldAddUp ==
  \A w \in Workers : pc[w] = "save" /\ frame[w].held # NoPosition =>
    AddsUp(frame[w].held, orders, outcome)

SumIInv == IInv /\ FillIsOrdered /\ StoredAddUp /\ HeldAddUp

LEMMA OrderIdsAreFinite == IsFiniteSet(OrderId)
BY FS_Interval, TradingAssumption DEF OrderId

(* The sums of no order are 0, and one order more adds its own.            *)
LEMMA OrderAdds ==
  ASSUME NEW book \in [OrderId -> Order \union {NoOrder}],
         NEW S \in SUBSET OrderId, NEW o \in OrderId, o \notin S,
         \A x \in S \union {o} : book[x] # NoOrder
  PROVE  /\ QuantityIn(book, {}) = 0 /\ NotionalIn(book, {}) = 0
         /\ QuantityIn(book, S) \in Int /\ NotionalIn(book, S) \in Int
         /\ QuantityIn(book, S \union {o}) = QuantityIn(book, S) + book[o].quantity
         /\ NotionalIn(book, S \union {o})
              = NotionalIn(book, S) + book[o].limitPrice * book[o].quantity
<1> DEFINE quantity(T) == [x \in T |-> book[x].quantity]
           notional(T) == [x \in T |-> book[x].limitPrice * book[x].quantity]
           T1 == S \union {o}
<1>1. \A x \in T1 : book[x].quantity \in Int /\ book[x].limitPrice \in Int
  BY DEF Order
<1>2. \A x \in T1 : book[x].limitPrice * book[x].quantity \in Int
  BY <1>1
<1>3. IsFiniteSet(S)
  BY OrderIdsAreFinite, FS_Subset
<1>4. quantity(S) \in [S -> Int] /\ quantity(T1) \in [T1 -> Int]
  BY <1>1
<1>5. notional(S) \in [S -> Int] /\ notional(T1) \in [T1 -> Int]
  BY <1>2
<1>6. quantity({}) \in [{} -> Int] /\ notional({}) \in [{} -> Int]
  OBVIOUS
<1>7. SumFunction(quantity({})) = 0 /\ SumFunction(notional({})) = 0
  BY <1>6, SumFunctionOfNothing
<1>8. SumFunction(quantity(T1)) = SumFunction(quantity(S)) + quantity(T1)[o]
  <2>1. \A x \in S : quantity(T1)[x] = quantity(S)[x]
    OBVIOUS
  <2> DEFINE e == quantity(S)
             f == quantity(T1)
  <2>2. e \in [S -> Int] /\ f \in [S \union {o} -> Int] /\ \A x \in S : f[x] = e[x]
    BY <1>4, <2>1
  <2> HIDE DEF e, f
  <2>3. SumFunction(f) = SumFunction(e) + f[o]
    BY SMTT(40), <1>3, <2>2, SumFunctionAdds
  <2> QED BY <2>3 DEF e, f
<1>9. SumFunction(notional(T1)) = SumFunction(notional(S)) + notional(T1)[o]
  <2>1. \A x \in S : notional(T1)[x] = notional(S)[x]
    OBVIOUS
  <2> DEFINE e == notional(S)
             f == notional(T1)
  <2>2. e \in [S -> Int] /\ f \in [S \union {o} -> Int] /\ \A x \in S : f[x] = e[x]
    BY <1>5, <2>1
  <2> HIDE DEF e, f
  <2>3. SumFunction(f) = SumFunction(e) + f[o]
    BY SMTT(40), <1>3, <2>2, SumFunctionAdds
  <2> QED BY <2>3 DEF e, f
<1>10. SumFunction(quantity(S)) \in Int /\ SumFunction(notional(S)) \in Int
  <2> HIDE DEF quantity, notional
  <2> QED BY <1>3, <1>4, <1>5, SumFunctionTyped
<1>11. /\ quantity(T1)[o] = book[o].quantity
       /\ notional(T1)[o] = book[o].limitPrice * book[o].quantity
  OBVIOUS
<1> QED BY <1>7, <1>8, <1>9, <1>10, <1>11 DEF QuantityIn, NotionalIn

(* Filled orders do not change any more, so what they add up to does not.  *)
LEMMA AddsUpKept ==
  ASSUME NEW book, NEW book1, NEW answers, NEW answers1, NEW position,
         AddsUp(position, book, answers),
         \A o \in position.counted : /\ book1[o] = book[o]
                                     /\ answers1[o] = answers[o]
  PROVE  AddsUp(position, book1, answers1)
<1> DEFINE S == position.counted
<1>1. [o \in S |-> book1[o].quantity] = [o \in S |-> book[o].quantity]
  OBVIOUS
<1>2. [o \in S |-> book1[o].limitPrice * book1[o].quantity]
        = [o \in S |-> book[o].limitPrice * book[o].quantity]
  OBVIOUS
<1>3. QuantityIn(book1, S) = QuantityIn(book, S)
  BY <1>1, Zenon DEF QuantityIn
<1>4. NotionalIn(book1, S) = NotionalIn(book, S)
  BY <1>2, Zenon DEF NotionalIn
<1>5. ErrorIn(position, book1) = ErrorIn(position, book)
  BY <1>4, Zenon DEF ErrorIn
<1> HIDE DEF S
<1> QED BY <1>3, <1>5 DEF AddsUp, S

(* Averaging adds less than one unit for each thing held to the error.     *)
LEMMA AveragingError ==
  ASSUME NEW avg \in Int, NEW held \in Int, held > 0, NEW q \in Int, q > 0,
         NEW cost \in Int, NEW sum \in Int, NEW n \in Nat, n >= 1,
         0 <= sum - avg * held, sum - avg * held <= (n - 1) * held,
         NEW new, new = (avg * held + cost) \div (held + q)
  PROVE  /\ 0 <= (sum + cost) - new * (held + q)
         /\ (sum + cost) - new * (held + q) <= n * (held + q)
<1> DEFINE quantity == held + q
           total == avg * held + cost
           error == sum - avg * held
<1>1. quantity \in Int /\ quantity > 0 /\ total \in Int /\ error \in Int
  OBVIOUS
<1>2. new = total \div quantity
  OBVIOUS
<1>3. (n - 1) * held <= (n - 1) * quantity
  <2>1. (n - 1) * quantity = (n - 1) * held + (n - 1) * q
    OBVIOUS
  <2>2. (n - 1) * q >= 0 /\ (n - 1) * held \in Int
    OBVIOUS
  <2> QED BY <2>1, <2>2
<1>4. (n - 1) * quantity + quantity = n * quantity
  BY <1>1
<1>5. sum + cost = error + total
  OBVIOUS
<1>6. 0 <= error /\ error <= (n - 1) * held
  OBVIOUS
<1> HIDE DEF quantity, total, error
<1>7. new \in Int /\ new * quantity <= total /\ total < new * quantity + quantity
  BY <1>1, <1>2
<1>8. /\ 0 <= (error + total) - new * quantity
      /\ (error + total) - new * quantity <= n * quantity
  <2>1. PICK x \in Int : x = new * quantity
    BY <1>1, <1>7
  <2>2. PICK y \in Int : y = (n - 1) * quantity
    BY <1>1
  <2>3. (n - 1) * held \in Int
    OBVIOUS
  <2>4. PICK z \in Int : z = (n - 1) * held
    BY <2>3
  <2> QED BY <1>1, <1>3, <1>4, <1>6, <1>7, <2>1, <2>2, <2>4
<1> QED BY <1>5, <1>8 DEF quantity

(* The position saved for an order adds up to that order and to what the   *)
(* position read before did.                                               *)
LEMMA SavedAddsUp ==
  ASSUME NEW book \in [OrderId -> Order \union {NoOrder}],
         NEW answers \in [OrderId -> Answer \union {"none"}],
         NEW id \in OrderId, book[id] # NoOrder, answers[id] = "none",
         NEW side \in OrderSide, NEW fill \in Fill,
         PositiveQuantities => fill.quantity > 0,
         book[id].quantity = fill.quantity, book[id].limitPrice = fill.price
  PROVE  /\ AddsUp(NewPosition(id, side, fill), book, [answers EXCEPT ![id] = "filled"])
         /\ \A old \in Position :
              AddsUp(old, book, answers) /\ (\A o \in old.counted : book[o] # NoOrder) =>
                AddsUp(UpdatedPosition(id, side, fill, old), book,
                       [answers EXCEPT ![id] = "filled"])
<1> DEFINE after == [answers EXCEPT ![id] = "filled"]
<1>0. /\ fill.price \in Int /\ fill.quantity \in Int
      /\ fill.price * fill.quantity \in Int
      /\ after[id] = "filled" /\ \A o \in OrderId \ {id} : after[o] = answers[o]
  BY DEF Fill
<1> HIDE DEF after
<1>1. AddsUp(NewPosition(id, side, fill), book, after)
  <2>1. {} \union {id} = {id}
    OBVIOUS
  <2>2. /\ QuantityIn(book, {} \union {id}) = fill.quantity
        /\ NotionalIn(book, {} \union {id}) = fill.price * fill.quantity
    <3> DEFINE none == {}
    <3>1. none \in SUBSET OrderId /\ id \notin none /\ \A x \in none \union {id} : book[x] # NoOrder
      OBVIOUS
    <3>2. QuantityIn(book, none) = 0 /\ NotionalIn(book, none) = 0
      BY <3>1, OrderAdds
    <3> HIDE DEF none
    <3>3. /\ QuantityIn(book, none \union {id}) = 0 + book[id].quantity
          /\ NotionalIn(book, none \union {id}) = 0 + book[id].limitPrice * book[id].quantity
      BY <3>1, <3>2, OrderAdds, Zenon
    <3> QED BY <1>0, <3>3 DEF none
  <2>3. QuantityIn(book, {id}) = fill.quantity /\ NotionalIn(book, {id}) = fill.price * fill.quantity
    BY <2>1, <2>2, Zenon
  <2> DEFINE new == NewPosition(id, side, fill)
  <2>4. /\ new.counted = {id} /\ new.netQuantity = fill.quantity
        /\ new.avgCost = CostScale * fill.price
    BY DEF NewPosition
  <2>5. Cardinality({id}) = 1
    BY FS_Singleton
  <2>6. CostScale * (fill.price * fill.quantity) - CostScale * fill.price * fill.quantity = 0
    BY <1>0, TradingAssumption
  <2>7. ErrorIn(new, book) = 0
    BY <2>3, <2>4, <2>6 DEF ErrorIn
  <2>8. (Cardinality(new.counted) - 1) * new.netQuantity = 0
    BY <1>0, <2>4, <2>5
  <2> HIDE DEF new
  <2>9. /\ new.netQuantity = QuantityIn(book, new.counted)
        /\ \A o \in new.counted : after[o] = "filled"
    BY <1>0, <2>3, <2>4
  <2>10. PositiveQuantities => new.netQuantity > 0
    BY <2>4
  <2>11. Cardinality(new.counted) >= 1
    BY <2>4, <2>5
  <2> QED BY <2>7, <2>8, <2>9, <2>10, <2>11 DEF AddsUp, new
<1>2. ASSUME NEW old \in Position, AddsUp(old, book, answers),
             \A o \in old.counted : book[o] # NoOrder
      PROVE  AddsUp(UpdatedPosition(id, side, fill, old), book, after)
  <2> DEFINE S == old.counted
             new == UpdatedPosition(id, side, fill, old)
  <2>1. S \in SUBSET OrderId /\ id \notin S /\ old.netQuantity \in Int /\ old.avgCost \in Int
    BY <1>2 DEF AddsUp, Position
  <2>2. /\ QuantityIn(book, S \union {id}) = QuantityIn(book, S) + fill.quantity
        /\ NotionalIn(book, S \union {id}) = NotionalIn(book, S) + fill.price * fill.quantity
    <3>1. \A x \in S \union {id} : book[x] # NoOrder
      BY <1>2
    <3> HIDE DEF S
    <3>2. /\ QuantityIn(book, S \union {id}) = QuantityIn(book, S) + book[id].quantity
          /\ NotionalIn(book, S \union {id})
               = NotionalIn(book, S) + book[id].limitPrice * book[id].quantity
      BY <2>1, <3>1, OrderAdds
    <3> QED BY <3>2
  <2>3. /\ new.counted = S \union {id}
        /\ new.netQuantity = old.netQuantity + fill.quantity
        /\ new.netQuantity > 0 =>
             new.avgCost = (old.avgCost * old.netQuantity + CostScale * fill.price * fill.quantity)
                             \div new.netQuantity
    BY DEF UpdatedPosition, TotalCost
  <2>4. /\ QuantityIn(book, new.counted) = QuantityIn(book, S) + fill.quantity
        /\ NotionalIn(book, new.counted) = NotionalIn(book, S) + fill.price * fill.quantity
    BY <2>2, <2>3, Zenon
  <2>5. /\ old.netQuantity = QuantityIn(book, S)
        /\ PositiveQuantities =>
             /\ old.netQuantity > 0 /\ Cardinality(S) >= 1
             /\ 0 <= ErrorIn(old, book)
             /\ ErrorIn(old, book) <= (Cardinality(S) - 1) * old.netQuantity
        /\ \A o \in S : answers[o] = "filled"
    BY <1>2 DEF AddsUp
  <2>6. \A o \in new.counted : after[o] = "filled"
    BY <1>0, <2>1, <2>3, <2>5
  <2> HIDE DEF new, S
  <2>7. PositiveQuantities => new.netQuantity > 0
    BY <1>0, <2>1, <2>3, <2>5
  <2>8. new.netQuantity = QuantityIn(book, new.counted)
    BY <2>3, <2>4, <2>5
  <2>9. Cardinality(new.counted) = Cardinality(S) + 1 /\ Cardinality(S) \in Nat
    <3>1. IsFiniteSet(OrderId)
      BY OrderIdsAreFinite
    <3>2. IsFiniteSet(S)
      BY <2>1, <3>1, FS_Subset
    <3> QED BY <2>1, <2>3, <3>2, FS_AddElement, FS_CardinalityType
  <2>10. ASSUME PositiveQuantities
         PROVE  /\ 0 <= ErrorIn(new, book)
                /\ ErrorIn(new, book) <= (Cardinality(new.counted) - 1) * new.netQuantity
    <3> DEFINE sum == CostScale * NotionalIn(book, S)
               cost == CostScale * fill.price * fill.quantity
    <3>1. NotionalIn(book, S) \in Int
      <4>1. \A x \in S \union {id} : book[x] # NoOrder
        BY <1>2 DEF S
      <4> QED BY <2>1, <4>1, OrderAdds
    <3>2. sum \in Int /\ cost \in Int
      BY <1>0, <3>1, TradingAssumption
    <3>3. CostScale * NotionalIn(book, new.counted) = sum + cost
      <4>1. CostScale * (NotionalIn(book, S) + fill.price * fill.quantity)
              = CostScale * NotionalIn(book, S) + CostScale * fill.price * fill.quantity
        BY <1>0, <3>1, TradingAssumption
      <4> QED BY <2>4, <4>1
    <3>4. ErrorIn(old, book) = sum - old.avgCost * old.netQuantity
      BY DEF ErrorIn, S
    <3>5. ErrorIn(new, book) = (sum + cost) - new.avgCost * new.netQuantity
      BY <3>3, Zenon DEF ErrorIn
    <3>6. /\ old.netQuantity > 0 /\ fill.quantity > 0 /\ Cardinality(S) >= 1
          /\ 0 <= sum - old.avgCost * old.netQuantity
          /\ sum - old.avgCost * old.netQuantity <= (Cardinality(S) - 1) * old.netQuantity
      BY <2>5, <2>10, <3>4
    <3>7. new.avgCost = (old.avgCost * old.netQuantity + cost)
                          \div (old.netQuantity + fill.quantity)
      BY <2>3, <2>7, <2>10
    <3> HIDE DEF sum, cost
    <3>8. /\ 0 <= (sum + cost) - new.avgCost * (old.netQuantity + fill.quantity)
          /\ (sum + cost) - new.avgCost * (old.netQuantity + fill.quantity)
               <= Cardinality(S) * (old.netQuantity + fill.quantity)
      BY <1>0, <2>1, <2>9, <3>2, <3>6, <3>7, AveragingError
    <3>9. Cardinality(new.counted) - 1 = Cardinality(S)
      BY <2>9
    <3> QED BY <2>3, <3>5, <3>8, <3>9
  <2>11. PositiveQuantities => Cardinality(new.counted) >= 1
    BY <2>9
  <2> QED BY <2>6, <2>7, <2>8, <2>10, <2>11 DEF AddsUp, new
<1> QED BY <1>1, <1>2 DEF after

(* Whatever a position counts stays as it is: a saved order is not saved   *)
(* again, and an answer not given twice.                                   *)
LEMMA CountedKept ==
  ASSUME TypeOK, Control, NEW w \in Workers, Execute(w)
  PROVE  /\ \A o \in OrderId : orders[o] # NoOrder => orders'[o] = orders[o]
         /\ \A o \in OrderId : outcome[o] # "none" => outcome'[o] = outcome[o]
<1> DEFINE id == frame[w].id
<1>1. pc[w] # "idle"
  BY OthersUntouched DEF Control
<1>2. frame[w] \in Frame /\ id \in OrderId /\ outcome[id] = "none"
  BY <1>1, RunningTyped DEF Control
<1>3. \A o \in OrderId \ {id} : orders'[o] = orders[o] /\ outcome'[o] = outcome[o]
  BY DEF Execute, store, Return, TypeOK, NoSnapshot, GetLatest, BeginScan, ScanEntry,
       ScanInterrupted, BrokerRejects, BrokerFills, SaveRejected,
       RespondRejected, SaveFilled, ReadPosition, SavePosition, StoreFails
<1>4. orders[id] # NoOrder => orders'[id] = orders[id]
  <2>1. CASE SaveRejected(w) \/ SaveFilled(w)
    BY <2>1, <1>2 DEF SaveRejected, SaveFilled, Goto, Control, OrderSavedInTurn
  <2>2. CASE ~ SaveRejected(w) /\ ~ SaveFilled(w)
    <3>1. orders' = orders
      BY <2>2 DEF Execute, store, NoSnapshot, GetLatest, BeginScan, ScanEntry,
           ScanInterrupted, BrokerRejects, BrokerFills, RespondRejected,
           ReadPosition, SavePosition, StoreFails
    <3> QED BY <3>1
  <2> QED BY <2>1, <2>2
<1> QED BY <1>2, <1>3, <1>4

(* A step of a request keeps its fill the one it ordered.                  *)
LEMMA ExecuteFillIsOrdered ==
  ASSUME TypeOK, TypeOK', Control, FillIsOrdered, NEW w \in Workers, Execute(w)
  PROVE  FillIsOrdered'
<1>o. /\ pc[w] # "idle" /\ Running(w) /\ requests' = requests
      /\ \A v \in Workers \ {w} :
           /\ pc'[v] = pc[v] /\ frame'[v] = frame[v]
           /\ Running(v) => orders'[frame[v].id] = orders[frame[v].id]
  BY OthersUntouched DEF Control
<1>f. frame[w] \in Frame /\ frame[w].id \in OrderId /\ RequestOf(w) \in Request
  BY <1>o, RunningTyped DEF Control
<1>1. ASSUME NEW v \in Workers \ {w}
      PROVE  /\ pc'[v] \in {"fill", "read", "save"} =>
                  frame'[v].fill.quantity = RequestOf(v)'.quantity
             /\ pc'[v] \in {"read", "save"} =>
                  /\ orders'[frame'[v].id].quantity = frame'[v].fill.quantity
                  /\ orders'[frame'[v].id].limitPrice = frame'[v].fill.price
  BY <1>o DEF FillIsOrdered, RequestOf, Control, RunningIffNotIdle
<1>2. /\ pc'[w] \in {"fill", "read", "save"} =>
           frame'[w].fill.quantity = RequestOf(w)'.quantity
      /\ pc'[w] \in {"read", "save"} =>
           /\ orders'[frame'[w].id].quantity = frame'[w].fill.quantity
           /\ orders'[frame'[w].id].limitPrice = frame'[w].fill.price
  <2>1. CASE BrokerFills(w)
    <3>1. /\ pc'[w] = "fill" /\ frame'[w].id = frame[w].id
          /\ frame'[w].fill = FillOf(RequestOf(w).side, RequestOf(w).quantity, frame[w].quote)
      BY <2>1, <1>f DEF BrokerFills, Goto, Frame, TypeOK
    <3>2. RequestOf(w)' = RequestOf(w)
      BY <3>1, <1>o DEF RequestOf
    <3> QED BY <3>1, <3>2 DEF FillOf
  <2>2. CASE SaveFilled(w)
    <3>1. /\ pc[w] = "fill" /\ pc'[w] = "read" /\ frame' = frame
          /\ orders'[frame[w].id] = OrderOf(RequestOf(w), "FILLED", frame[w].fill.price)
      BY <2>2, <1>f DEF SaveFilled, Goto, TypeOK
    <3>2. RequestOf(w)' = RequestOf(w) /\ frame[w].fill.quantity = RequestOf(w).quantity
      BY <3>1, <1>o DEF RequestOf, FillIsOrdered
    <3> QED BY <3>1, <3>2 DEF OrderOf
  <2>3. CASE ReadPosition(w)
    <3>1. /\ pc[w] = "read" /\ pc'[w] = "save" /\ orders' = orders
          /\ frame'[w].id = frame[w].id /\ frame'[w].fill = frame[w].fill
      BY <2>3, <1>f DEF ReadPosition, Goto, store, Frame, TypeOK
    <3>2. RequestOf(w)' = RequestOf(w)
      BY <3>1, <1>o DEF RequestOf
    <3> QED BY <3>1, <3>2 DEF FillIsOrdered
  <2>4. CASE ~ (BrokerFills(w) \/ SaveFilled(w) \/ ReadPosition(w))
    BY <2>4 DEF Execute, Goto, TypeOK, NoSnapshot, GetLatest, BeginScan, ScanEntry,
         ScanInterrupted, BrokerRejects, SaveRejected, RespondRejected,
         SavePosition, StoreFails
  <2> QED BY <2>1, <2>2, <2>3, <2>4
<1> QED BY <1>1, <1>2 DEF FillIsOrdered

(* A step of a request keeps every position the sum of what it counts.     *)
LEMMA ExecuteAddUp ==
  ASSUME TypeOK, Control, Accounting, FillIsOrdered, StoredAddUp, HeldAddUp,
         NEW w \in Workers, Execute(w)
  PROVE  StoredAddUp' /\ HeldAddUp'
<1> DEFINE id == frame[w].id
<1>o. /\ pc[w] # "idle" /\ Running(w)
      /\ \A v \in Workers \ {w} : pc'[v] = pc[v] /\ frame'[v] = frame[v]
  BY OthersUntouched DEF Control
<1>f. /\ frame[w] \in Frame /\ id \in OrderId /\ KeyOf(w) \in Key
      /\ RequestOf(w) \in Request /\ outcome[id] = "none"
  BY <1>o, RunningTyped DEF Control
<1>k. \A v \in Workers : pc[v] # "idle" => KeyOf(v) \in Key
  BY RunningTyped DEF Control
<1>a. ASSUME NEW p, NEW k \in Key, p.counted \subseteq FilledOn(k),
             AddsUp(p, orders, outcome)
      PROVE  AddsUp(p, orders', outcome')
  <2>1. \A o \in p.counted : o \in OrderId /\ orders[o] # NoOrder /\ outcome[o] = "filled"
    BY <1>a DEF FilledOn, AddsUp
  <2>2. \A o \in p.counted : orders'[o] = orders[o] /\ outcome'[o] = outcome[o]
    BY <2>1, CountedKept
  <2> QED BY <1>a, <2>2, AddsUpKept
(* What is stored, and what other requests hold, is added up still. *)
<1>b. \A k \in Key : positions[k] # NoPosition => AddsUp(positions[k], orders', outcome')
  <2>1. ASSUME NEW k \in Key, positions[k] # NoPosition
        PROVE  AddsUp(positions[k], orders, outcome)
               /\ positions[k].counted \subseteq FilledOn(k)
    BY <2>1 DEF StoredAddUp, Accounting, PositionsBackedByFills, Counted
  <2> QED BY <1>a, <2>1
<1>c. \A v \in Workers : pc[v] = "save" /\ frame[v].held # NoPosition =>
        AddsUp(frame[v].held, orders', outcome')
  <2>1. ASSUME NEW v \in Workers, pc[v] = "save", frame[v].held # NoPosition
        PROVE  /\ AddsUp(frame[v].held, orders, outcome) /\ KeyOf(v) \in Key
               /\ frame[v].held.counted \subseteq FilledOn(KeyOf(v))
    BY <2>1, <1>k DEF HeldAddUp, Accounting, HeldBackedByFills
  <2> QED BY <1>a, <2>1
<1>1. CASE SavePosition(w)
  <2>k. PICK key \in Key : key = KeyOf(w)
    BY <1>f
  <2>s. PICK saved : saved = PositionToSave(w)
    OBVIOUS
  <2>h. PICK held : held = frame[w].held
    OBVIOUS
  <2>1. /\ pc[w] = "save" /\ pc'[w] = "idle"
        /\ positions' = [positions EXCEPT ![key] = saved]
        /\ outcome' = [outcome EXCEPT ![id] = "filled"]
        /\ orders' = orders
    BY <1>1, <2>k, <2>s DEF SavePosition, Goto, Return, TypeOK
  <2>2. /\ frame[w].fill \in Fill /\ RequestOf(w).side \in OrderSide
        /\ frame[w].held \in Position \union {NoPosition}
    BY <2>1, <1>f DEF Control, LocalsRead, Frame, Request
  <2>3. /\ orders[id] # NoOrder /\ orders[id].quantity = frame[w].fill.quantity
        /\ orders[id].limitPrice = frame[w].fill.price
        /\ PositiveQuantities => frame[w].fill.quantity > 0
    BY <2>1, <1>f DEF Control, OrderSavedInTurn, FilledOn, FillIsOrdered,
         PositiveQuantities, Request
  <2>4. AddsUp(saved, orders', outcome')
    <3>0. orders \in [OrderId -> Order \union {NoOrder}]
          /\ outcome \in [OrderId -> Answer \union {"none"}]
      BY DEF TypeOK
    <3>1. CASE held = NoPosition
      <4>1. saved = NewPosition(id, RequestOf(w).side, frame[w].fill)
        BY <2>s, <2>h, <3>1 DEF PositionToSave
      <4>2. AddsUp(NewPosition(id, RequestOf(w).side, frame[w].fill), orders,
                   [outcome EXCEPT ![id] = "filled"])
        BY <1>f, <2>2, <2>3, <3>0, SavedAddsUp
      <4> QED BY <2>1, <4>1, <4>2
    <3>2. CASE held # NoPosition
      <4>1. saved = UpdatedPosition(id, RequestOf(w).side, frame[w].fill, held)
        BY <2>s, <2>h, <3>2 DEF PositionToSave
      <4>2. /\ held \in Position /\ AddsUp(held, orders, outcome)
            /\ \A o \in held.counted : orders[o] # NoOrder
        BY <2>1, <2>2, <2>h, <3>2 DEF HeldAddUp, Accounting, HeldBackedByFills, FilledOn
      <4>3. AddsUp(UpdatedPosition(id, RequestOf(w).side, frame[w].fill, held), orders,
                   [outcome EXCEPT ![id] = "filled"])
        BY <1>f, <2>2, <2>3, <3>0, <4>2, SavedAddsUp
      <4> QED BY <2>1, <4>1, <4>3
    <3> QED BY <3>1, <3>2
  <2>5. StoredAddUp'
    <3>1. \A k \in Key : positions'[k] = IF k = key THEN saved ELSE positions[k]
      BY <2>1 DEF TypeOK
    <3> QED BY <1>b, <2>4, <3>1 DEF StoredAddUp
  <2>6. HeldAddUp'
    BY <1>c, <1>o, <2>1 DEF HeldAddUp
  <2> QED BY <2>5, <2>6
<1>2. CASE ~ SavePosition(w)
  <2>1. positions' = positions
    BY <1>2 DEF Execute, store, NoSnapshot, GetLatest, BeginScan, ScanEntry,
         ScanInterrupted, BrokerRejects, BrokerFills, SaveRejected, SaveFilled,
         RespondRejected, ReadPosition, StoreFails
  <2>2. StoredAddUp'
    BY <1>b, <2>1 DEF StoredAddUp
  <2>3. ASSUME pc'[w] = "save", frame'[w].held # NoPosition
        PROVE  AddsUp(frame'[w].held, orders', outcome')
    <3>1. ReadPosition(w)
      BY <2>3, <1>2 DEF Execute, Goto, TypeOK, NoSnapshot, GetLatest, BeginScan,
           ScanEntry, ScanInterrupted, BrokerRejects, BrokerFills, SaveRejected,
           RespondRejected, SaveFilled, StoreFails
    <3>2. frame'[w].held = positions[KeyOf(w)]
      BY <3>1, <1>f DEF ReadPosition, Frame, TypeOK
    <3> QED BY <1>b, <1>f, <2>3, <3>2
  <2>4. HeldAddUp'
    BY <1>c, <1>o, <2>3 DEF HeldAddUp
  <2> QED BY <2>2, <2>4
<1> QED BY <1>1, <1>2

(* Neither a new request nor a quote does.                                 *)
LEMMA OtherAddUp ==
  ASSUME SumIInv, TypeOK',
         \/ \E m \in Markets, q \in Quotes \union {NoQuote} : QuoteArrives(m, q)
         \/ \E w \in Workers, request \in Request : Submit(w, request)
         \/ UNCHANGED vars
  PROVE  FillIsOrdered' /\ StoredAddUp' /\ HeldAddUp'
<1>0. TypeOK /\ Control /\ FillIsOrdered /\ StoredAddUp /\ HeldAddUp
  BY DEF SumIInv, IInv
<1>1. UNCHANGED <<orders, positions, outcome>>
  BY DEF QuoteArrives, Submit, vars, store
<1>2. ASSUME NEW v \in Workers, pc'[v] \in {"fill", "read", "save"}
      PROVE  pc[v] = pc'[v] /\ frame'[v] = frame[v] /\ RequestOf(v)' = RequestOf(v)
  <2>1. CASE \E w \in Workers, request \in Request : Submit(w, request)
    <3>1. PICK w \in Workers, request \in Request : Submit(w, request)
      BY <2>1
    <3>2. v # w /\ pc[v] = pc'[v] /\ frame'[v] = frame[v]
      BY <1>0, <1>2, <3>1 DEF Submit, Goto, TypeOK
    <3>3. frame[v].id \in 1..Len(requests)
      BY <1>0, <1>2, <3>2, RunningTyped DEF Control
    <3>4. requests'[frame[v].id] = requests[frame[v].id]
      BY <1>0, <3>1, <3>3 DEF Submit, TypeOK
    <3> QED BY <3>2, <3>4 DEF RequestOf
  <2>2. CASE \/ \E m \in Markets, q \in Quotes \union {NoQuote} : QuoteArrives(m, q)
             \/ UNCHANGED vars
    BY <2>2 DEF QuoteArrives, vars, RequestOf
  <2> QED BY <2>1, <2>2
<1>3. FillIsOrdered'
  BY <1>0, <1>1, <1>2 DEF FillIsOrdered
<1>4. StoredAddUp' /\ HeldAddUp'
  BY <1>0, <1>1, <1>2 DEF StoredAddUp, HeldAddUp
<1> QED BY <1>3, <1>4

(* The strengthened invariant is inductive.                                *)
LEMMA SumInvariance == Spec => []SumIInv
<1>1. Init => SumIInv
  BY InitIInv DEF SumIInv, FillIsOrdered, StoredAddUp, HeldAddUp, Init
<1>2. ASSUME SumIInv, [Next]_vars PROVE SumIInv'
  <2>1. TypeOK /\ Control /\ Accounting /\ IInv' /\ TypeOK'
    BY <1>2, StepIInv DEF SumIInv, IInv, Accounting
  <2>2. CASE \E w \in Workers : Execute(w)
    BY <1>2, <2>1, <2>2, ExecuteFillIsOrdered, ExecuteAddUp DEF SumIInv
  <2>3. CASE ~ \E w \in Workers : Execute(w)
    BY <1>2, <2>1, <2>3, OtherAddUp DEF SumIInv, Next
  <2> QED BY <2>2, <2>3
<1> QED BY <1>1, <1>2, PTL DEF Spec

(* The quantity of a position is the sum of the fills it counts.           *)
QuantityIsSumOfFills ==
  \A k \in Key : positions[k] # NoPosition =>
    positions[k].netQuantity = SumQuantity(positions[k].counted)

(* So it is for any number of workers, with failing repositories and with  *)
(* any quantities asked for.                                               *)
THEOREM QuantitiesSumFills == Spec => []QuantityIsSumOfFills
<1>1. SumIInv => QuantityIsSumOfFills
  BY DEF SumIInv, StoredAddUp, AddsUp, QuantityIn, QuantityIsSumOfFills, SumQuantity
<1> QED BY <1>1, SumInvariance, PTL

(* And its average cost is their weighted average, up to one 1/CostScale   *)
(* for each averaging, when every quantity asked for is positive: the code *)
(* drops the cost of a position that is not.  For every precision CostScale*)
(* of the averages and every number of fills.                              *)
THEOREM PositionsSumFills ==
  ASSUME Quantities \subseteq Nat \ {0}
  PROVE  Spec => []PositionIsSumOfFills
<1>1. SumIInv => PositionIsSumOfFills
  BY DEF SumIInv, StoredAddUp, AddsUp, ErrorIn, QuantityIn, NotionalIn,
       PositiveQuantities, PositionIsSumOfFills, SumQuantity, SumNotional
<1> QED BY <1>1, SumInvariance, PTL

=============================================================================
