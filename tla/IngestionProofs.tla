-------------------------- MODULE IngestionProofs --------------------------
(***************************************************************************)
(* Theorems about Ingestion for every batch, fault and clock: whatever     *)
(* fails and wherever, what is stored stays well-formed and the summary    *)
(* accounts for every record.                                              *)
(***************************************************************************)
EXTENDS Ingestion, DataTheorems

(* Nothing is stored and nothing is counted at the start.                  *)
LEMMA InitIInv == Init => IInv
<1> SUFFICES ASSUME Init PROVE IInv
  OBVIOUS
<1>1. TypeOK
  <2> USE IngestionAssumption DEF IngestionAssumption
  <2>1. /\ events \in Seq(Event) /\ markets \in Seq(Market)
        /\ snapshots \in Seq(Snapshot) /\ payloads \in Seq(Payload)
    BY DEF Init
  <2>2. /\ clock \in Nat /\ pc \in PC /\ left \in 0..MaxBatch
        /\ record \in Record \union {NoRecord}
    BY DEF Init, PC
  <2>3. market \in 0..Len(markets)
    BY DEF Init
  <2>4. now \in Nat /\ fresh \in BOOLEAN
    BY DEF Init
  <2>5. counts \in Counts
    BY DEF Init, Counts
  <2>6. run \in [number : 0..MaxRuns, size : 0..MaxBatch, markets : Nat, snapshots : Nat]
    BY DEF Init
  <2> QED
    BY <2>1, <2>2, <2>3, <2>4, <2>5, <2>6 DEF TypeOK
<1>2. NoDuplicateMarkets /\ MarketHasItsEvent /\ SnapshotsOfSavedMarkets
  BY DEF Init, NoDuplicateMarkets, MarketHasItsEvent, SnapshotsOfSavedMarkets
<1>3. Control
  BY DEF Init, Control
<1>4. Tally
  BY DEF Init, Tally, Pending, Observed, Created, NewMarkets, NewSnapshots
<1> QED
  BY <1>1, <1>2, <1>3, <1>4 DEF IInv

(* What an exception does to the counters, field by field.                 *)
LEMMA Raised ==
  ASSUME counts \in Counts, Raise
  PROVE  /\ counts' \in Counts
         /\ counts'.saved = counts.saved /\ counts'.ingested = counts.ingested
         /\ counts'.errors = counts.errors + 1
BY DEF Raise, Counts

(* What a record processed to its end does to the counters.                *)
LEMMA Finished ==
  ASSUME counts \in Counts, Finish
  PROVE  /\ counts' \in Counts
         /\ counts'.saved = counts.saved + 1 /\ counts'.errors = counts.errors
         /\ fresh => counts'.ingested = counts.ingested + 1
         /\ ~fresh => counts'.ingested = counts.ingested
<1>1. CASE fresh
  BY <1>1 DEF Finish, Counts
<1>2. CASE ~fresh
  BY <1>2 DEF Finish, Counts
<1> QED
  BY <1>1, <1>2

(* The counters aside, both start the next record from the same state.     *)
LEMMA LocalsReset ==
  ASSUME Raise \/ Finish
  PROVE  pc' = "loop" /\ record' = NoRecord /\ now' = 0 /\ market' = 0 /\ fresh' = FALSE
<1>1. CASE Raise
  BY <1>1 DEF Raise
<1>2. CASE Finish
  BY <1>2 DEF Finish
<1> QED
  BY <1>1, <1>2

(* The market found is a stored one, of the record's identifier.           *)
LEMMA FoundStored ==
  ASSUME TypeOK, NoDuplicateMarkets, FindMarket
  PROVE  market' \in 1..Len(markets)
<1> DEFINE F == Found(record.market)
<1>1. F # {} /\ F \subseteq 1..Len(markets)
  BY DEF FindMarket, Found
<1>2. Len(markets) \in Nat
  BY DEF TypeOK
<1>3. \A i, j \in F : i = j
  BY DEF NoDuplicateMarkets, Found
<1>4. \E i \in F : \A j \in F : i <= j
  BY <1>1, <1>2, <1>3
<1>5. market' \in F
  BY <1>4 DEF FindMarket
<1> QED
  BY <1>1, <1>5

(* What is appended has its type.                                          *)
LEMMA EntityTyped ==
  ASSUME TypeOK, Control, Next
  PROVE  /\ events' \in Seq(Event) /\ markets' \in Seq(Market)
         /\ snapshots' \in Seq(Snapshot) /\ payloads' \in Seq(Payload)
         /\ Len(markets') >= Len(markets)
<1> USE DEF TypeOK, stored
<1>1. CASE CreateEvent
  BY <1>1 DEF CreateEvent, Control, Event, Record
<1>2. CASE CreateMarket
  BY <1>2 DEF CreateMarket, Control, Market, Record
<1>3. CASE SaveSnapshot
  BY <1>3 DEF SaveSnapshot, Control, Snapshot, Record
<1>4. CASE SavePayload
  BY <1>4 DEF SavePayload, Payload
<1>5. CASE ~(CreateEvent \/ CreateMarket \/ SaveSnapshot \/ SavePayload)
  BY <1>5 DEF Next, Fetch, FetchFails, Return, Take, FindMarket, MarketIsNew, RecordFails
<1> QED
  BY <1>1, <1>2, <1>3, <1>4, <1>5

(* A run's number is within its bound.                                     *)
LEMMA NextRun ==
  ASSUME NEW r \in [number : 0..MaxRuns, size : 0..MaxBatch, markets : Nat, snapshots : Nat],
         r.number < MaxRuns
  PROVE  [r EXCEPT !.number = @ + 1]
           \in [number : 0..MaxRuns, size : 0..MaxBatch, markets : Nat, snapshots : Nat]
BY IngestionAssumption DEF IngestionAssumption

(* Every step keeps the types.                                             *)
LEMMA TypeStep == ASSUME TypeOK, Control, NoDuplicateMarkets, Next PROVE TypeOK'
<1>e. /\ events' \in Seq(Event) /\ markets' \in Seq(Market)
      /\ snapshots' \in Seq(Snapshot) /\ payloads' \in Seq(Payload)
      /\ Len(markets') \in Nat /\ Len(markets') >= Len(markets)
  BY EntityTyped
<1> USE IngestionAssumption, <1>e DEF IngestionAssumption, TypeOK, PC, stored, locals
<1>1. ASSUME NEW n \in 0..MaxBatch, Fetch(n) PROVE TypeOK'
  <2>1. counts' \in Counts
    BY <1>1 DEF Fetch, Counts
  <2>2. run' \in [number : 0..MaxRuns, size : 0..MaxBatch, markets : Nat, snapshots : Nat]
    <3>1. run.number + 1 \in 0..MaxRuns /\ Len(markets) \in Nat /\ Len(snapshots) \in Nat
      BY SMTT(40), <1>1 DEF Fetch
    <3> QED
      BY SMTT(40), <1>1, <3>1 DEF Fetch
  <2> QED
    BY <1>1, <2>1, <2>2 DEF Fetch
<1>2. CASE FetchFails
  <2>1. run' \in [number : 0..MaxRuns, size : 0..MaxBatch, markets : Nat, snapshots : Nat]
    BY <1>2, NextRun DEF FetchFails
  <2> QED
    BY <1>2, <2>1 DEF FetchFails
<1>3. CASE Return
  BY <1>3 DEF Return
<1>4. ASSUME NEW r \in Record, NEW tick \in Ticks, Take(r, tick) PROVE TypeOK'
  <2>1. CASE r.fault = "key"
    BY <1>4, <2>1, Raised, LocalsReset DEF Take
  <2>2. CASE r.fault # "key"
    BY <1>4, <2>2 DEF Take
  <2> QED
    BY <2>1, <2>2
<1>5. CASE FindMarket
  BY <1>5, FoundStored DEF FindMarket
<1>6. CASE MarketIsNew
  BY <1>6 DEF MarketIsNew
<1>7. CASE CreateEvent
  BY <1>7 DEF CreateEvent
<1>8. CASE CreateMarket
  <2>1. market' \in 0..Len(markets')
    BY <1>8 DEF CreateMarket
  <2> QED
    BY <1>8, <2>1 DEF CreateMarket
<1>9. CASE SaveSnapshot
  <2>1. CASE KeepPayloads
    BY <1>9, <2>1 DEF SaveSnapshot
  <2>2. CASE ~KeepPayloads
    BY <1>9, <2>2, Finished, LocalsReset DEF SaveSnapshot
  <2> QED
    BY <2>1, <2>2
<1>10. CASE SavePayload
  BY <1>10, Finished, LocalsReset DEF SavePayload
<1>11. CASE RecordFails
  BY <1>11, Raised, LocalsReset DEF RecordFails
<1> QED
  BY <1>1, <1>2, <1>3, <1>4, <1>5, <1>6, <1>7, <1>8, <1>9, <1>10, <1>11 DEF Next

(* Every step keeps what is stored well-formed.                            *)
LEMMA StoreStep ==
  ASSUME TypeOK, TypeOK', Control, NoDuplicateMarkets, MarketHasItsEvent,
         SnapshotsOfSavedMarkets, Next
  PROVE  NoDuplicateMarkets' /\ MarketHasItsEvent' /\ SnapshotsOfSavedMarkets'
<1> USE DEF stored
<1>0. /\ events \in Seq(Event) /\ markets \in Seq(Market)
      /\ snapshots \in Seq(Snapshot) /\ payloads \in Seq(Payload)
  BY DEF TypeOK
<1>1. CASE CreateEvent
  <2>1. /\ markets' = markets /\ snapshots' = snapshots /\ payloads' = payloads
        /\ Len(events') = Len(events) + 1
    BY <1>0, <1>1 DEF CreateEvent
  <2>2. NoDuplicateMarkets' /\ SnapshotsOfSavedMarkets'
    BY <2>1 DEF NoDuplicateMarkets, SnapshotsOfSavedMarkets
  <2>3. \A n \in 1..Len(events) : n \in 1..Len(events') /\ events'[n] = events[n]
    BY <1>0, <1>1, <2>1 DEF CreateEvent
  <2>4. MarketHasItsEvent'
    BY <2>1, <2>3 DEF MarketHasItsEvent
  <2> QED
    BY <2>2, <2>4
<1>2. CASE CreateMarket
  <2>1. /\ events' = events /\ snapshots' = snapshots /\ payloads' = payloads
        /\ Len(markets') = Len(markets) + 1
        /\ \A i \in 1..Len(markets) : markets'[i] = markets[i]
    BY <1>0, <1>2 DEF CreateMarket
  <2>2. /\ markets'[Len(markets')].source = record.market
        /\ markets'[Len(markets')].event = Len(events)
        /\ markets'[Len(markets')].named = record.event
    BY <1>0, <1>2 DEF CreateMarket
  <2>3. /\ \A i \in 1..Len(markets) : markets[i].source # record.market
        /\ Len(events) > 0 /\ events[Len(events)].source = record.event
    BY <1>2 DEF CreateMarket, Control
  <2>4. NoDuplicateMarkets'
    <3> DEFINE n == Len(markets)
    <3>1. \A i, j \in 1..n : markets'[i].source = markets'[j].source => i = j
      BY <2>1 DEF NoDuplicateMarkets
    <3>2. \A i \in 1..n : markets'[i].source # markets'[n + 1].source
      BY <2>1, <2>2, <2>3
    <3>3. n \in Nat /\ Len(markets') = n + 1
      BY <1>0, <2>1
    <3> HIDE DEF n
    <3>4. \A i, j \in 1..(n + 1) : markets'[i].source = markets'[j].source => i = j
      BY <3>1, <3>2, <3>3
    <3> QED
      BY <3>3, <3>4 DEF NoDuplicateMarkets
  <2>5. MarketHasItsEvent'
    <3> DEFINE n == Len(markets)
    <3>1. ASSUME NEW i \in 1..n
          PROVE  /\ markets'[i].event \in 1..Len(events')
                 /\ events'[markets'[i].event].source = markets'[i].named
      BY <2>1, <3>1 DEF MarketHasItsEvent
    <3>2. /\ markets'[n + 1].event \in 1..Len(events')
          /\ events'[markets'[n + 1].event].source = markets'[n + 1].named
      BY <1>0, <2>1, <2>2, <2>3
    <3>3. n \in Nat /\ Len(markets') = n + 1
      BY <1>0, <2>1
    <3> HIDE DEF n
    <3>4. \A i \in 1..Len(markets') : i \in 1..n \/ i = n + 1
      BY <3>3
    <3> QED
      BY <3>1, <3>2, <3>4 DEF MarketHasItsEvent
  <2>6. SnapshotsOfSavedMarkets'
    BY <1>0, <2>1 DEF SnapshotsOfSavedMarkets
  <2> QED
    BY <2>4, <2>5, <2>6
<1>3. CASE SaveSnapshot
  <2>1. /\ events' = events /\ markets' = markets /\ payloads' = payloads
        /\ Len(snapshots') = Len(snapshots) + 1
        /\ \A i \in 1..Len(snapshots) : snapshots'[i] = snapshots[i]
        /\ snapshots'[Len(snapshots')].market = market
    BY <1>0, <1>3 DEF SaveSnapshot
  <2>2. market \in 1..Len(markets)
    BY <1>3 DEF SaveSnapshot, Control, TypeOK
  <2>3. ASSUME NEW i \in 1..Len(snapshots') PROVE snapshots'[i].market \in 1..Len(markets')
    <3>1. CASE i = Len(snapshots')
      BY <2>1, <2>2, <3>1
    <3>2. CASE i # Len(snapshots')
      <4>1. Len(snapshots) \in Nat
        BY <1>0
      <4>2. i \in 1..Len(snapshots)
        BY <2>1, <3>2, <4>1
      <4>3. snapshots[i].market \in 1..Len(markets)
        BY <4>2 DEF SnapshotsOfSavedMarkets
      <4> QED
        BY <2>1, <4>2, <4>3
    <3> QED
      BY <3>1, <3>2
  <2> QED
    BY <2>1, <2>3 DEF NoDuplicateMarkets, MarketHasItsEvent, SnapshotsOfSavedMarkets
<1>4. CASE SavePayload
  <2>1. /\ events' = events /\ markets' = markets /\ snapshots' = snapshots
        /\ Len(payloads') = Len(payloads) + 1
        /\ \A i \in 1..Len(payloads) : payloads'[i] = payloads[i]
        /\ payloads'[Len(payloads')].market = market
    BY <1>0, <1>4 DEF SavePayload
  <2>2. market \in 1..Len(markets)
    BY <1>4 DEF SavePayload, Control, TypeOK
  <2>3. ASSUME NEW i \in 1..Len(payloads') PROVE payloads'[i].market \in 1..Len(markets')
    <3>1. CASE i = Len(payloads')
      BY <2>1, <2>2, <3>1
    <3>2. CASE i # Len(payloads')
      <4>1. Len(payloads) \in Nat
        BY <1>0
      <4>2. i \in 1..Len(payloads)
        BY <2>1, <3>2, <4>1
      <4>3. payloads[i].market \in 1..Len(markets)
        BY <4>2 DEF SnapshotsOfSavedMarkets
      <4> QED
        BY <2>1, <4>2, <4>3
    <3> QED
      BY <3>1, <3>2
  <2> QED
    BY <2>1, <2>3 DEF NoDuplicateMarkets, MarketHasItsEvent, SnapshotsOfSavedMarkets
<1>5. CASE ~(CreateEvent \/ CreateMarket \/ SaveSnapshot \/ SavePayload)
  <2>1. UNCHANGED stored
    BY <1>5 DEF Next, Fetch, FetchFails, Return, Take, FindMarket, MarketIsNew, RecordFails
  <2> QED
    BY <2>1 DEF NoDuplicateMarkets, MarketHasItsEvent, SnapshotsOfSavedMarkets
<1> QED
  BY <1>1, <1>2, <1>3, <1>4, <1>5

(* Every step keeps the record in hand and the market found for it right.  *)
LEMMA ControlStep ==
  ASSUME TypeOK, TypeOK', Control, NoDuplicateMarkets, MarketHasItsEvent, Next
  PROVE  Control'
<1> USE IngestionAssumption DEF IngestionAssumption, stored, locals
<1>0. /\ events \in Seq(Event) /\ markets \in Seq(Market) /\ pc \in PC
      /\ record \in Record \union {NoRecord}
  BY DEF TypeOK
<1>1. ASSUME Raise \/ Finish, left' \in Nat PROVE Control'
  BY <1>1, LocalsReset DEF Control
<1>l. left' \in Nat
  BY DEF TypeOK
<1>2. ASSUME NEW n \in 0..MaxBatch, Fetch(n) PROVE Control'
  BY <1>2 DEF Fetch, Control
<1>3. CASE FetchFails
  BY <1>3 DEF FetchFails, Control
<1>4. CASE Return
  BY <1>4 DEF Return, Control
<1>5. ASSUME NEW r \in Record, NEW tick \in Ticks, Take(r, tick) PROVE Control'
  <2>1. CASE r.fault = "key"
    BY <1>5, <2>1, <1>1, <1>l DEF Take
  <2>2. CASE r.fault # "key"
    BY <1>5, <2>2 DEF Take, Control
  <2> QED
    BY <2>1, <2>2
<1>6. CASE FindMarket
  <2>1. /\ pc = "find" /\ pc' = "snapshot"
        /\ record' = record /\ markets' = markets /\ market' \in 1..Len(markets)
    BY <1>6, FoundStored DEF FindMarket
  <2> QED
    BY <2>1 DEF Control
<1>7. CASE MarketIsNew
  BY <1>7 DEF MarketIsNew, Control, Found
<1>8. CASE CreateEvent
  <2>1. Len(events') = Len(events) + 1
    BY <1>0, <1>8 DEF CreateEvent
  <2>2. events'[Len(events')].source = record.event /\ record' = record
    BY <1>0, <1>8, <2>1 DEF CreateEvent
  <2> QED
    BY <1>0, <1>8, <2>1, <2>2 DEF CreateEvent, Control
<1>9. CASE CreateMarket
  BY <1>0, <1>9 DEF CreateMarket, Control
<1>10. CASE SaveSnapshot
  <2>1. CASE KeepPayloads
    BY <1>10, <2>1 DEF SaveSnapshot, Control
  <2>2. CASE ~KeepPayloads
    BY <1>10, <2>2, <1>1, <1>l DEF SaveSnapshot
  <2> QED
    BY <2>1, <2>2
<1>11. CASE SavePayload
  BY <1>11, <1>1, <1>l DEF SavePayload
<1>12. CASE RecordFails
  BY <1>12, <1>1, <1>l DEF RecordFails
<1> QED
  BY <1>2, <1>3, <1>4, <1>5, <1>6, <1>7, <1>8, <1>9, <1>10, <1>11, <1>12 DEF Next
(* The quantities Tally relates are numbers.                               *)
LEMMA QuantitiesTyped ==
  ASSUME TypeOK
  PROVE  /\ Pending \in Nat /\ Observed \in 0..1 /\ Created \in 0..1
         /\ counts.saved \in Nat /\ counts.errors \in Nat /\ counts.ingested \in Nat
         /\ run.size \in Nat /\ NewMarkets \in Int /\ NewSnapshots \in Int
<1>1. Pending \in Nat
  BY IngestionAssumption DEF TypeOK, IngestionAssumption, Pending
<1>2. Observed \in 0..1 /\ Created \in 0..1
  BY DEF Observed, Created
<1>3. counts.saved \in Nat /\ counts.errors \in Nat /\ counts.ingested \in Nat
  BY DEF TypeOK, Counts
<1>4. /\ run.size \in Nat /\ run.markets \in Nat /\ run.snapshots \in Nat
      /\ markets \in Seq(Market) /\ snapshots \in Seq(Snapshot)
  BY IngestionAssumption DEF TypeOK, IngestionAssumption
<1>5. NewMarkets \in Int /\ NewSnapshots \in Int
  BY <1>4 DEF NewMarkets, NewSnapshots
<1> QED
  BY <1>1, <1>2, <1>3, <1>4, <1>5

(* A step that saves s records and i markets of the batch keeps the tally, *)
(* when what is stored and what is observed move together.                 *)
LEMMA TallyMoves ==
  ASSUME TypeOK, TypeOK', Tally, NEW s \in 0..1, NEW i \in 0..1,
         counts'.saved = counts.saved + s,
         counts'.errors = counts.errors,
         counts'.ingested = counts.ingested + i,
         run'.size = run.size,
         Pending' = Pending - s,
         NewSnapshots' + Observed = NewSnapshots + Observed' + s,
         NewMarkets' + Created = NewMarkets + Created' + i
  PROVE  Tally'
<1>1. /\ Pending \in Nat /\ Observed \in 0..1 /\ Created \in 0..1
      /\ counts.saved \in Nat /\ counts.errors \in Nat /\ counts.ingested \in Nat
      /\ run.size \in Nat /\ NewMarkets \in Int /\ NewSnapshots \in Int
  BY QuantitiesTyped
<1>2. /\ Pending' \in Nat /\ Observed' \in 0..1 /\ Created' \in 0..1
      /\ NewMarkets' \in Int /\ NewSnapshots' \in Int
  <2>1. /\ left' \in Nat /\ run'.markets \in Nat /\ run'.snapshots \in Nat
        /\ markets' \in Seq(Market) /\ snapshots' \in Seq(Snapshot)
    BY IngestionAssumption DEF TypeOK, IngestionAssumption
  <2>2. Pending' \in Nat
    BY <2>1 DEF Pending
  <2>3. Observed' \in 0..1 /\ Created' \in 0..1
    BY DEF Observed, Created
  <2>4. NewMarkets' \in Int /\ NewSnapshots' \in Int
    BY <2>1 DEF NewMarkets, NewSnapshots
  <2> QED
    BY <2>2, <2>3, <2>4
<1>a. counts'.saved + counts'.errors + Pending' = counts.saved + counts.errors + Pending
  BY <1>1
<1>3. counts'.saved + counts'.errors + Pending' = run'.size
  BY <1>a DEF Tally
<1>4. /\ counts'.saved + Observed' <= NewSnapshots'
      /\ NewSnapshots' <= counts'.saved + counts'.errors + Observed'
  BY <1>1, <1>2 DEF Tally
<1>5. /\ counts'.ingested + Created' <= NewMarkets'
      /\ NewMarkets' <= counts'.ingested + counts'.errors + Created'
  BY <1>1, <1>2 DEF Tally
<1> QED
  BY <1>3, <1>4, <1>5 DEF Tally

(* An error takes one record from those pending, whatever it had saved.    *)
LEMMA TallyOnError ==
  ASSUME TypeOK, Tally,
         counts'.saved = counts.saved,
         counts'.errors = counts.errors + 1,
         counts'.ingested = counts.ingested,
         run'.size = run.size,
         Pending' = Pending - 1, Pending' \in Nat,
         Observed' = 0, Created' = 0,
         NewSnapshots' = NewSnapshots,
         NewMarkets' = NewMarkets
  PROVE  Tally'
<1>1. /\ Pending \in Nat /\ Observed \in 0..1 /\ Created \in 0..1
      /\ counts.saved \in Nat /\ counts.errors \in Nat /\ counts.ingested \in Nat
      /\ run.size \in Nat /\ NewMarkets \in Int /\ NewSnapshots \in Int
  BY QuantitiesTyped
<1>a. counts'.saved + counts'.errors + Pending' = counts.saved + counts.errors + Pending
  BY <1>1
<1>3. counts'.saved + counts'.errors + Pending' = run'.size
  BY <1>a DEF Tally
<1>4. /\ counts'.saved + Observed' <= NewSnapshots'
      /\ NewSnapshots' <= counts'.saved + counts'.errors + Observed'
  BY <1>1 DEF Tally
<1>5. /\ counts'.ingested + Created' <= NewMarkets'
      /\ NewMarkets' <= counts'.ingested + counts'.errors + Created'
  BY <1>1 DEF Tally
<1> QED
  BY <1>3, <1>4, <1>5 DEF Tally

(* Every step keeps the counters in step with what is stored.  Each case   *)
(* says how the quantities Tally relates move; the rest is arithmetic.     *)
LEMMA TallyStep ==
  ASSUME TypeOK, TypeOK', Control, Tally, Next
  PROVE  Tally'
<1> USE DEF stored, locals
<1>0. /\ markets \in Seq(Market) /\ snapshots \in Seq(Snapshot)
      /\ left \in Nat /\ counts \in Counts /\ fresh \in BOOLEAN
      /\ counts.saved \in Nat /\ counts.errors \in Nat /\ counts.ingested \in Nat
      /\ run.markets \in Nat /\ run.snapshots \in Nat
  BY IngestionAssumption DEF IngestionAssumption, TypeOK, Counts
<1>q. Pending \in Nat /\ NewMarkets \in Int /\ NewSnapshots \in Int
  BY QuantitiesTyped
<1>k. ASSUME counts' = counts, run' = run, Pending' = Pending, Observed' = Observed,
             Created' = Created, NewMarkets' = NewMarkets, NewSnapshots' = NewSnapshots
      PROVE  Tally'
  BY <1>k DEF Tally
<1>r. ASSUME pc \notin {"idle", "loop"}, left' = left, run' = run,
             markets' = markets, snapshots' = snapshots, Raise
      PROVE  Tally'
  <2>1. /\ counts'.saved = counts.saved /\ counts'.ingested = counts.ingested
        /\ counts'.errors = counts.errors + 1
    BY <1>0, <1>r, Raised
  <2>2. Pending' = Pending - 1 /\ Pending' \in Nat /\ Observed' = 0 /\ Created' = 0
    BY <1>0, <1>r, LocalsReset DEF Pending, Observed, Created
  <2>3. NewMarkets' = NewMarkets /\ NewSnapshots' = NewSnapshots
    BY <1>r DEF NewMarkets, NewSnapshots
  <2> QED
    BY <1>r, <2>1, <2>2, <2>3, TallyOnError
<1>f. ASSUME pc \notin {"idle", "loop"}, left' = left, run' = run,
             markets' = markets, NewSnapshots' = NewSnapshots + 1 - Observed,
             Observed \in 0..1, Created = IF fresh THEN 1 ELSE 0, Finish
      PROVE  Tally'
  <2>1. /\ counts'.saved = counts.saved + 1 /\ counts'.errors = counts.errors
        /\ counts'.ingested = counts.ingested + Created
    BY <1>0, <1>f, Finished
  <2>2. Pending' = Pending - 1 /\ Observed' = 0 /\ Created' = 0 /\ Created \in 0..1
    BY <1>0, <1>f, LocalsReset DEF Pending, Observed, Created
  <2>3. NewMarkets' = NewMarkets
    BY <1>f DEF NewMarkets
  <2>4. /\ NewSnapshots' + Observed = NewSnapshots + Observed' + 1
        /\ NewMarkets' + Created = NewMarkets + Created' + Created
    BY <1>q, <1>f, <2>2, <2>3
  <2> QED
    BY <1>f, <2>1, <2>2, <2>4, TallyMoves
<1>1. ASSUME NEW n \in 0..MaxBatch, Fetch(n) PROVE Tally'
  <2>1. /\ counts' = [ingested |-> 0, saved |-> 0, errors |-> 0] /\ left' = n
        /\ run'.size = n /\ run'.markets = Len(markets) /\ run'.snapshots = Len(snapshots)
        /\ pc' = "loop" /\ markets' = markets /\ snapshots' = snapshots
    BY <1>1 DEF Fetch
  <2>2. Pending' = n /\ Observed' = 0 /\ Created' = 0
    BY <2>1, IngestionAssumption DEF IngestionAssumption, Pending, Observed, Created
  <2>3. NewMarkets' = 0 /\ NewSnapshots' = 0
    BY <1>0, <2>1 DEF NewMarkets, NewSnapshots
  <2> QED
    BY <2>1, <2>2, <2>3 DEF Tally
<1>2. CASE FetchFails
  <2>1. /\ run'.size = run.size /\ run'.markets = run.markets
        /\ run'.snapshots = run.snapshots
    BY <1>2 DEF FetchFails, TypeOK
  <2>2. UNCHANGED <<pc, fresh, counts, left, markets, snapshots>>
    BY <1>2 DEF FetchFails
  <2> QED
    BY <2>1, <2>2 DEF Tally, Pending, Observed, Created, NewMarkets, NewSnapshots
<1>3. CASE Return
  <2>1. /\ pc = "loop" /\ pc' = "idle" /\ left' = left /\ counts' = counts /\ run' = run
        /\ markets' = markets /\ snapshots' = snapshots
    BY <1>3 DEF Return
  <2> QED
    BY <1>k, <2>1 DEF Pending, Observed, Created, NewMarkets, NewSnapshots
<1>4. ASSUME NEW r \in Record, NEW tick \in Ticks, Take(r, tick) PROVE Tally'
  <2>1. /\ pc = "loop" /\ left' = left - 1 /\ left > 0 /\ run' = run
        /\ markets' = markets /\ snapshots' = snapshots
    BY <1>4 DEF Take
  <2>2. Pending = left /\ Observed = 0 /\ Created = 0
    BY <1>0, <2>1 DEF Pending, Observed, Created
  <2>3. NewMarkets' = NewMarkets /\ NewSnapshots' = NewSnapshots
    BY <2>1 DEF NewMarkets, NewSnapshots
  <2>4. CASE r.fault = "key"
    <3>1. Raise
      BY <1>4, <2>4 DEF Take
    <3>2. /\ counts'.saved = counts.saved /\ counts'.ingested = counts.ingested
          /\ counts'.errors = counts.errors + 1
      BY <1>0, <3>1, Raised
    <3>3. Pending' = Pending - 1 /\ Pending' \in Nat /\ Observed' = 0 /\ Created' = 0
      BY <1>0, <2>1, <2>2, <3>1, LocalsReset DEF Pending, Observed, Created
    <3> QED
      BY <2>1, <2>3, <3>2, <3>3, TallyOnError
  <2>5. CASE r.fault # "key"
    <3>1. counts' = counts /\ pc' = "find"
      BY <1>4, <2>5 DEF Take
    <3>2. Pending' = left /\ Observed' = 0 /\ Created' = 0
      BY <1>0, <2>1, <3>1 DEF Pending, Observed, Created
    <3> QED
      BY <1>k, <2>1, <2>2, <2>3, <3>1, <3>2
  <2> QED
    BY <2>4, <2>5
<1>5. CASE FindMarket
  <2>1. /\ pc = "find" /\ pc' = "snapshot" /\ run' = run /\ counts' = counts
        /\ fresh' = fresh /\ left' = left /\ markets' = markets /\ snapshots' = snapshots
    BY <1>5 DEF FindMarket
  <2>2. ~fresh
    BY <2>1 DEF Control
  <2> QED
    BY <1>k, <2>1, <2>2 DEF Pending, Observed, Created, NewMarkets, NewSnapshots
<1>6. CASE MarketIsNew \/ CreateEvent
  <2>1. /\ pc \in {"find", "event"} /\ pc' \in {"event", "market"} /\ run' = run
        /\ counts' = counts /\ left' = left /\ markets' = markets /\ snapshots' = snapshots
    BY <1>6 DEF MarketIsNew, CreateEvent
  <2> QED
    BY <1>k, <2>1 DEF Pending, Observed, Created, NewMarkets, NewSnapshots
<1>7. CASE CreateMarket
  <2>1. /\ pc = "market" /\ pc' = "snapshot" /\ run' = run /\ counts' = counts
        /\ fresh' = fresh /\ left' = left /\ snapshots' = snapshots
        /\ Len(markets') = Len(markets) + 1
    BY <1>0, <1>7 DEF CreateMarket
  <2>2. fresh
    BY <2>1 DEF Control
  <2>3. /\ Pending' = Pending /\ Observed' = Observed /\ Created = 0 /\ Created' = 1
        /\ NewSnapshots' = NewSnapshots
    BY <2>1, <2>2 DEF Pending, Observed, Created, NewSnapshots
  <2>4. NewMarkets' = NewMarkets + 1
    <3>1. Len(markets) \in Nat /\ run'.markets = run.markets /\ run.markets \in Nat
      BY <1>0, <2>1
    <3>2. NewMarkets' = (Len(markets) + 1) - run.markets
      BY <2>1, <3>1 DEF NewMarkets
    <3>3. NewMarkets = Len(markets) - run.markets
      BY DEF NewMarkets
    <3> QED
      BY <3>1, <3>2, <3>3
  <2> QED
    BY SMTT(40), <1>0, <1>q, <2>1, <2>3, <2>4 DEF Tally
<1>8. CASE SaveSnapshot
  <2>1. /\ pc = "snapshot" /\ run' = run /\ left' = left /\ markets' = markets
        /\ Len(snapshots') = Len(snapshots) + 1
    BY <1>0, <1>8 DEF SaveSnapshot
  <2>2. NewSnapshots' = NewSnapshots + 1 /\ NewMarkets' = NewMarkets
    BY <1>0, <2>1 DEF NewSnapshots, NewMarkets
  <2>3. Observed = 0 /\ Created = IF fresh THEN 1 ELSE 0
    BY <2>1 DEF Observed, Created
  <2>4. CASE KeepPayloads
    <3>1. pc' = "payload" /\ fresh' = fresh /\ counts' = counts
      BY <1>8, <2>4 DEF SaveSnapshot
    <3>2. Pending' = Pending /\ Observed' = 1 /\ Created' = Created
      BY <2>1, <3>1 DEF Pending, Observed, Created
    <3> QED
      BY <1>0, <1>q, <2>1, <2>2, <2>3, <3>1, <3>2, TallyMoves
  <2>5. CASE ~KeepPayloads
    <3>1. Finish
      BY <1>8, <2>5 DEF SaveSnapshot
    <3>2. NewSnapshots' = NewSnapshots + 1 - Observed
      BY <1>q, <2>2, <2>3
    <3> QED
      BY <1>f, <2>1, <2>3, <3>1, <3>2
  <2> QED
    BY <2>4, <2>5
<1>9. CASE SavePayload
  <2>1. /\ pc = "payload" /\ run' = run /\ left' = left /\ markets' = markets
        /\ snapshots' = snapshots /\ Finish
    BY <1>9 DEF SavePayload
  <2>2. NewSnapshots' = NewSnapshots
    BY <2>1 DEF NewSnapshots
  <2>3. Observed = 1 /\ Created = IF fresh THEN 1 ELSE 0
    BY <2>1 DEF Observed, Created
  <2> QED
    BY <1>f, <1>q, <2>1, <2>2, <2>3
<1>10. CASE RecordFails
  <2>1. /\ pc \in {"find", "event", "market", "snapshot", "payload"} /\ run' = run
        /\ left' = left /\ markets' = markets /\ snapshots' = snapshots /\ Raise
    BY <1>10 DEF RecordFails, Refused
  <2> QED
    BY <1>r, <2>1
<1> QED
  BY <1>1, <1>2, <1>3, <1>4, <1>5, <1>6, <1>7, <1>8, <1>9, <1>10 DEF Next

(* The invariant is inductive.                                             *)
LEMMA StepIInv == IInv /\ [Next]_vars => IInv'
<1>1. ASSUME IInv, Next PROVE IInv'
  BY <1>1, TypeStep, StoreStep, ControlStep, TallyStep DEF IInv
<1>2. ASSUME IInv, UNCHANGED vars PROVE IInv'
  BY <1>2 DEF IInv, vars, TypeOK, NoDuplicateMarkets, MarketHasItsEvent,
       SnapshotsOfSavedMarkets, Control, Tally, Pending, Observed, Created,
       NewMarkets, NewSnapshots
<1> QED
  BY <1>1, <1>2

(* Every reachable state of the ingester satisfies the inductive invariant.*)
THEOREM Invariance == Spec => []IInv
BY InitIInv, StepIInv, PTL DEF Spec

(* The repositories, the record in hand and the summary have their types.  *)
THEOREM TypeCorrect == Spec => []TypeOK
BY Invariance, PTL DEF IInv

(* Whatever records fail, and wherever: no market is stored twice.         *)
THEOREM NoDuplicates == Spec => []NoDuplicateMarkets
BY Invariance, PTL DEF IInv

(* A stored market has the event its record named, stored, for every batch *)
(* and every failing repository call.                                      *)
THEOREM ReferencesHold == Spec => []MarketHasItsEvent
BY Invariance, PTL DEF IInv

(* And every snapshot and payload its stored market.                       *)
THEOREM ObservationsBelong == Spec => []SnapshotsOfSavedMarkets
BY Invariance, PTL DEF IInv

(* The returned summary accounts for every record of the batch.            *)
THEOREM SummaryAccounts == Spec => []SummaryBrackets
<1>1. IInv => SummaryBrackets
  BY SMTT(40) DEF IInv, TypeOK, Counts, Control, Tally, Pending, Observed, Created, SummaryBrackets,
       NewMarkets, NewSnapshots
<1> QED
  BY <1>1, Invariance, PTL

----------------------------------------------------------------------------
(* The payloads of a market are never more than its snapshots.  Between    *)
(* the save of a snapshot and that of its payload, one fewer.              *)
Of(list, m) == { i \in 1..Len(list) : list[i].market = m }

Backed ==
  \A m \in Nat :
    /\ IsFiniteSet(Of(snapshots, m)) /\ IsFiniteSet(Of(payloads, m))
    /\ Cardinality(Of(payloads, m)) + (IF pc = "payload" /\ m = market THEN 1 ELSE 0)
         <= Cardinality(Of(snapshots, m))

(* Appending an entity adds it to those of its market, and to no other.    *)
LEMMA AppendCounts ==
  ASSUME NEW S, NEW list \in Seq(S), NEW e \in S, NEW m, IsFiniteSet(Of(list, m))
  PROVE  /\ IsFiniteSet(Of(Append(list, e), m))
         /\ Cardinality(Of(Append(list, e), m))
              = Cardinality(Of(list, m)) + IF e.market = m THEN 1 ELSE 0
<1> DEFINE n == Len(list)
           longer == Append(list, e)
<1>1. /\ n \in Nat /\ Len(longer) = n + 1 /\ longer[n + 1] = e
      /\ \A i \in 1..n : longer[i] = list[i]
  OBVIOUS
<1> HIDE DEF n, longer
<1>2. n = Len(list) /\ longer = Append(list, e)
  BY DEF n, longer
<1>3. CASE e.market = m
  <2>1. Of(longer, m) = Of(list, m) \union {n + 1}
    BY <1>1, <1>2, <1>3 DEF Of
  <2>2. n + 1 \notin Of(list, m)
    BY <1>1, <1>2 DEF Of
  <2>3. QED
    BY <1>2, <1>3, <2>1, <2>2, FS_AddElement
<1>4. CASE e.market # m
  <2>1. Of(longer, m) = Of(list, m)
    BY <1>1, <1>2, <1>4 DEF Of
  <2>2. Cardinality(Of(list, m)) \in Nat
    BY FS_CardinalityType
  <2>3. QED
    BY <1>2, <1>4, <2>1, <2>2
<1>5. QED
  BY <1>3, <1>4

(* Nothing is stored at the start.                                         *)
LEMMA BackedInit == Init => Backed
<1>1. ASSUME Init, NEW m \in Nat PROVE Of(snapshots, m) = {} /\ Of(payloads, m) = {}
  BY <1>1 DEF Init, Of
<1>2. ASSUME Init PROVE pc # "payload"
  BY <1>2 DEF Init
<1>3. QED
  BY <1>1, <1>2, FS_EmptySet DEF Backed

(* A step that saves neither owes no payload it did not owe before.        *)
LEMMA BackedKept ==
  ASSUME Backed, snapshots' = snapshots, payloads' = payloads,
         pc' # "payload" \/ UNCHANGED <<pc, market>>
  PROVE  Backed'
<1>1. \A m : Of(snapshots, m)' = Of(snapshots, m) /\ Of(payloads, m)' = Of(payloads, m)
  BY DEF Of
<1>2. ASSUME NEW m \in Nat
      PROVE  /\ Cardinality(Of(snapshots, m)) \in Nat /\ Cardinality(Of(payloads, m)) \in Nat
  BY FS_CardinalityType DEF Backed
<1>3. QED
  BY <1>1, <1>2 DEF Backed

(* Every step owes at most the payload of the snapshot just saved.         *)
LEMMA BackedStep == ASSUME IInv, Backed, Next PROVE Backed'
<1>1. CASE SaveSnapshot
  <2> DEFINE e == [market |-> market, at |-> now, quote |-> record.quote]
  <2>1. /\ snapshots \in Seq(Snapshot) /\ e \in Snapshot /\ e.market = market
        /\ snapshots' = Append(snapshots, e) /\ payloads' = payloads
        /\ pc' \in {"payload", "loop"} /\ pc = "snapshot"
        /\ pc' = "payload" => market' = market
    BY <1>1 DEF SaveSnapshot, IInv, TypeOK, Control, Snapshot, Record, Finish, locals
  <2> HIDE DEF e
  <2>2. SUFFICES ASSUME NEW m \in Nat
                 PROVE  /\ IsFiniteSet(Of(snapshots, m)') /\ IsFiniteSet(Of(payloads, m)')
                        /\ Cardinality(Of(payloads, m)')
                              + (IF pc' = "payload" /\ m = market' THEN 1 ELSE 0)
                             <= Cardinality(Of(snapshots, m)')
    BY DEF Backed
  <2>3. /\ IsFiniteSet(Of(snapshots, m)')
        /\ Cardinality(Of(snapshots, m)')
             = Cardinality(Of(snapshots, m)) + IF market = m THEN 1 ELSE 0
    <3>1. IsFiniteSet(Of(snapshots, m))
      BY DEF Backed
    <3>2. Of(snapshots, m)' = Of(Append(snapshots, e), m)
      BY <2>1 DEF Of
    <3>3. QED
      BY <2>1, <3>1, <3>2, AppendCounts
  <2>4. Of(payloads, m)' = Of(payloads, m)
    BY <2>1 DEF Of
  <2>5. Cardinality(Of(snapshots, m)) \in Nat /\ Cardinality(Of(payloads, m)) \in Nat
    BY FS_CardinalityType DEF Backed
  <2>6. Cardinality(Of(payloads, m)) <= Cardinality(Of(snapshots, m))
    BY <2>1, <2>5 DEF Backed
  <2>7. QED
    BY <2>1, <2>3, <2>4, <2>5, <2>6 DEF Backed
<1>2. CASE SavePayload
  <2> DEFINE e == [market |-> market]
  <2>1. /\ payloads \in Seq(Payload) /\ e \in Payload /\ e.market = market
        /\ payloads' = Append(payloads, e) /\ snapshots' = snapshots
        /\ pc' = "loop" /\ pc = "payload"
    BY <1>2 DEF SavePayload, IInv, TypeOK, Payload, Finish
  <2> HIDE DEF e
  <2>2. SUFFICES ASSUME NEW m \in Nat
                 PROVE  /\ IsFiniteSet(Of(snapshots, m)') /\ IsFiniteSet(Of(payloads, m)')
                        /\ Cardinality(Of(payloads, m)')
                              + (IF pc' = "payload" /\ m = market' THEN 1 ELSE 0)
                             <= Cardinality(Of(snapshots, m)')
    BY DEF Backed
  <2>3. /\ IsFiniteSet(Of(payloads, m)')
        /\ Cardinality(Of(payloads, m)')
             = Cardinality(Of(payloads, m)) + IF market = m THEN 1 ELSE 0
    <3>1. IsFiniteSet(Of(payloads, m))
      BY DEF Backed
    <3>2. Of(payloads, m)' = Of(Append(payloads, e), m)
      BY <2>1 DEF Of
    <3>3. QED
      BY <2>1, <3>1, <3>2, AppendCounts
  <2>4. Of(snapshots, m)' = Of(snapshots, m)
    BY <2>1 DEF Of
  <2>5. Cardinality(Of(snapshots, m)) \in Nat /\ Cardinality(Of(payloads, m)) \in Nat
    BY FS_CardinalityType DEF Backed
  <2>6. Cardinality(Of(payloads, m)) + (IF market = m THEN 1 ELSE 0)
          <= Cardinality(Of(snapshots, m))
    BY <2>1, <2>5 DEF Backed
  <2>7. QED
    BY <2>1, <2>3, <2>4, <2>5, <2>6 DEF Backed
<1>3. CASE ~ (SaveSnapshot \/ SavePayload)
  <2>1. /\ snapshots' = snapshots /\ payloads' = payloads
        /\ pc' # "payload"
    BY <1>3 DEF Next, Fetch, FetchFails, Return, Take, FindMarket, MarketIsNew, CreateEvent,
         CreateMarket, RecordFails, Raise, stored
  <2>2. QED
    BY <2>1, BackedKept
<1>4. QED
  BY <1>1, <1>2, <1>3

(* The raw payloads never tell of more observations than were stored, in   *)
(* any order of records and failures.                                      *)
THEOREM PayloadsAreBacked == Spec => []PayloadsBackedBySnapshots
<1>1. IInv /\ Backed /\ [Next]_vars => Backed'
  <2>1. ASSUME Backed, UNCHANGED vars PROVE Backed'
    BY <2>1, BackedKept DEF vars
  <2>2. QED
    BY <2>1, BackedStep
<1>2. IInv /\ Backed => PayloadsBackedBySnapshots
  <2> SUFFICES ASSUME IInv, Backed, NEW m \in 1..Len(markets)
               PROVE  Cardinality(Of(payloads, m)) <= Cardinality(Of(snapshots, m))
    BY DEF PayloadsBackedBySnapshots, Of
  <2>1. m \in Nat
    BY DEF IInv, TypeOK
  <2>2. Cardinality(Of(payloads, m)) \in Nat /\ Cardinality(Of(snapshots, m)) \in Nat
    BY <2>1, FS_CardinalityType DEF Backed
  <2>3. QED
    BY <2>1, <2>2 DEF Backed
<1>3. QED
  BY <1>1, <1>2, BackedInit, Invariance, PTL DEF Spec

----------------------------------------------------------------------------
(* Among places of a list that bear times, one is as late as any: the      *)
(* clock may step back, so the times are integers without a bound.         *)
LEMMA SomeIsLatest ==
  ASSUME NEW n \in Nat, NEW at \in [1..n -> Int], NEW S \in SUBSET (1..n), S # {}
  PROVE  \E i \in S : \A j \in S : at[j] <= at[i]
<1> DEFINE Latest(k) == \/ \A j \in S : j > k
                        \/ \E i \in S : i <= k /\ \A j \in S : j <= k => at[j] <= at[i]
           P == { k \in 0..n : Latest(k) }
<1>1. 0 \in P
  OBVIOUS
<1>2. ASSUME NEW k \in P, k < n PROVE k + 1 \in P
  <2>1. k \in 0..n /\ k + 1 \in 0..n /\ Latest(k)
    BY <1>2
  <2>2. \A j \in S : j \in Int /\ at[j] \in Int /\ (j <= k + 1 => j <= k \/ j = k + 1)
    BY <2>1
  <2>3. CASE k + 1 \notin S
    <3>1. \A j \in S : j <= k + 1 => j <= k
      BY <2>2, <2>3
    <3>2. CASE \A j \in S : j > k
      <4>1. \A j \in S : j > k + 1
        BY <2>1, <2>2, <3>1, <3>2
      <4>2. QED
        BY <2>1, <4>1
    <3>3. CASE ~ (\A j \in S : j > k)
      <4>1. PICK i \in S : i <= k /\ \A j \in S : j <= k => at[j] <= at[i]
        BY <2>1, <3>3
      <4>2. i <= k + 1 /\ \A j \in S : j <= k + 1 => at[j] <= at[i]
        BY <2>1, <2>2, <3>1, <4>1
      <4>3. QED
        BY <2>1, <4>2
    <3>4. QED
      BY <3>2, <3>3
  <2>4. CASE k + 1 \in S /\ \A j \in S : j > k
    <3>1. \A j \in S : j <= k + 1 => at[j] <= at[k + 1]
      BY <2>1, <2>2, <2>4
    <3>2. QED
      BY <2>1, <2>4, <3>1
  <2>5. CASE k + 1 \in S /\ ~ (\A j \in S : j > k)
    <3>1. PICK i \in S : i <= k /\ \A j \in S : j <= k => at[j] <= at[i]
      BY <2>1, <2>5
    <3>2. CASE at[k + 1] <= at[i]
      <4>1. i <= k + 1 /\ \A j \in S : j <= k + 1 => at[j] <= at[i]
        BY <2>1, <2>2, <3>1, <3>2
      <4>2. QED
        BY <2>1, <4>1
    <3>3. CASE ~ (at[k + 1] <= at[i])
      <4>1. \A j \in S : j <= k + 1 => at[j] <= at[k + 1]
        BY <2>1, <2>2, <2>5, <3>1, <3>3
      <4>2. QED
        BY <2>1, <2>5, <4>1
    <3>4. QED
      BY <3>2, <3>3
  <2>6. QED
    BY <2>3, <2>4, <2>5
<1> HIDE DEF Latest
<1>3. P \in SUBSET (0..n)
  OBVIOUS
<1>4. P = 0..n
  BY <1>1, <1>2, <1>3, BoundedInduction
<1>5. Latest(n)
  BY <1>4
<1>6. \A j \in S : j \in Int /\ j <= n
  OBVIOUS
<1>7. ~ (\A j \in S : j > n)
  <2>1. PICK j \in S : TRUE
    OBVIOUS
  <2>2. ~ (j > n)
    BY <1>6
  <2>3. QED
    BY <2>2
<1>8. PICK i \in S : \A j \in S : j <= n => at[j] <= at[i]
  BY <1>5, <1>7 DEF Latest
<1>9. QED
  BY <1>6, <1>8

(* The place of the first of the latest snapshots of a market in a list.   *)
FirstLatest(list, m, k) ==
  /\ k \in Of(list, m)
  /\ \A j \in Of(list, m) : /\ list[j].at <= list[k].at
                            /\ list[j].at = list[k].at => k <= j

(* get_latest's choice is that place, whenever there is one.               *)
LEMMA LatestFound ==
  ASSUME NEW list \in Seq(Snapshot), NEW m, Of(list, m) # {}, NEW k,
         k = LET newest == { i \in Of(list, m) :
                               \A j \in Of(list, m) : list[j].at <= list[i].at }
             IN CHOOSE i \in newest : \A j \in newest : i <= j
  PROVE  FirstLatest(list, m, k)
<1> DEFINE of == Of(list, m)
           at == [ i \in 1..Len(list) |-> list[i].at ]
           newest == { i \in of : \A j \in of : list[j].at <= list[i].at }
<1>1. /\ Len(list) \in Nat /\ of \in SUBSET (1..Len(list))
      /\ \A i \in 1..Len(list) : list[i] \in Snapshot
  BY DEF Of
<1>2. at \in [1..Len(list) -> Int] /\ \A i \in of : at[i] = list[i].at
  BY <1>1 DEF Snapshot
<1>3. PICK i \in of : \A j \in of : at[j] <= at[i]
  <2> HIDE DEF at, of
  <2>1. of # {}
    BY DEF of
  <2>2. QED
    BY <1>1, <1>2, <2>1, SomeIsLatest
<1>4. newest \in SUBSET Nat /\ newest # {}
  <2>1. \A j \in of : list[j].at <= list[i].at
    <3> HIDE DEF at, of
    <3>1. QED
      BY <1>2, <1>3
  <2>2. i \in newest
    BY <2>1
  <2>3. newest \subseteq of /\ of \subseteq Nat
    BY <1>1
  <2>4. QED
    BY <2>2, <2>3
<1>5. k = CHOOSE p \in newest : \A q \in newest : p <= q
  OBVIOUS
<1>6. k \in newest /\ \A j \in newest : k <= j
  <2> HIDE DEF newest
  <2>1. QED
    BY <1>4, <1>5, HasLeast
<1>7. ASSUME NEW j \in of, list[j].at = list[k].at PROVE k <= j
  BY <1>6, <1>7
<1>8. QED
  BY <1>6, <1>7 DEF FirstLatest

(* One more snapshot leaves that place, or moves it to a later time.       *)
LEMMA LaterOrSame ==
  ASSUME NEW list \in Seq(Snapshot), NEW longer \in Seq(Snapshot),
         Len(longer) = Len(list) + 1, \A i \in 1..Len(list) : longer[i] = list[i],
         NEW m, NEW old, FirstLatest(list, m, old), NEW new, FirstLatest(longer, m, new),
         new # old
  PROVE  longer[new].at > list[old].at
<1>1. /\ Len(list) \in Nat
      /\ old \in 1..Len(list) /\ old \in Of(longer, m) /\ longer[old] = list[old]
      /\ new \in 1..Len(longer)
  BY DEF FirstLatest, Of
<1>2. list[old].at \in Int /\ longer[new].at \in Int
  <2>1. list[old] \in Snapshot /\ longer[new] \in Snapshot
    BY <1>1
  <2>2. QED
    BY <2>1 DEF Snapshot
<1>3. list[old].at <= longer[new].at
  BY <1>1 DEF FirstLatest
<1>4. ASSUME longer[new].at = list[old].at PROVE FALSE
  <2>1. new <= old
    BY <1>1, <1>4 DEF FirstLatest
  <2>2. new \in 1..Len(list) /\ longer[new] = list[new]
    BY <1>1, <2>1
  <2>3. new \in Of(list, m)
    BY <2>2 DEF FirstLatest, Of
  <2>4. old <= new
    BY <1>4, <2>2, <2>3 DEF FirstLatest
  <2>5. QED
    BY <1>1, <2>1, <2>4
<1>5. QED
  BY <1>2, <1>3, <1>4

(* What get_latest returns, now and after a step.                          *)
LEMMA LatestIsFirst ==
  ASSUME TypeOK, TypeOK', NEW m
  PROVE  /\ SnapshotsOf(m) = Of(snapshots, m) /\ SnapshotsOf(m)' = Of(snapshots', m)
         /\ Of(snapshots, m) # {} => FirstLatest(snapshots, m, GetLatest(m))
         /\ Of(snapshots', m) # {} => FirstLatest(snapshots', m, GetLatest(m)')
<1>1. SnapshotsOf(m) = Of(snapshots, m) /\ SnapshotsOf(m)' = Of(snapshots', m)
  BY DEF SnapshotsOf, Of
<1>2. snapshots \in Seq(Snapshot) /\ snapshots' \in Seq(Snapshot)
  BY DEF TypeOK
<1>3. ASSUME Of(snapshots, m) # {} PROVE FirstLatest(snapshots, m, GetLatest(m))
  BY <1>1, <1>2, <1>3, LatestFound DEF GetLatest
<1>4. ASSUME Of(snapshots', m) # {} PROVE FirstLatest(snapshots', m, GetLatest(m)')
  BY <1>1, <1>2, <1>4, LatestFound DEF GetLatest
<1>5. QED
  BY <1>1, <1>3, <1>4

(* Whatever the clock does, the latest snapshot of a market is only ever   *)
(* replaced by a later one.                                                *)
THEOREM LatestOnlyAdvances == Spec => LatestNeverGoesBack
<1> DEFINE Advances == \A m \in 1..Len(markets) :
             \/ SnapshotsOf(m) = {}
             \/ GetLatest(m)' = GetLatest(m)
             \/ snapshots'[GetLatest(m)'].at > snapshots[GetLatest(m)].at
<1>1. ASSUME TypeOK, TypeOK', Next PROVE Advances
  <2>1. CASE SaveSnapshot
    <3>1. SUFFICES ASSUME NEW m, SnapshotsOf(m) # {}, GetLatest(m)' # GetLatest(m)
                   PROVE  snapshots'[GetLatest(m)'].at > snapshots[GetLatest(m)].at
      OBVIOUS
    <3>2. snapshots \in Seq(Snapshot) /\ snapshots' \in Seq(Snapshot)
      BY <1>1 DEF TypeOK
    <3>3. /\ Len(snapshots') = Len(snapshots) + 1
          /\ \A i \in 1..Len(snapshots) : snapshots'[i] = snapshots[i]
      BY <2>1, <3>2 DEF SaveSnapshot
    <3>4. Of(snapshots, m) # {} /\ Of(snapshots', m) # {}
      BY <1>1, <3>1, <3>2, <3>3, LatestIsFirst DEF Of
    <3>5. /\ FirstLatest(snapshots, m, GetLatest(m))
          /\ FirstLatest(snapshots', m, GetLatest(m)')
      BY <1>1, <3>4, LatestIsFirst
    <3>6. QED
      BY <3>1, <3>2, <3>3, <3>5, LaterOrSame
  <2>2. CASE ~ SaveSnapshot
    <3>1. snapshots' = snapshots
      BY <1>1, <2>2 DEF Next, Fetch, FetchFails, Return, Take, FindMarket, MarketIsNew,
           CreateEvent, CreateMarket, SavePayload, RecordFails, stored
    <3>2. \A m : GetLatest(m)' = GetLatest(m)
      BY <3>1 DEF GetLatest, SnapshotsOf
    <3>3. QED
      BY <3>2
  <2>3. QED
    BY <2>1, <2>2
<1>2. TypeOK /\ TypeOK' /\ [Next]_vars => [Advances]_vars
  <2> HIDE DEF Advances
  <2>1. QED
    BY <1>1
<1> HIDE DEF Advances
<1>3. Spec => [][Advances]_vars
  BY <1>2, TypeCorrect, PTL DEF Spec
<1>4. QED
  BY <1>3 DEF LatestNeverGoesBack, Advances

============================================================================
