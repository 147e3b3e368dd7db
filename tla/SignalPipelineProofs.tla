------------------------ MODULE SignalPipelineProofs ------------------------
(***************************************************************************)
(* What SignalPipeline promises for any number of threads, markets,        *)
(* snapshots and requests.  The proofs rest on Hand, which says what a     *)
(* thread in the middle of a request knows: the entities it read are in    *)
(* the repositories, of its market, and no older than anything stored when *)
(* its request began; and on Past, which says that no stored time is ahead *)
(* of the clock.  What list_recent returns rests on the lemmas about       *)
(* NewestFirst.                                                            *)
(***************************************************************************)
EXTENDS SignalPipeline, DataTheorems

(* What was read at a place of a repository, for a request that began when *)
(* the repository held `since` entities.                                   *)
ReadOf(place, m, since, list) ==
  /\ place \in 1..Len(list)
  /\ list[place].market = m
  /\ since <= Len(list)
  /\ \A k \in 1..since : list[k].market = m => list[k].at <= list[place].at

Hand(w) ==
  /\ pc[w] = "idle" <=> frame[w] = NoFrame
  /\ pc[w] # "idle" =>
       frame[w].since.snapshots <= Len(snapshots) /\ frame[w].since.estimates <= Len(estimates)
  /\ pc[w] = "estimated" => frame[w].model \in Probability /\ frame[w].at <= clock
  /\ pc[w] \in {"estimate", "evaluate", "detected"} =>
       /\ ReadOf(frame[w].snapshot, frame[w].market, frame[w].since.snapshots, snapshots)
       /\ snapshots[frame[w].snapshot].mid # NoPrice
  /\ pc[w] \in {"evaluate", "detected"} =>
       ReadOf(frame[w].estimate, frame[w].market, frame[w].since.estimates, estimates)
  /\ pc[w] = "detected" =>
       /\ snapshots[frame[w].snapshot].at <= frame[w].at
       /\ estimates[frame[w].estimate].at <= frame[w].at

Past ==
  /\ \A i \in 1..Len(snapshots) : snapshots[i].at <= clock /\ snapshots[i].market \in known
  /\ \A i \in 1..Len(estimates) : estimates[i].at <= clock
  /\ observed # NoSnapshot => observed.at <= clock /\ Len(snapshots) < MaxSnapshots

SignalOf(s, stored, prices, models) ==
  /\ s.market \in stored
  /\ ReadOf(s.snapshot, s.market, s.since.snapshots, prices)
  /\ ReadOf(s.estimate, s.market, s.since.estimates, models)
  /\ prices[s.snapshot].at <= s.at /\ models[s.estimate].at <= s.at

IInv ==
  /\ TypeOK
  /\ \A w \in Workers : Hand(w)
  /\ Past
  /\ \A i \in 1..Len(signals) : SignalOf(signals[i], known, snapshots, estimates)

----------------------------------------------------------------------------
(* get_latest finds one of the market, and none of the market is newer.    *)
LEMMA LatestIsNewest ==
  ASSUME NEW list, Len(list) \in Nat, NEW m, Has(list, m), NEW bound \in Nat,
         \A i \in 1..Len(list) : list[i].at \in Nat /\ list[i].at <= bound
  PROVE  /\ LatestIn(list, m) \in 1..Len(list)
         /\ list[LatestIn(list, m)].market = m
         /\ \A j \in 1..Len(list) : list[j].market = m => list[j].at <= list[LatestIn(list, m)].at
<1> DEFINE of == { i \in 1..Len(list) : list[i].market = m }
           newest == { i \in of : \A j \in of : list[j].at <= list[i].at }
           ages == { bound - list[i].at : i \in of }
<1>1. of \subseteq Nat /\ of # {}
  BY DEF Has
<1>2. ages \in SUBSET Nat /\ ages # {}
  <2>1. \A i \in of : bound - list[i].at \in Nat
    OBVIOUS
  <2>2. QED
    BY <1>1, <2>1
<1>3. PICK age \in ages : \A other \in ages : age <= other
  BY <1>2, HasLeast
<1>4. PICK i \in of : age = bound - list[i].at
  BY <1>3
<1>5. \A j \in of : list[j].at <= list[i].at
  <2>1. TAKE j \in of
  <2>2. bound - list[i].at <= bound - list[j].at
    BY <1>3, <1>4
  <2>3. QED
    BY <2>2
<1>6. newest \in SUBSET Nat /\ newest # {}
  BY <1>1, <1>4, <1>5
<1>7. \E n \in newest : \A j \in newest : n <= j
  BY <1>6, HasLeast
<1>8. LatestIn(list, m) \in newest
  BY <1>7 DEF LatestIn
<1>9. QED
  BY <1>8

----------------------------------------------------------------------------
(* A repository that only gains entities at its end.                       *)
Grown(list, longer) ==
  Len(list) <= Len(longer) /\ \A k \in 1..Len(list) : longer[k] = list[k]

(* What was read stays in a repository that grows.                         *)
LEMMA ReadKept ==
  ASSUME NEW list, NEW longer, Len(list) \in Nat, Len(longer) \in Nat, Grown(list, longer),
         NEW place, NEW m, NEW since \in Nat, ReadOf(place, m, since, list)
  PROVE  ReadOf(place, m, since, longer) /\ longer[place] = list[place]
BY DEF Grown, ReadOf

(* Saving an entity adds it at the end, and changes nothing else.          *)
LEMMA AppendGrows ==
  ASSUME NEW S, NEW list \in Seq(S), NEW e \in S
  PROVE  /\ Append(list, e) \in Seq(S) /\ Len(Append(list, e)) = Len(list) + 1
         /\ Grown(list, Append(list, e))
         /\ Append(list, e)[Len(list) + 1] = e
         /\ \A i \in 1..Len(list) + 1 :
              (i \in 1..Len(list) /\ Append(list, e)[i] = list[i]) \/ i = Len(list) + 1
BY DEF Grown

(* Every repository of the next state holds what it held.                  *)
StoresGrow ==
  /\ Grown(snapshots, snapshots') /\ Grown(estimates, estimates')
  /\ known \subseteq known' /\ clock <= clock'

(* A repository that does not change has grown by nothing.                 *)
LEMMA GrownSame == ASSUME NEW list, Len(list) \in Nat PROVE Grown(list, list)
BY DEF Grown

(* What the type invariant says of the stores, element by element.         *)
LEMMA TypeFacts ==
  ASSUME TypeOK
  PROVE  /\ clock \in Nat
         /\ snapshots \in Seq(Snapshot) /\ estimates \in Seq(Estimate) /\ signals \in Seq(Signal)
         /\ Len(snapshots) \in Nat /\ Len(estimates) \in Nat /\ Len(signals) \in Nat
         /\ \A i \in 1..Len(snapshots) : snapshots[i] \in Snapshot
         /\ \A i \in 1..Len(estimates) : estimates[i] \in Estimate
         /\ \A i \in 1..Len(signals) : signals[i] \in Signal
BY PipelineAssumption DEF TypeOK

(* A thread that does not move keeps what it knows.                        *)
LEMMA HandKept ==
  ASSUME TypeOK, TypeOK', StoresGrow, NEW w \in Workers, Hand(w),
         pc'[w] = pc[w], frame'[w] = frame[w]
  PROVE  Hand(w)'
<1>1. /\ Len(snapshots) \in Nat /\ Len(estimates) \in Nat
      /\ Len(snapshots') \in Nat /\ Len(estimates') \in Nat
      /\ clock \in Nat /\ clock' \in Nat
  BY TypeFacts, PipelineAssumption DEF TypeOK
<1>2. CASE pc[w] = "idle"
  BY <1>2 DEF Hand
<1>3. CASE pc[w] # "idle"
  <2>1. frame[w] \in Frame
    BY <1>3 DEF Hand, TypeOK
  <2>2. /\ frame[w].since.snapshots \in Nat /\ frame[w].since.estimates \in Nat
        /\ frame[w].at \in Nat
    BY <2>1 DEF Frame, Stored
  <2>3. pc[w] \in {"estimate", "evaluate", "detected"} =>
          /\ ReadOf(frame[w].snapshot, frame[w].market, frame[w].since.snapshots, snapshots')
          /\ snapshots'[frame[w].snapshot] = snapshots[frame[w].snapshot]
    BY SMTT(40), <1>1, <2>2, ReadKept DEF Hand, StoresGrow
  <2>4. pc[w] \in {"evaluate", "detected"} =>
          /\ ReadOf(frame[w].estimate, frame[w].market, frame[w].since.estimates, estimates')
          /\ estimates'[frame[w].estimate] = estimates[frame[w].estimate]
    BY SMTT(40), <1>1, <2>2, ReadKept DEF Hand, StoresGrow
  <2>5. /\ frame[w].since.snapshots <= Len(snapshots')
        /\ frame[w].since.estimates <= Len(estimates')
    BY <1>1, <1>3, <2>2 DEF Hand, StoresGrow, Grown
  <2>6. pc[w] = "estimated" => frame[w].at <= clock'
    BY <1>1, <2>2 DEF Hand, StoresGrow
  <2>7. QED
    BY <1>3, <2>3, <2>4, <2>5, <2>6 DEF Hand
<1>4. QED
  BY <1>2, <1>3

(* A stored signal stays right while the stores grow.                      *)
LEMMA SignalKept ==
  ASSUME TypeOK, TypeOK', StoresGrow, NEW s \in Signal,
         SignalOf(s, known, snapshots, estimates)
  PROVE  SignalOf(s, known', snapshots', estimates')
<1>1. /\ Len(snapshots) \in Nat /\ Len(estimates) \in Nat
      /\ Len(snapshots') \in Nat /\ Len(estimates') \in Nat
  BY TypeFacts DEF TypeOK
<1>2. s.since.snapshots \in Nat /\ s.since.estimates \in Nat
  BY DEF Signal, Stored
<1>3. /\ ReadOf(s.snapshot, s.market, s.since.snapshots, snapshots')
      /\ snapshots'[s.snapshot] = snapshots[s.snapshot]
  BY <1>1, <1>2, ReadKept DEF SignalOf, StoresGrow
<1>4. /\ ReadOf(s.estimate, s.market, s.since.estimates, estimates')
      /\ estimates'[s.estimate] = estimates[s.estimate]
  BY <1>1, <1>2, ReadKept DEF SignalOf, StoresGrow
<1>5. QED
  BY <1>3, <1>4 DEF SignalOf, StoresGrow

----------------------------------------------------------------------------
(* The parts of the invariant that a step of one thread leaves to prove:   *)
(* the types, what that thread knows, and the stores if it moved them.     *)
LEMMA OneThreadMoves ==
  ASSUME IInv, TypeOK', StoresGrow, Past', NEW w \in Workers,
         \A v \in Workers : v # w => pc'[v] = pc[v] /\ frame'[v] = frame[v],
         Hand(w)', signals' = signals
  PROVE  IInv'
<1>1. \A v \in Workers : Hand(v)'
  BY HandKept DEF IInv
<1>2. \A i \in 1..Len(signals') : SignalOf(signals'[i], known', snapshots', estimates')
  BY SignalKept, TypeFacts DEF IInv
<1>3. QED
  BY <1>1, <1>2 DEF IInv

(* A step of the clock or of the ingester keeps what threads know.         *)
LEMMA NoThreadMoves ==
  ASSUME IInv, TypeOK', StoresGrow, Past', pc' = pc, frame' = frame, signals' = signals
  PROVE  IInv'
<1>1. \A v \in Workers : Hand(v)'
  BY HandKept DEF IInv
<1>2. \A i \in 1..Len(signals') : SignalOf(signals'[i], known', snapshots', estimates')
  BY SignalKept, TypeFacts DEF IInv
<1>3. QED
  BY <1>1, <1>2 DEF IInv

(* A step that changes no store keeps the past.                            *)
LEMMA SameStores ==
  ASSUME TypeOK, Past, UNCHANGED <<clock, store, observed>>
  PROVE  StoresGrow /\ Past'
<1>1. StoresGrow
  BY TypeFacts, GrownSame DEF StoresGrow, store
<1>2. Past'
  BY DEF Past, store
<1>3. QED
  BY <1>1, <1>2

(* Goto moves one thread's program counter.                                *)
LEMMA GotoMoves ==
  ASSUME TypeOK, NEW w \in Workers, NEW from, NEW to \in PC, Goto(w, from, to)
  PROVE  /\ pc[w] = from /\ pc'[w] = to /\ pc' \in [Workers -> PC]
         /\ \A v \in Workers : v # w => pc'[v] = pc[v]
BY DEF TypeOK, Goto

(* A thread that returns leaves the stores and the invariant alone.        *)
LEMMA ReturnKeeps ==
  ASSUME IInv, NEW w \in Workers, pc' = [pc EXCEPT ![w] = "idle"], Return(w),
         UNCHANGED <<clock, store, observed, requests>>
  PROVE  IInv'
<1>1. TypeOK'
  BY DEF IInv, TypeOK, Return, store, PC
<1>2. StoresGrow /\ Past'
  BY SameStores DEF IInv
<1>3. Hand(w)'
  BY DEF IInv, TypeOK, Return, Hand
<1>4. \A v \in Workers : v # w => pc'[v] = pc[v] /\ frame'[v] = frame[v]
  BY DEF IInv, TypeOK, Return
<1>5. QED
  BY <1>1, <1>2, <1>3, <1>4, OneThreadMoves DEF store

(* A step within a request changes the locals of its thread only.          *)
LEMMA LocalStep ==
  ASSUME IInv, NEW w \in Workers, NEW from, NEW to \in PC, Goto(w, from, to),
         NEW f \in Frame, frame' = [frame EXCEPT ![w] = f],
         UNCHANGED <<clock, store, observed, requests>>,
         Hand(w)'
  PROVE  IInv'
<1>1. TypeOK'
  BY GotoMoves DEF IInv, TypeOK, store
<1>2. StoresGrow /\ Past'
  BY SameStores DEF IInv
<1>3. \A v \in Workers : v # w => pc'[v] = pc[v] /\ frame'[v] = frame[v]
  BY GotoMoves DEF IInv, TypeOK
<1>4. QED
  BY <1>1, <1>2, <1>3, OneThreadMoves DEF store

----------------------------------------------------------------------------
(* The clock and the ingester.                                             *)
LEMMA TickKeeps == ASSUME IInv, Tick PROVE IInv'
<1>1. TypeOK'
  BY PipelineAssumption DEF IInv, TypeOK, Tick, store
<1>2. StoresGrow
  BY TypeFacts, GrownSame DEF IInv, Tick, StoresGrow, store
<1>3. Past'
  <2>1. \A i \in 1..Len(snapshots) : snapshots[i].at \in Nat
    BY TypeFacts DEF IInv, Snapshot
  <2>2. \A i \in 1..Len(estimates) : estimates[i].at \in Nat
    BY TypeFacts DEF IInv, Estimate
  <2>3. observed # NoSnapshot => observed.at \in Nat
    BY DEF IInv, TypeOK, Snapshot
  <2>4. clock \in Nat
    BY TypeFacts DEF IInv
  <2>5. QED
    BY <2>1, <2>2, <2>3, <2>4 DEF IInv, Past, Tick, store
<1>4. QED
  BY <1>1, <1>2, <1>3, NoThreadMoves DEF Tick, store

(* A snapshot about to be stored bears the present time.                   *)
LEMMA ObserveKeeps ==
  ASSUME IInv, NEW m \in Markets, NEW mid \in Prices \union {NoPrice}, Observe(m, mid)
  PROVE  IInv'
<1>1. clock \in Nat
  BY TypeFacts DEF IInv
<1>2. TypeOK'
  BY <1>1 DEF IInv, TypeOK, Observe, Snapshot, store
<1>3. StoresGrow
  BY TypeFacts, GrownSame DEF IInv, Observe, StoresGrow, store
<1>4. Past'
  BY <1>1 DEF IInv, Past, Observe, store
<1>5. QED
  BY <1>2, <1>3, <1>4, NoThreadMoves DEF Observe, store

(* A market is stored.                                                     *)
LEMMA KeepMarketKeeps == ASSUME IInv, KeepMarket PROVE IInv'
<1>1. TypeOK'
  BY DEF IInv, TypeOK, KeepMarket, Snapshot
<1>2. StoresGrow
  BY TypeFacts, GrownSame DEF IInv, KeepMarket, StoresGrow
<1>3. Past'
  BY DEF IInv, Past, KeepMarket
<1>4. QED
  BY <1>1, <1>2, <1>3, NoThreadMoves DEF KeepMarket

(* A snapshot is stored, of a stored market.                               *)
LEMMA KeepSnapshotKeeps == ASSUME IInv, KeepSnapshot PROVE IInv'
<1>1. observed \in Snapshot /\ snapshots' = Append(snapshots, observed)
  BY DEF IInv, TypeOK, KeepSnapshot
<1>2. /\ snapshots' \in Seq(Snapshot) /\ Len(snapshots') = Len(snapshots) + 1
      /\ Grown(snapshots, snapshots')
      /\ snapshots'[Len(snapshots) + 1] = observed
      /\ \A i \in 1..Len(snapshots) + 1 :
           (i \in 1..Len(snapshots) /\ snapshots'[i] = snapshots[i]) \/ i = Len(snapshots) + 1
  BY <1>1, TypeFacts, AppendGrows DEF IInv
<1>3. TypeOK'
  <2>1. Len(snapshots') <= MaxSnapshots
    BY <1>2, TypeFacts, PipelineAssumption DEF IInv, Past, KeepSnapshot
  <2>2. QED
    BY <1>2, <2>1 DEF IInv, TypeOK, KeepSnapshot
<1>4. StoresGrow
  BY <1>2, TypeFacts, GrownSame DEF IInv, KeepSnapshot, StoresGrow
<1>5. Past'
  BY <1>2 DEF IInv, Past, KeepSnapshot
<1>6. QED
  BY <1>3, <1>4, <1>5, NoThreadMoves DEF KeepSnapshot

(* A record fails.                                                         *)
LEMMA DropRecordKeeps == ASSUME IInv, DropRecord PROVE IInv'
<1>1. TypeOK'
  BY DEF IInv, TypeOK, DropRecord, store
<1>2. StoresGrow
  BY TypeFacts, GrownSame DEF IInv, DropRecord, StoresGrow, store
<1>3. Past'
  BY DEF IInv, Past, DropRecord, store
<1>4. QED
  BY <1>1, <1>2, <1>3, NoThreadMoves DEF DropRecord, store

----------------------------------------------------------------------------
(* GenerateEstimate.                                                       *)
LEMMA RunningFrame ==
  ASSUME IInv, NEW w \in Workers, pc[w] # "idle"
  PROVE  /\ frame[w] \in Frame
         /\ frame[w].snapshot \in Nat /\ frame[w].estimate \in Nat /\ frame[w].at \in Nat
         /\ frame[w].since.snapshots \in Nat /\ frame[w].since.estimates \in Nat
         /\ frame[w].market \in Markets
<1>1. frame[w] \in Frame
  BY DEF IInv, TypeOK, Hand
<1>2. QED
  BY <1>1 DEF Frame, Stored

(* A request begins, and remembers what is stored.                         *)
LEMMA AskKeeps ==
  ASSUME IInv, NEW w \in Workers, NEW to \in {"market", "snapshot"}, NEW m \in Markets,
         NEW model \in Estimates \union {NoModel}, Ask(w, to, m, model)
  PROVE  IInv'
<1> DEFINE f == [ market |-> m, model |-> model, snapshot |-> 0, estimate |-> 0, at |-> 0,
                  since |-> [snapshots |-> Len(snapshots), estimates |-> Len(estimates)] ]
<1>1. f \in Frame
  BY TypeFacts DEF IInv, Frame, Stored
<1>2. frame' = [frame EXCEPT ![w] = f] /\ frame'[w] = f
  BY DEF IInv, TypeOK, Ask
<1>3. /\ pc[w] = "idle" /\ pc'[w] = to /\ pc' \in [Workers -> PC]
      /\ \A v \in Workers : v # w => pc'[v] = pc[v]
  <2>1. to \in PC
    BY DEF PC
  <2>2. QED
    BY <2>1, GotoMoves DEF IInv, Ask
<1>4. TypeOK'
  <2>1. frame' \in [Workers -> Frame \union {NoFrame}]
    <3> HIDE DEF f
    <3>1. QED
      BY <1>1, <1>2 DEF IInv, TypeOK
  <2>2. requests' \in 0..MaxRequests
    BY PipelineAssumption DEF IInv, TypeOK, Ask
  <2> HIDE DEF f
  <2>3. QED
    BY <1>3, <2>1, <2>2 DEF IInv, TypeOK, Ask, store
<1>5. StoresGrow /\ Past'
  BY SameStores DEF IInv, Ask
<1>6. Hand(w)'
  <2>1. frame'[w] # NoFrame
    BY <1>1, <1>2, PipelineAssumption
  <2>2. /\ frame'[w].since.snapshots <= Len(snapshots')
        /\ frame'[w].since.estimates <= Len(estimates')
    BY <1>2, TypeFacts DEF IInv, Ask, store
  <2> HIDE DEF f
  <2>3. QED
    BY <1>3, <2>1, <2>2 DEF Hand
<1>7. QED
  BY <1>2, <1>3, <1>4, <1>5, <1>6, OneThreadMoves DEF IInv, TypeOK, Ask, store

(* The estimate in hand is a probability, and bears the present time.      *)
LEMMA RunModelKeeps == ASSUME IInv, NEW w \in Workers, RunModel(w) PROVE IInv'
<1> DEFINE f == [frame[w] EXCEPT !.at = clock]
<1>1. pc[w] = "market" /\ pc'[w] = "estimated"
  BY GotoMoves DEF IInv, RunModel, PC
<1>2. f \in Frame
  BY <1>1, RunningFrame, TypeFacts DEF IInv, Frame
<1>3. frame' = [frame EXCEPT ![w] = f] /\ frame'[w] = f
  BY DEF IInv, TypeOK, RunModel
<1>4. Hand(w)'
  <2>1. frame'[w] # NoFrame
    BY <1>2, <1>3, PipelineAssumption
  <2>2. /\ frame'[w].since = frame[w].since /\ frame'[w].model = frame[w].model
        /\ frame'[w].at = clock
    BY <1>1, <1>3, RunningFrame DEF Frame
  <2>3. clock \in Nat /\ clock' = clock /\ UNCHANGED <<snapshots, estimates>>
    BY TypeFacts DEF IInv, RunModel, store
  <2> HIDE DEF f
  <2>4. QED
    BY <1>1, <2>1, <2>2, <2>3 DEF IInv, Hand, RunModel
<1>5. QED
  BY <1>2, <1>3, <1>4, LocalStep DEF RunModel, PC

(* An estimate is stored.                                                  *)
LEMMA SaveEstimateKeeps == ASSUME IInv, NEW w \in Workers, SaveEstimate(w) PROVE IInv'
<1> DEFINE e == [ market |-> frame[w].market, probability |-> frame[w].model,
                  at |-> frame[w].at ]
<1>1. /\ pc[w] = "estimated" /\ pc'[w] = "idle" /\ pc' \in [Workers -> PC]
      /\ \A v \in Workers : v # w => pc'[v] = pc[v]
  BY GotoMoves DEF IInv, SaveEstimate, PC
<1>2. e \in Estimate /\ e.at <= clock
  BY <1>1, RunningFrame DEF IInv, Hand, Estimate
<1>3. /\ estimates' \in Seq(Estimate) /\ Len(estimates') = Len(estimates) + 1
      /\ Grown(estimates, estimates')
      /\ estimates'[Len(estimates) + 1] = e
      /\ \A i \in 1..Len(estimates) + 1 :
           (i \in 1..Len(estimates) /\ estimates'[i] = estimates[i]) \/ i = Len(estimates) + 1
  <2>1. estimates' = Append(estimates, e)
    BY DEF SaveEstimate
  <2> HIDE DEF e
  <2>2. QED
    BY <1>2, <2>1, TypeFacts, AppendGrows DEF IInv
<1>4. /\ frame' \in [Workers -> Frame \union {NoFrame}] /\ frame'[w] = NoFrame
      /\ \A v \in Workers : v # w => frame'[v] = frame[v]
  BY DEF IInv, TypeOK, SaveEstimate, Return
<1>5. TypeOK'
  BY <1>1, <1>3, <1>4 DEF IInv, TypeOK, SaveEstimate
<1>6. StoresGrow
  BY <1>3, TypeFacts, GrownSame DEF IInv, SaveEstimate, StoresGrow
<1>7. Past'
  <2>1. \A i \in 1..Len(estimates) + 1 : estimates'[i].at <= clock
    <3> HIDE DEF e
    <3>1. QED
      BY <1>2, <1>3 DEF IInv, Past
  <2>2. QED
    BY <1>3, <2>1 DEF IInv, Past, SaveEstimate
<1>8. Hand(w)'
  BY <1>1, <1>4 DEF Hand
<1>9. QED
  BY <1>1, <1>4, <1>5, <1>6, <1>7, <1>8, OneThreadMoves DEF SaveEstimate

----------------------------------------------------------------------------
(* DetectSignal.                                                           *)
LEMMA ReadSnapshotKeeps == ASSUME IInv, NEW w \in Workers, ReadSnapshot(w) PROVE IInv'
<1> DEFINE place == LatestIn(snapshots, frame[w].market)
           f == [frame[w] EXCEPT !.snapshot = place]
<1>1. pc[w] = "snapshot" /\ pc'[w] = "estimate"
  BY GotoMoves DEF IInv, ReadSnapshot, PC
<1>2. /\ place \in 1..Len(snapshots)
      /\ snapshots[place].market = frame[w].market
      /\ \A j \in 1..Len(snapshots) : snapshots[j].market = frame[w].market =>
           snapshots[j].at <= snapshots[place].at
  <2>1. \A i \in 1..Len(snapshots) : snapshots[i].at \in Nat /\ snapshots[i].at <= clock
    BY TypeFacts DEF IInv, Past, Snapshot
  <2>2. QED
    BY <2>1, TypeFacts, LatestIsNewest DEF IInv, ReadSnapshot
<1>3. ReadOf(place, frame[w].market, frame[w].since.snapshots, snapshots)
  <2>1. frame[w].since.snapshots <= Len(snapshots)
    BY <1>1 DEF IInv, Hand
  <2>2. frame[w].since.snapshots \in Nat /\ Len(snapshots) \in Nat
    BY <1>1, RunningFrame, TypeFacts DEF IInv
  <2> HIDE DEF place
  <2>3. QED
    BY <1>2, <2>1, <2>2 DEF ReadOf
<1>4. f \in Frame
  <2>1. place \in Nat
    BY <1>2, TypeFacts DEF IInv
  <2> HIDE DEF place
  <2>2. QED
    BY <1>1, <2>1, RunningFrame DEF Frame
<1>5. frame' = [frame EXCEPT ![w] = f] /\ frame'[w] = f
  BY DEF IInv, TypeOK, ReadSnapshot
<1>6. Hand(w)'
  <2>1. frame'[w] # NoFrame
    BY <1>4, <1>5, PipelineAssumption
  <2>2. /\ frame'[w].since = frame[w].since /\ frame'[w].market = frame[w].market
        /\ frame'[w].snapshot = place
    <3> HIDE DEF place
    <3>1. QED BY <1>1, <1>5, RunningFrame DEF Frame
  <2>3. UNCHANGED <<snapshots, estimates>> /\ snapshots[place].mid # NoPrice
    BY DEF ReadSnapshot, store
  <2> HIDE DEF f, place
  <2>4. QED
    BY <1>1, <1>3, <2>1, <2>2, <2>3 DEF IInv, Hand
<1>7. QED
  BY <1>4, <1>5, <1>6, LocalStep DEF ReadSnapshot, PC

(* The estimate read is of the market, and none stored is newer.           *)
LEMMA ReadEstimateKeeps == ASSUME IInv, NEW w \in Workers, ReadEstimate(w) PROVE IInv'
<1> DEFINE place == LatestIn(estimates, frame[w].market)
           f == [frame[w] EXCEPT !.estimate = place]
<1>1. pc[w] = "estimate" /\ pc'[w] = "evaluate"
  BY GotoMoves DEF IInv, ReadEstimate, PC
<1>2. /\ place \in 1..Len(estimates)
      /\ estimates[place].market = frame[w].market
      /\ \A j \in 1..Len(estimates) : estimates[j].market = frame[w].market =>
           estimates[j].at <= estimates[place].at
  <2>1. \A i \in 1..Len(estimates) : estimates[i].at \in Nat /\ estimates[i].at <= clock
    BY TypeFacts DEF IInv, Past, Estimate
  <2>2. QED
    BY <2>1, TypeFacts, LatestIsNewest DEF IInv, ReadEstimate
<1>3. ReadOf(place, frame[w].market, frame[w].since.estimates, estimates)
  <2>1. frame[w].since.estimates <= Len(estimates)
    BY <1>1 DEF IInv, Hand
  <2>2. frame[w].since.estimates \in Nat /\ Len(estimates) \in Nat
    BY <1>1, RunningFrame, TypeFacts DEF IInv
  <2> HIDE DEF place
  <2>3. QED
    BY <1>2, <2>1, <2>2 DEF ReadOf
<1>4. f \in Frame
  <2>1. place \in Nat
    BY <1>2, TypeFacts DEF IInv
  <2> HIDE DEF place
  <2>2. QED
    BY <1>1, <2>1, RunningFrame DEF Frame
<1>5. frame' = [frame EXCEPT ![w] = f] /\ frame'[w] = f
  BY DEF IInv, TypeOK, ReadEstimate
<1>6. Hand(w)'
  <2>1. frame'[w] # NoFrame
    BY <1>4, <1>5, PipelineAssumption
  <2>2. /\ frame'[w].since = frame[w].since /\ frame'[w].market = frame[w].market
        /\ frame'[w].snapshot = frame[w].snapshot /\ frame'[w].estimate = place
    <3> HIDE DEF place
    <3>1. QED BY <1>1, <1>5, RunningFrame DEF Frame
  <2>3. UNCHANGED <<snapshots, estimates>>
    BY DEF ReadEstimate, store
  <2> HIDE DEF f, place
  <2>4. QED
    BY <1>1, <1>3, <2>1, <2>2, <2>3 DEF IInv, Hand
<1>7. QED
  BY <1>4, <1>5, <1>6, LocalStep DEF ReadEstimate, PC

(* The time of the signal is read after all it was made from was stored.   *)
LEMMA BuildSignalKeeps == ASSUME IInv, NEW w \in Workers, BuildSignal(w) PROVE IInv'
<1> DEFINE f == [frame[w] EXCEPT !.at = clock]
<1>1. pc[w] = "evaluate" /\ pc'[w] = "detected"
  BY GotoMoves DEF IInv, BuildSignal, PC
<1>2. f \in Frame
  BY <1>1, RunningFrame, TypeFacts DEF IInv, Frame
<1>3. frame' = [frame EXCEPT ![w] = f] /\ frame'[w] = f
  BY DEF IInv, TypeOK, BuildSignal
<1>4. Hand(w)'
  <2>1. frame'[w] # NoFrame
    BY <1>2, <1>3, PipelineAssumption
  <2>2. /\ frame'[w].since = frame[w].since /\ frame'[w].market = frame[w].market
        /\ frame'[w].snapshot = frame[w].snapshot /\ frame'[w].estimate = frame[w].estimate
        /\ frame'[w].at = clock
    BY <1>1, <1>3, RunningFrame DEF Frame
  <2>3. UNCHANGED <<snapshots, estimates>>
    BY DEF BuildSignal, store
  <2>4. /\ snapshots[frame[w].snapshot].at <= clock
        /\ estimates[frame[w].estimate].at <= clock
    BY <1>1 DEF IInv, Hand, Past, ReadOf
  <2> HIDE DEF f
  <2>5. QED
    BY <1>1, <2>1, <2>2, <2>3, <2>4 DEF IInv, Hand
<1>5. QED
  BY <1>2, <1>3, <1>4, LocalStep DEF BuildSignal, PC

(* Whichever evaluator runs, its verdict is a Boolean.                     *)
LEMMA VerdictIsBoolean ==
  ASSUME NEW a \in Int, NEW b \in Int
  PROVE  Actionable(a, b, 0) \in BOOLEAN
<1>1. CASE Evaluator = "gap"
  BY <1>1 DEF Actionable
<1>2. CASE Evaluator = "ev"
  BY <1>2 DEF Actionable
<1>3. CASE Evaluator = "threshold"
  BY <1>3 DEF Actionable
<1>4. CASE Evaluator = "confidence"
  BY <1>4 DEF Actionable
<1>5. QED
  BY <1>1, <1>2, <1>3, <1>4, EngineAssumption DEF Evaluators

(* A signal is stored, of the data its thread has read.                    *)
LEMMA SaveSignalKeeps == ASSUME IInv, NEW w \in Workers, SaveSignal(w) PROVE IInv'
<1> DEFINE s == Detected(frame[w])
<1>1. /\ pc[w] = "detected" /\ pc'[w] = "idle" /\ pc' \in [Workers -> PC]
      /\ \A v \in Workers : v # w => pc'[v] = pc[v]
  BY GotoMoves DEF IInv, SaveSignal, PC
<1>2. /\ s.market = frame[w].market /\ s.snapshot = frame[w].snapshot
      /\ s.estimate = frame[w].estimate /\ s.since = frame[w].since /\ s.at = frame[w].at
  BY DEF Detected
<1>3. SignalOf(s, known, snapshots, estimates)
  <2>1. frame[w].market \in known
    BY <1>1 DEF IInv, Hand, ReadOf, Past
  <2> HIDE DEF s
  <2>2. QED
    BY <1>1, <1>2, <2>1 DEF IInv, Hand, SignalOf
<1>4. s \in Signal
  <2>1. /\ frame[w].snapshot \in 1..Len(snapshots)
        /\ frame[w].estimate \in 1..Len(estimates)
        /\ snapshots[frame[w].snapshot].mid # NoPrice
    BY <1>1 DEF IInv, Hand, ReadOf
  <2>2. snapshots[frame[w].snapshot].mid \in Int
    BY <2>1, TypeFacts, PipelineAssumption DEF IInv, Snapshot
  <2>3. estimates[frame[w].estimate].probability \in Int
    <3>1. estimates[frame[w].estimate] \in Estimate
      BY <2>1, TypeFacts DEF IInv
    <3>2. QED
      BY <3>1, EngineAssumption DEF Estimate, Probability
  <2>4. ASSUME NEW a \in Int, NEW b \in Int
        PROVE  Evaluate(a, b, 0).edge \in Int /\ Evaluate(a, b, 0).actionable \in BOOLEAN
    <3>1. Evaluate(a, b, 0).edge = a - b /\ Evaluate(a, b, 0).actionable = Actionable(a, b, 0)
      BY DEF Evaluate, Edge
    <3>2. QED
      BY <3>1, VerdictIsBoolean
  <2>5. frame[w].since \in Stored
    BY <1>1, RunningFrame DEF Frame
  <2>6. /\ s.edge \in Int /\ s.actionable \in BOOLEAN
        /\ s.marketProb \in Int /\ s.modelProb \in Int
    BY <2>2, <2>3, <2>4 DEF Detected
  <2>7. /\ s.market \in Markets /\ s.estimate \in Nat /\ s.at \in Nat
        /\ s.snapshot \in Nat /\ s.since \in Stored
    BY <1>1, <1>2, <2>5, RunningFrame
  <2>8. s = [ market |-> s.market, estimate |-> s.estimate, marketProb |-> s.marketProb,
              modelProb |-> s.modelProb, edge |-> s.edge, at |-> s.at,
              snapshot |-> s.snapshot, actionable |-> s.actionable, since |-> s.since ]
    BY DEF Detected
  <2> HIDE DEF s
  <2>9. QED
    BY <2>6, <2>7, <2>8 DEF Signal
<1>5. /\ signals' \in Seq(Signal) /\ Len(signals') = Len(signals) + 1
      /\ signals'[Len(signals) + 1] = s
      /\ \A i \in 1..Len(signals) + 1 :
           (i \in 1..Len(signals) /\ signals'[i] = signals[i]) \/ i = Len(signals) + 1
  <2>1. signals' = Append(signals, s)
    BY DEF SaveSignal
  <2> HIDE DEF s
  <2>2. QED
    BY <1>4, <2>1, TypeFacts, AppendGrows DEF IInv
<1>6. /\ frame' \in [Workers -> Frame \union {NoFrame}] /\ frame'[w] = NoFrame
      /\ \A v \in Workers : v # w => frame'[v] = frame[v]
  BY DEF IInv, TypeOK, SaveSignal, Return
<1>7. TypeOK'
  BY <1>1, <1>5, <1>6 DEF IInv, TypeOK, SaveSignal
<1>8. StoresGrow
  BY TypeFacts, GrownSame DEF IInv, SaveSignal, StoresGrow
<1>9. Past'
  BY DEF IInv, Past, SaveSignal
<1>10. \A v \in Workers : Hand(v)'
  <2>1. Hand(w)'
    BY <1>1, <1>6 DEF Hand
  <2>2. QED
    BY <1>1, <1>6, <1>7, <1>8, <2>1, HandKept DEF IInv
<1>11. \A i \in 1..Len(signals') : SignalOf(signals'[i], known', snapshots', estimates')
  <2>1. UNCHANGED <<known, snapshots, estimates>>
    BY DEF SaveSignal
  <2> HIDE DEF s
  <2>2. QED
    BY <1>3, <1>5, <2>1 DEF IInv
<1>12. QED
  BY <1>7, <1>9, <1>10, <1>11 DEF IInv

----------------------------------------------------------------------------
(* Every reachable state satisfies the inductive invariant.                *)
THEOREM Inductive == Spec => []IInv
<1>1. Init => IInv
  BY PipelineAssumption
     DEF Init, IInv, TypeOK, PC, Hand, Past, SignalOf
<1>2. IInv /\ [Next]_vars => IInv'
  <2> SUFFICES ASSUME IInv, [Next]_vars
               PROVE  IInv'
    OBVIOUS
  <2>1. CASE Tick
    BY <2>1, TickKeeps
  <2>2. ASSUME NEW m \in Markets, NEW mid \in Prices \union {NoPrice}, Observe(m, mid)
        PROVE  IInv'
    BY <2>2, ObserveKeeps
  <2>3. CASE KeepMarket
    BY <2>3, KeepMarketKeeps
  <2>4. CASE KeepSnapshot
    BY <2>4, KeepSnapshotKeeps
  <2>5. CASE DropRecord
    BY <2>5, DropRecordKeeps
  <2>6. ASSUME NEW w \in Workers,
               UnknownMarket(w) \/ EstimateRefused(w) \/ NoMidPrice(w)
                 \/ NoEstimate(w) \/ StoreFails(w)
        PROVE  IInv'
    BY <2>6, ReturnKeeps
       DEF UnknownMarket, EstimateRefused, NoMidPrice, NoEstimate, StoreFails, Goto
  <2>7. ASSUME NEW w \in Workers, AskEstimate(w) \/ AskSignal(w)
        PROVE  IInv'
    BY <2>7, AskKeeps DEF AskEstimate, AskSignal
  <2>8. ASSUME NEW w \in Workers, RunModel(w) \/ SaveEstimate(w)
        PROVE  IInv'
    BY <2>8, RunModelKeeps, SaveEstimateKeeps
  <2>9. ASSUME NEW w \in Workers,
               ReadSnapshot(w) \/ ReadEstimate(w) \/ BuildSignal(w) \/ SaveSignal(w)
        PROVE  IInv'
    BY <2>9, ReadSnapshotKeeps, ReadEstimateKeeps, BuildSignalKeeps, SaveSignalKeeps
  <2>10. CASE UNCHANGED vars
    BY <2>10 DEF vars, store, IInv, TypeOK, Hand, Past
  <2>11. QED
    BY <2>1, <2>2, <2>3, <2>4, <2>5, <2>6, <2>7, <2>8, <2>9, <2>10 DEF Next
<1>3. QED
  BY <1>1, <1>2, PTL DEF Spec

(* Types hold however many threads, markets and requests there are.        *)
THEOREM TypeCorrect == Spec => []TypeOK
BY Inductive, PTL DEF IInv

(* No signal precedes, or mixes up, the data it was made from.             *)
THEOREM NoLookaheadInSignals == Spec => []SignalsFollowTheirData
<1>1. IInv => SignalsFollowTheirData
  BY DEF IInv, SignalsFollowTheirData, SignalOf, ReadOf
<1>2. QED
  BY <1>1, Inductive, PTL

(* No signal is staler than what was stored when its request began.        *)
THEOREM SignalsAreFresh == Spec => []SignalsNeverStale
<1>1. IInv => SignalsNeverStale
  BY DEF IInv, SignalsNeverStale, SignalOf, ReadOf
<1>2. QED
  BY <1>1, Inductive, PTL


----------------------------------------------------------------------------
(* The sort of list_recent and rank_signals.  The rank of a place in a     *)
(* list counts the places with a higher key, and the earlier ones with the *)
(* same.                                                                   *)
Keyed(key, S) == IsFiniteSet(S) /\ S \subseteq Nat /\ \A i \in S : key[i] \in Int

Ahead(key, S, i) == { j \in S : key[j] > key[i] \/ (key[j] = key[i] /\ j < i) }

RankOf(key, S, i) == Cardinality(Ahead(key, S, i)) + 1

(* A rank is one of as many as there are places.                           *)
LEMMA RankTyped ==
  ASSUME NEW key, NEW S, Keyed(key, S), NEW i \in S
  PROVE  /\ Cardinality(S) \in Nat /\ IsFiniteSet(Ahead(key, S, i))
         /\ RankOf(key, S, i) \in 1..Cardinality(S)
<1>1. IsFiniteSet(S) /\ S \subseteq Nat /\ key[i] \in Int /\ i \in Nat
  BY DEF Keyed
<1>2. Ahead(key, S, i) \subseteq S \ {i}
  BY <1>1 DEF Ahead
<1>3. IsFiniteSet(S \ {i}) /\ Cardinality(S \ {i}) = Cardinality(S) - 1
  BY <1>1, FS_RemoveElement
<1>4. IsFiniteSet(Ahead(key, S, i)) /\ Cardinality(Ahead(key, S, i)) <= Cardinality(S \ {i})
  BY <1>2, <1>3, FS_Subset
<1>5. Cardinality(Ahead(key, S, i)) \in Nat /\ Cardinality(S) \in Nat
  BY <1>1, <1>4, FS_CardinalityType
<1>6. QED
  BY <1>3, <1>4, <1>5 DEF RankOf

(* A higher key, or an earlier place with the same, ranks first.           *)
LEMMA RankOrders ==
  ASSUME NEW key, NEW S, Keyed(key, S), NEW i \in S, NEW j \in S,
         key[i] > key[j] \/ (key[i] = key[j] /\ i < j)
  PROVE  RankOf(key, S, i) < RankOf(key, S, j)
<1>1. \A k \in S : k \in Nat /\ key[k] \in Int
  BY DEF Keyed
<1>2. Ahead(key, S, i) \subseteq Ahead(key, S, j)
  BY <1>1 DEF Ahead
<1>3. i \in Ahead(key, S, j) /\ i \notin Ahead(key, S, i)
  BY <1>1 DEF Ahead
<1>4. IsFiniteSet(Ahead(key, S, j)) /\ IsFiniteSet(Ahead(key, S, i))
  BY RankTyped
<1>5. /\ Cardinality(Ahead(key, S, i)) \in Nat /\ Cardinality(Ahead(key, S, j)) \in Nat
      /\ Cardinality(Ahead(key, S, i)) <= Cardinality(Ahead(key, S, j))
      /\ Cardinality(Ahead(key, S, i)) # Cardinality(Ahead(key, S, j))
  BY <1>2, <1>3, <1>4, FS_Subset, FS_CardinalityType
<1>6. QED
  BY <1>5 DEF RankOf

(* Every rank is taken, and by one place.                                  *)
LEMMA RanksTaken ==
  ASSUME NEW key, NEW S, Keyed(key, S)
  PROVE  /\ \A i, j \in S : RankOf(key, S, i) = RankOf(key, S, j) => i = j
         /\ \A k \in 1..Cardinality(S) : \E i \in S : RankOf(key, S, i) = k
<1> DEFINE n == Cardinality(S)
           f == [ i \in S |-> RankOf(key, S, i) ]
<1>1. ASSUME NEW i \in S, NEW j \in S, i # j
      PROVE  RankOf(key, S, i) # RankOf(key, S, j)
  <2>1. i \in Nat /\ j \in Nat /\ key[i] \in Int /\ key[j] \in Int
    BY DEF Keyed
  <2>2. \/ key[i] > key[j] \/ (key[i] = key[j] /\ i < j)
        \/ key[j] > key[i] \/ (key[j] = key[i] /\ j < i)
    BY <1>1, <2>1
  <2>3. RankOf(key, S, i) < RankOf(key, S, j) \/ RankOf(key, S, j) < RankOf(key, S, i)
    BY <2>2, RankOrders
  <2>4. RankOf(key, S, i) \in Int /\ RankOf(key, S, j) \in Int
    BY RankTyped
  <2>5. QED
    BY <2>3, <2>4
<1>2. n \in Nat /\ IsFiniteSet(1..n) /\ Cardinality(1..n) = n
  <2>1. n \in Nat
    BY FS_CardinalityType DEF Keyed
  <2>2. QED
    BY <2>1, FS_Interval
<1>3. f \in Injection(S, 1..n)
  BY <1>1, RankTyped DEF Injection, IsInjective
<1>4. f \in Surjection(S, 1..n)
  BY <1>2, <1>3, FS_Injection
<1>5. \A k \in 1..n : \E i \in S : RankOf(key, S, i) = k
  BY <1>4 DEF Surjection
<1>6. QED
  BY <1>1, <1>5

(* What sorting the elements of a list at the places of S gives.           *)
Sorts(sorted, list, key, S) ==
  /\ DOMAIN sorted = 1..Cardinality(S)
  /\ \A k \in 1..Cardinality(S) : \E i \in S : RankOf(key, S, i) = k /\ sorted[k] = list[i]

(* The elements are where their rank says, by descending key.              *)
LEMMA SortedByRank ==
  ASSUME NEW sorted, NEW list, NEW key, NEW S, Keyed(key, S), Sorts(sorted, list, key, S)
  PROVE  /\ \A i \in S : sorted[RankOf(key, S, i)] = list[i]
         /\ \A i, j \in S : RankOf(key, S, i) <= RankOf(key, S, j) => key[i] >= key[j]
<1>1. \A i \in S : sorted[RankOf(key, S, i)] = list[i]
  BY RankTyped, RanksTaken DEF Sorts
<1>2. ASSUME NEW i \in S, NEW j \in S, RankOf(key, S, i) <= RankOf(key, S, j), key[i] < key[j]
      PROVE  FALSE
  <2>1. key[i] \in Int /\ key[j] \in Int
    BY DEF Keyed
  <2>2. RankOf(key, S, j) < RankOf(key, S, i)
    BY <1>2, <2>1, RankOrders
  <2>3. RankOf(key, S, j) \in Int /\ RankOf(key, S, i) \in Int
    BY RankTyped
  <2>4. QED
    BY <1>2, <2>2, <2>3
<1>3. QED
  BY <1>1, <1>2 DEF Keyed

----------------------------------------------------------------------------
(* What GET /signals shows is sorted by time.                              *)
LEMMA RecentSorts ==
  ASSUME TypeOK, NEW key, key = [ i \in DOMAIN signals |-> signals[i].at ]
  PROVE  /\ Keyed(key, DOMAIN signals)
         /\ Sorts(NewestFirst(signals), signals, key, DOMAIN signals)
<1> DEFINE S == DOMAIN signals
           n == Cardinality(S)
           ahead(i) == { j \in S : \/ signals[j].at > signals[i].at
                                   \/ signals[j].at = signals[i].at /\ j < i }
           sorted == NewestFirst(signals)
<1>1. S = 1..Len(signals) /\ Len(signals) \in Nat /\ \A i \in S : signals[i] \in Signal
  BY TypeFacts
<1>2. Keyed(key, S)
  <2>1. \A i \in S : signals[i].at \in Int
    BY <1>1 DEF Signal
  <2>2. IsFiniteSet(1..Len(signals)) /\ 1..Len(signals) \subseteq Nat
    BY <1>1, FS_Interval
  <2>3. QED
    BY <1>1, <2>1, <2>2 DEF Keyed
<1>3. \A i \in S : ahead(i) = Ahead(key, S, i)
  <2>1. \A i \in S : key[i] = signals[i].at
    OBVIOUS
  <2>2. QED
    BY <2>1 DEF Ahead
<1>4. \A i \in S : Cardinality(ahead(i)) + 1 = RankOf(key, S, i)
  BY <1>3 DEF RankOf
<1>5. sorted = [ k \in 1..n |-> signals[CHOOSE i \in S : Cardinality(ahead(i)) + 1 = k] ]
  <2>1. Len(signals) = n
    <3>1. PICK m \in Nat : m = Len(signals)
      BY <1>1
    <3>2. Cardinality(1..m) = m
      BY FS_Interval
    <3>3. QED
      BY <1>1, <3>1, <3>2
  <2>2. sorted = [ k \in 1..Len(signals) |->
                     signals[CHOOSE i \in S : Cardinality(ahead(i)) + 1 = k] ]
    BY DEF NewestFirst
  <2>3. QED
    BY <2>1, <2>2
<1> HIDE DEF ahead, sorted, S
<1>6. ASSUME NEW k \in 1..n PROVE \E i \in S : RankOf(key, S, i) = k /\ sorted[k] = signals[i]
  <2>1. \E i \in S : Cardinality(ahead(i)) + 1 = k
    BY <1>2, <1>4, RanksTaken
  <2>2. PICK c : c = CHOOSE i \in S : Cardinality(ahead(i)) + 1 = k
    OBVIOUS
  <2>3. c \in S /\ Cardinality(ahead(c)) + 1 = k
    BY <2>1, <2>2
  <2>4. sorted[k] = signals[c]
    BY <1>5, <2>2
  <2>5. QED
    BY <1>4, <2>3, <2>4
<1>7. DOMAIN sorted = 1..n
  BY <1>5
<1>8. QED
  BY <1>2, <1>6, <1>7 DEF Sorts, S, sorted

(* Whatever the order signals were stored in, the most recent are shown,   *)
(* newest first.                                                           *)
THEOREM RecentOnesAreShown == Spec => []RecentIsNewest
<1>1. TypeOK => RecentIsNewest
  <2>1. SUFFICES ASSUME TypeOK, NEW limit \in 1..MaxRequests
        PROVE  LET shown == ListRecent(limit) IN
               /\ Len(shown) = IF limit < Len(signals) THEN limit ELSE Len(signals)
               /\ \A k \in 1..Len(shown) - 1 : shown[k].at >= shown[k + 1].at
               /\ \A i \in 1..Len(signals) :
                    \/ \E k \in 1..Len(shown) : shown[k] = signals[i]
                    \/ \A k \in 1..Len(shown) : signals[i].at <= shown[k].at
    BY DEF RecentIsNewest
  <2>2. PICK S, n, key, sorted, m, shown :
          /\ S = DOMAIN signals /\ n = Len(signals)
          /\ key = [ i \in DOMAIN signals |-> signals[i].at ]
          /\ sorted = NewestFirst(signals)
          /\ m = IF limit < Len(signals) THEN limit ELSE Len(signals)
          /\ shown = ListRecent(limit)
    OBVIOUS
  <2>3. Keyed(key, S) /\ Sorts(sorted, signals, key, S)
    BY <2>1, <2>2, RecentSorts
  <2>4. n \in Nat /\ S = 1..n /\ \A i \in S : signals[i] \in Signal
    BY <2>1, <2>2, TypeFacts
  <2>5. Cardinality(S) = n
    BY <2>4, FS_Interval
  <2>6. \A k \in 1..n : \E i \in S : RankOf(key, S, i) = k /\ sorted[k] = signals[i]
    BY <2>3, <2>5 DEF Sorts
  <2>7. sorted \in Seq(Signal) /\ Len(sorted) = n
    <3>1. DOMAIN sorted = 1..n /\ \A k \in 1..n : sorted[k] \in Signal
      BY <2>3, <2>4, <2>5, <2>6 DEF Sorts
    <3>2. sorted = [ k \in 1..n |-> sorted[k] ]
      BY <2>2, <2>5, <3>1 DEF NewestFirst
    <3>3. sorted \in [1..n -> Signal]
      BY <3>1, <3>2
    <3>4. QED
      BY <2>4, <3>3
  <2>8. m \in Nat /\ m <= n
    BY <2>2, <2>4
  <2>9. shown = SubSeq(sorted, 1, m)
    BY <2>2 DEF ListRecent
  <2>10. Len(shown) = m /\ \A k \in 1..m : shown[k] = sorted[k] /\ k \in 1..n
    BY <2>4, <2>7, <2>8, <2>9
  <2>11. \A i \in S : RankOf(key, S, i) \in 1..n /\ sorted[RankOf(key, S, i)] = signals[i]
                      /\ key[i] = signals[i].at /\ signals[i].at \in Int
    <3>1. \A i \in S : RankOf(key, S, i) \in 1..n
      BY <2>3, <2>5, RankTyped
    <3>2. \A i \in S : sorted[RankOf(key, S, i)] = signals[i]
      BY <2>3, SortedByRank
    <3>3. \A i \in S : key[i] = signals[i].at
      BY <2>2
    <3>4. \A i \in S : signals[i].at \in Int
      BY <2>4 DEF Signal
    <3>5. QED
      BY <3>1, <3>2, <3>3, <3>4
  <2>12. \A k, l \in 1..n : k <= l => sorted[k].at >= sorted[l].at
    <3>1. ASSUME NEW k \in 1..n, NEW l \in 1..n, k <= l PROVE sorted[k].at >= sorted[l].at
      <4>1. PICK i \in S : RankOf(key, S, i) = k /\ sorted[k] = signals[i]
        BY <2>6
      <4>2. PICK j \in S : RankOf(key, S, j) = l /\ sorted[l] = signals[j]
        BY <2>6
      <4>3. key[i] >= key[j]
        BY <2>3, <3>1, <4>1, <4>2, SortedByRank
      <4>4. QED
        BY <2>11, <4>1, <4>2, <4>3
    <3>2. QED
      BY <3>1
  <2>13. \A k \in 1..m - 1 : shown[k].at >= shown[k + 1].at
    <3>1. \A k \in 1..m - 1 : k \in 1..m /\ k + 1 \in 1..m /\ k \in 1..n /\ k + 1 \in 1..n /\ k <= k + 1
      BY <2>4, <2>8
    <3>2. QED
      BY <2>10, <2>12, <3>1
  <2>14. ASSUME NEW i \in 1..n
         PROVE  \/ \E k \in 1..m : shown[k] = signals[i]
                \/ \A k \in 1..m : signals[i].at <= shown[k].at
    <3>1. PICK r \in 1..n : r = RankOf(key, S, i)
      BY <2>4, <2>11
    <3>2. sorted[r] = signals[i] /\ signals[i].at \in Int
      BY <2>4, <2>11, <3>1
    <3>3. CASE r <= m
      <4>1. r \in 1..m
        BY <2>8, <3>3
      <4>2. QED
        BY <2>10, <3>2, <4>1
    <3>4. CASE ~ (r <= m)
      <4>1. ASSUME NEW k \in 1..m PROVE signals[i].at <= shown[k].at
        <5>1. k \in 1..n /\ k <= r
          BY <2>4, <2>8, <3>4
        <5>2. sorted[k].at >= sorted[r].at
          BY <2>12, <5>1
        <5>3. PICK j \in S : sorted[k] = signals[j]
          BY <2>6, <5>1
        <5>4. sorted[k].at \in Int
          BY <2>11, <5>3
        <5>5. QED
          BY <2>10, <3>2, <5>2, <5>4
      <4>2. QED
        BY <4>1
    <3>5. QED
      BY <3>3, <3>4
  <2>15. QED
    BY <2>2, <2>10, <2>13, <2>14
<1>2. QED
  BY <1>1, TypeCorrect, PTL

============================================================================
