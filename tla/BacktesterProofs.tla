-------------------------- MODULE BacktesterProofs --------------------------
(***************************************************************************)
(* Theorems about Backtester for every history, quote and limit and every  *)
(* whole quantity a strategy orders, unless one says otherwise: the replay *)
(* shows each snapshot once and never a later one before an earlier one    *)
(* (RInv), and no round trip is booked on a position closed before         *)
(* (OpeningInv, for quantities that are not negative); drawdown, hit rate and return agree with the trips (AccountInv) *)
(* and with the cash that moved (CashInv); and what is recorded is what    *)
(* the replay computed (Summarised), whose calibration buckets hold every  *)
(* pair once and explain no more than the Brier score.                     *)
(***************************************************************************)
EXTENDS Backtester, DataTheorems

----------------------------------------------------------------------------
(* The sort.  The place of a snapshot is the number of those that come     *)
(* before it or are itself.                                                *)
UpTo(s, i) ==
  { j \in DOMAIN s : s[j].at < s[i].at \/ (s[j].at = s[i].at /\ j <= i) }

Place(s, i) == Cardinality(UpTo(s, i))

At(s, k) == CHOOSE i \in DOMAIN s : Place(s, i) = k

(* The sort in terms of At.                                                *)
LEMMA SortedIs ==
  ASSUME NEW s
  PROVE  Chronological(s) = [ k \in DOMAIN s |-> s[At(s, k)] ]
BY DEF Chronological, At, Place, UpTo

(* A history is a sequence of snapshots with their times.                  *)
History(s, n) == n \in Nat /\ s \in [1..n -> Snapshot]

(* Every snapshot of a history has a time that is a natural number.        *)
LEMMA Timed ==
  ASSUME NEW s, NEW n, History(s, n)
  PROVE  DOMAIN s = 1..n /\ \A i \in 1..n : s[i] \in Snapshot /\ s[i].at \in Nat
<1>1. DOMAIN s = 1..n /\ \A i \in 1..n : s[i] \in Snapshot
  BY DEF History
<1>2. QED
  BY <1>1, BacktestAssumption DEF Snapshot

(* A place is a place of the history.                                      *)
LEMMA PlaceTyped ==
  ASSUME NEW s, NEW n, History(s, n), NEW i \in 1..n
  PROVE  IsFiniteSet(UpTo(s, i)) /\ UpTo(s, i) \in SUBSET (1..n) /\ Place(s, i) \in 1..n
<1>1. n \in Nat /\ IsFiniteSet(1..n) /\ Cardinality(1..n) = n
  BY FS_Interval DEF History
<1>2. UpTo(s, i) \in SUBSET (1..n) /\ i \in UpTo(s, i)
  BY <1>1, Timed DEF UpTo
<1>3. IsFiniteSet(UpTo(s, i)) /\ Cardinality(UpTo(s, i)) <= n
  BY <1>1, <1>2, FS_Subset
<1>4. Cardinality(UpTo(s, i)) \in Nat /\ Cardinality(UpTo(s, i)) # 0
  BY <1>2, <1>3, FS_CardinalityType, FS_EmptySet
<1>5. QED
  BY <1>1, <1>2, <1>3, <1>4 DEF Place

(* Of two snapshots the one that comes first has the lower place.          *)
LEMMA PlaceOrders ==
  ASSUME NEW s, NEW n, History(s, n), NEW i \in 1..n, NEW j \in 1..n, i # j,
         s[i].at < s[j].at \/ (s[i].at = s[j].at /\ i <= j)
  PROVE  Place(s, i) < Place(s, j)
<1>1. UpTo(s, i) \subseteq UpTo(s, j)
  <2>1. n \in Nat
    BY DEF History
  <2>2. QED
    BY <2>1, Timed DEF UpTo
<1>2. j \in UpTo(s, j) /\ j \notin UpTo(s, i)
  <2>1. n \in Nat
    BY DEF History
  <2>2. QED
    BY <2>1, Timed DEF UpTo
<1>3. IsFiniteSet(UpTo(s, j)) /\ Place(s, i) \in Nat /\ Place(s, j) \in Nat
  BY PlaceTyped
<1>4. Place(s, i) <= Place(s, j) /\ (Place(s, j) = Place(s, i) => UpTo(s, j) = UpTo(s, i))
  BY <1>1, <1>3, FS_Subset DEF Place
<1>5. QED
  BY <1>2, <1>3, <1>4

(* No two snapshots have one place.                                        *)
LEMMA PlacesDiffer ==
  ASSUME NEW s, NEW n, History(s, n), NEW i \in 1..n, NEW j \in 1..n, i # j
  PROVE  Place(s, i) # Place(s, j)
<1>1. s[i].at \in Nat /\ s[j].at \in Nat /\ n \in Nat
  BY Timed DEF History
<1>2. \/ s[i].at < s[j].at \/ (s[i].at = s[j].at /\ i <= j)
      \/ s[j].at < s[i].at \/ (s[j].at = s[i].at /\ j <= i)
  BY <1>1
<1>3. Place(s, i) < Place(s, j) \/ Place(s, j) < Place(s, i)
  BY <1>2, PlaceOrders
<1>4. Place(s, i) \in Nat /\ Place(s, j) \in Nat
  BY PlaceTyped
<1>5. QED
  BY <1>3, <1>4

(* Every place is taken, by the snapshot the sort puts there.              *)
LEMMA PlacesTaken ==
  ASSUME NEW s, NEW n, History(s, n), NEW k \in 1..n
  PROVE  At(s, k) \in 1..n /\ Place(s, At(s, k)) = k
<1> DEFINE f == [ i \in 1..n |-> Place(s, i) ]
<1>1. n \in Nat /\ IsFiniteSet(1..n)
  BY FS_Interval DEF History
<1>2. f \in Injection(1..n, 1..n)
  BY PlaceTyped, PlacesDiffer DEF Injection, IsInjective
<1>3. f \in Surjection(1..n, 1..n)
  BY <1>1, <1>2, FS_Injection
<1>4. \E i \in 1..n : Place(s, i) = k
  BY <1>3 DEF Surjection
<1>5. DOMAIN s = 1..n
  BY Timed
<1>6. QED
  BY <1>4, <1>5 DEF At

(* The sorted history is a history, in the order of time.                  *)
LEMMA SortOrders ==
  ASSUME NEW s, NEW n, History(s, n)
  PROVE  /\ History(Chronological(s), n)
         /\ \A k, l \in 1..n : k < l => Chronological(s)[k].at <= Chronological(s)[l].at
<1>1. DOMAIN s = 1..n /\ n \in Nat
  BY Timed DEF History
<1>2. \A k \in 1..n : Chronological(s)[k] = s[At(s, k)]
  BY <1>1, SortedIs
<1>3. Chronological(s) \in [1..n -> Snapshot]
  BY <1>1, PlacesTaken, Timed, SortedIs
<1>4. ASSUME NEW k \in 1..n, NEW l \in 1..n, k < l
      PROVE  s[At(s, k)].at <= s[At(s, l)].at
  <2>1. /\ At(s, k) \in 1..n /\ At(s, l) \in 1..n
        /\ Place(s, At(s, k)) = k /\ Place(s, At(s, l)) = l
    BY PlacesTaken
  <2>2. s[At(s, k)].at \in Nat /\ s[At(s, l)].at \in Nat
    BY <2>1, Timed
  <2>3. CASE s[At(s, l)].at < s[At(s, k)].at
    <3>1. At(s, l) # At(s, k)
      BY <1>4, <2>1
    <3>2. l < k
      BY <2>1, <2>3, <3>1, PlaceOrders
    <3>3. QED
      BY <1>1, <1>4, <3>2
  <2>4. QED
    BY <2>2, <2>3
<1>5. QED
  BY <1>1, <1>2, <1>3, <1>4 DEF History

(* It holds every snapshot as often as the history does.                   *)
LEMMA SortKeeps ==
  ASSUME NEW s, NEW n, History(s, n), NEW x
  PROVE  Count(Chronological(s), x) = Count(s, x)
<1> DEFINE c == Chronological(s)
           S == { k \in 1..n : c[k] = x }
           T == { i \in 1..n : s[i] = x }
           g == [ k \in S |-> At(s, k) ]
<1>1. n \in Nat /\ DOMAIN s = 1..n /\ DOMAIN c = 1..n
  BY Timed, SortedIs DEF History
<1>2. \A k \in 1..n : c[k] = s[At(s, k)]
  BY <1>1, SortedIs
<1> HIDE DEF c
<1>3. g \in [S -> T]
  BY <1>2, PlacesTaken
<1>4. g \in Injection(S, T)
  <2>1. \A k, l \in S : g[k] = g[l] => k = l
    BY PlacesTaken
  <2>2. QED
    BY <1>3, <2>1 DEF Injection, IsInjective
<1>5. g \in Surjection(S, T)
  <2>1. ASSUME NEW i \in T PROVE \E k \in S : g[k] = i
    <3>1. Place(s, i) \in 1..n
      BY PlaceTyped
    <3>2. At(s, Place(s, i)) = i
      BY <3>1, PlacesTaken, PlacesDiffer
    <3>3. Place(s, i) \in S
      BY <1>2, <3>1, <3>2
    <3>4. QED
      BY <3>2, <3>3
  <2>2. QED
    BY <1>3, <2>1 DEF Surjection
<1>6. ExistsBijection(S, T)
  BY <1>4, <1>5 DEF ExistsBijection, Bijection
<1>7. IsFiniteSet(S)
  BY <1>1, FS_Interval, FS_Subset
<1>8. Cardinality(T) = Cardinality(S)
  BY <1>6, <1>7, FS_Bijection
<1>9. QED
  BY <1>1, <1>8 DEF Count, c

----------------------------------------------------------------------------
(* The replay goes through the sorted history.                             *)
Replays ==
  /\ pc \in PC /\ next \in Nat \ {0}
  /\ \E n \in Nat : History(snapshots, n)
  /\ pc = "idle" => next = 1
  /\ pc \in {"replay", "returned", "raised"} => replay = Chronological(snapshots)

(* What is held was entered no later than any snapshot still to come.      *)
HeldSince ==
  /\ qty \in Int /\ entry \in Entry \union {NoEntry}
  /\ pc = "idle" => entry = NoEntry
  /\ pc = "replay" /\ entry # NoEntry =>
       \A k \in 1..Len(replay) : next <= k => entry.at <= replay[k].at

(* The trips booked so far are well-formed.                                *)
TripsEnd ==
  /\ pairs \in Seq([held : Int, forecast : Nat, profitable : BOOLEAN])
  /\ \A i \in 1..Len(pairs) : pairs[i].held >= 0

RInv == Replays /\ HeldSince /\ TripsEnd

(* Before the replay nothing is held and no trip is booked.                *)
LEMMA InitRInv == Init => RInv
<1> SUFFICES ASSUME Init PROVE RInv
  OBVIOUS
<1>1. PICK n \in 0..MaxSnapshots : snapshots \in [1..n -> Snapshot]
  BY DEF Init
<1>2. History(snapshots, n)
  BY <1>1, BacktestAssumption DEF History
<1>3. QED
  BY <1>2 DEF Init, RInv, Replays, HeldSince, TripsEnd, PC, History

(* What is known of the snapshot of a turn.                                *)
LEMMA TurnFacts ==
  ASSUME Replays, pc = "replay"
  PROVE  \E n \in Nat : /\ History(replay, n) /\ Len(replay) = n
                        /\ \A i \in 1..n : replay[i] \in Snapshot /\ replay[i].at \in Nat
                        /\ \A i, j \in 1..n : i < j => replay[i].at <= replay[j].at
<1>1. PICK n \in Nat : History(snapshots, n)
  BY DEF Replays
<1>2. replay = Chronological(snapshots)
  BY DEF Replays
<1>3. /\ History(replay, n)
      /\ \A i, j \in 1..n : i < j => replay[i].at <= replay[j].at
  BY <1>1, <1>2, SortOrders
<1>4. Len(replay) = n
  BY <1>3 DEF History
<1>5. QED
  BY <1>3, <1>4, Timed

(* A turn that leaves the position alone.                                  *)
LEMMA IdleTurn ==
  ASSUME RInv, pc = "replay", Turn, UNCHANGED position
  PROVE  RInv'
<1>1. Replays'
  BY DEF RInv, Replays, Turn
<1>2. HeldSince' /\ TripsEnd'
  BY DEF RInv, Replays, HeldSince, TripsEnd, Turn, position
<1>3. QED
  BY <1>1, <1>2 DEF RInv

(* A buy enters a position at the snapshot of this turn, or adds to one.   *)
LEMMA BuyKeeps ==
  ASSUME RInv, NEW quantity \in Quantities, BuyFills(quantity)
  PROVE  RInv'
<1>1. /\ pc = "replay" /\ pc' = pc /\ next \in 1..Len(replay) /\ next' = next + 1
      /\ Current.quote # OneSided /\ replay' = replay /\ snapshots' = snapshots
      /\ pairs' = pairs /\ qty' = qty + quantity
      /\ entry' = IF qty = 0 THEN EntryAt(Current) ELSE entry
  BY DEF BuyFills, EntryAfterBuy, AtQuote, Turn, RInv, Replays
<1>2. quantity \in Int /\ qty \in Int
  BY BacktestAssumption DEF RInv, HeldSince
<1>3. PICK n \in Nat :
        /\ Len(replay) = n
        /\ \A i \in 1..n : replay[i] \in Snapshot /\ replay[i].at \in Nat
        /\ \A i, j \in 1..n : i < j => replay[i].at <= replay[j].at
  BY <1>1, TurnFacts DEF RInv
<1>4. Replays' /\ TripsEnd'
  BY <1>1 DEF RInv, Replays, TripsEnd
<1>5. CASE qty = 0
  <2> DEFINE e == EntryAt(Current)
  <2>1. Current \in Snapshot /\ Current.quote \in Quotes
    BY <1>1, <1>3 DEF Current, Snapshot
  <2>2. Current.quote.bid \in Nat /\ Current.quote.ask \in Nat
    BY <2>1, BacktestAssumption DEF Quote
  <2>3. e \in Entry
    BY <2>1, <2>2 DEF Snapshot, Entry, EntryAt
  <2>4. e # NoEntry
    BY <2>3, BacktestNullAssumption
  <2>5. \A k \in 1..n : next + 1 <= k => e.at <= replay[k].at
    BY <1>1, <1>3 DEF Current, EntryAt
  <2> HIDE DEF e
  <2>6. entry' = e
    BY <1>1, <1>5 DEF e
  <2>7. QED
    BY <1>1, <1>2, <1>3, <1>4, <2>3, <2>4, <2>5, <2>6 DEF RInv, HeldSince
<1>6. CASE qty # 0
  BY <1>1, <1>2, <1>3, <1>4, <1>6 DEF RInv, HeldSince
<1>7. QED
  BY <1>5, <1>6

(* A sale books a trip from the entry, and forgets it when it closes.      *)
LEMMA SellKeeps ==
  ASSUME RInv, NEW quantity \in Quantities, SellFills(quantity)
  PROVE  RInv'
<1> DEFINE pnl == FeeScale * (CostScale * FillOf("SELL", quantity, Current.quote).price - avg)
                    * quantity - CostScale * FillOf("SELL", quantity, Current.quote).fee
           trip == [held |-> Current.at - entry.at, forecast |-> entry.mid,
                    profitable |-> pnl > 0]
<1>1. /\ pc = "replay" /\ pc' = pc /\ next \in 1..Len(replay) /\ next' = next + 1
      /\ replay' = replay /\ snapshots' = snapshots
      /\ Close(quantity)
      /\ pairs' = IF entry = NoEntry THEN pairs ELSE Append(pairs, trip)
  BY DEF SellFills, AtQuote, Turn, RInv, Replays
<1>2. quantity \in Int /\ qty \in Int
  BY BacktestAssumption DEF RInv, HeldSince
<1>3. PICK n \in Nat :
        /\ Len(replay) = n
        /\ \A i \in 1..n : replay[i] \in Snapshot /\ replay[i].at \in Nat
  BY <1>1, TurnFacts DEF RInv
<1>4. Replays'
  BY <1>1 DEF RInv, Replays
<1>5. HeldSince'
  <2>1. CASE quantity >= qty
    BY <1>1, <2>1 DEF RInv, HeldSince, Close
  <2>2. CASE ~ (quantity >= qty)
    <3>1. qty' = qty - quantity /\ qty' \in Int /\ entry' = entry
      BY <1>1, <1>2, <2>2 DEF Close
    <3>2. QED
      BY <1>1, <1>3, <3>1 DEF RInv, HeldSince
  <2>3. QED
    BY <2>1, <2>2
<1>6. TripsEnd'
  <2>1. CASE entry = NoEntry
    BY <1>1, <2>1 DEF RInv, TripsEnd
  <2>2. CASE entry # NoEntry
    <3>1. entry \in Entry /\ entry.at \in Nat /\ entry.mid \in Nat
      BY <2>2, BacktestAssumption DEF RInv, HeldSince, Entry
    <3>2. Current.at \in Nat /\ entry.at <= Current.at
      BY <1>1, <1>3, <2>2 DEF RInv, HeldSince, Current
    <3>3. trip \in [held : Int, forecast : Nat, profitable : BOOLEAN] /\ trip.held >= 0
      BY <3>1, <3>2
    <3> HIDE DEF trip
    <3>4. pairs' = Append(pairs, trip)
      BY <1>1, <2>2
    <3>5. QED
      BY <3>3, <3>4 DEF RInv, TripsEnd
  <2>3. QED
    BY <2>1, <2>2
<1>7. QED
  BY <1>4, <1>5, <1>6 DEF RInv

(* Every step keeps the three.                                             *)
LEMMA StepRInv == RInv /\ [Next]_vars => RInv'
<1> SUFFICES ASSUME RInv, [Next]_vars PROVE RInv'
  OBVIOUS
<1>1. CASE UnknownMarket
  BY <1>1 DEF UnknownMarket, RInv, Replays, HeldSince, TripsEnd, PC, position
<1>2. CASE Load
  BY <1>2 DEF Load, RInv, Replays, HeldSince, TripsEnd, PC, position
<1>3. CASE SkipOneSided
  BY <1>3, IdleTurn DEF SkipOneSided
<1>4. CASE StrategyHolds
  BY <1>4, IdleTurn DEF StrategyHolds, AtQuote
<1>5. CASE StrategyRaises
  BY <1>5 DEF StrategyRaises, AtQuote, RInv, Replays, HeldSince, TripsEnd, PC, position
<1>6. ASSUME NEW side \in OrderSide, NEW quantity \in Quantities, OrderRejected(side, quantity)
      PROVE  RInv'
  BY <1>6, IdleTurn DEF OrderRejected, AtQuote
<1>7. ASSUME NEW quantity \in Quantities, BuyFills(quantity) \/ SellFills(quantity)
      PROVE  RInv'
  BY <1>7, BuyKeeps, SellKeeps
<1>8. CASE SaveRun
  BY <1>8 DEF SaveRun, RInv, Replays, HeldSince, TripsEnd, PC, position
<1>9. CASE UNCHANGED vars
  BY <1>9 DEF vars, RInv, Replays, HeldSince, TripsEnd, position
<1>10. QED
  BY <1>1, <1>2, <1>3, <1>4, <1>5, <1>6, <1>7, <1>8, <1>9 DEF Next

(* Every reachable state of a backtest has the three: see RInv.            *)
THEOREM Inductive == Spec => []RInv
BY InitRInv, StepRInv, PTL DEF Spec

(* A strategy is never shown the future: in whatever order the repository  *)
(* returns a history, the replay is that history in the order of time.     *)
THEOREM NoFutureShown == Spec => []NoLookahead
<1>1. ASSUME RInv, pc \in {"replay", "returned"}
      PROVE  /\ \A i, j \in DOMAIN replay : i < next /\ next <= j => replay[i].at <= replay[j].at
             /\ \A x \in ToSet(snapshots) : Count(replay, x) = Count(snapshots, x)
             /\ Len(replay) = Len(snapshots)
  <2>1. PICK n \in Nat : History(snapshots, n)
    BY <1>1 DEF RInv, Replays
  <2>2. replay = Chronological(snapshots)
    BY <1>1 DEF RInv, Replays
  <2>3. \A k, l \in 1..n : k < l => replay[k].at <= replay[l].at
    BY <2>1, <2>2, SortOrders
  <2>4. DOMAIN replay = 1..n /\ Len(replay) = n /\ Len(snapshots) = n
    <3>1. History(replay, n)
      BY <2>1, <2>2, SortOrders
    <3>2. QED
      BY <2>1, <3>1 DEF History
  <2>5. next \in Nat
    BY <1>1 DEF RInv, Replays
  <2>6. \A x : Count(replay, x) = Count(snapshots, x)
    BY <2>1, <2>2, SortKeeps
  <2>7. QED
    BY <2>3, <2>4, <2>5, <2>6
<1>2. RInv => NoLookahead
  BY <1>1 DEF NoLookahead
<1>3. QED
  BY <1>2, Inductive, PTL

(* A turn of a replay that the strategy is shown.                          *)
Quoted(shown, i) == shown[i].quote # OneSided

(* What EntryIsOpening needs: it holds throughout, and a turn that opened  *)
(* or emptied the position is one of those the replay has been through.    *)
OpeningInv ==
  /\ qty \in Nat /\ flow.opened \in Nat /\ flow.closed \in Nat
  /\ flow = [ bought |-> flow.bought, sold |-> flow.sold, cash |-> flow.cash,
              fees |-> flow.fees, opened |-> flow.opened, closed |-> flow.closed ]
  /\ flow.closed < next
  /\ pc = "idle" => qty = 0 /\ entry = NoEntry
  /\ qty > 0 => /\ flow.closed < flow.opened /\ flow.opened < next
                /\ Quoted(replay, flow.opened) /\ entry = EntryAt(replay[flow.opened])
  /\ entry # NoEntry =>
       \E i \in (flow.closed + 1)..(next - 1) : Quoted(replay, i) /\ entry = EntryAt(replay[i])

(* A turn that leaves the position alone.                                  *)
LEMMA IdleOpening ==
  ASSUME OpeningInv, next \in Nat, next' \in Nat, next <= next', UNCHANGED position,
         replay' = replay, pc' # "idle"
  PROVE  OpeningInv'
<1>1. UNCHANGED <<qty, flow, entry>>
  BY DEF position
<1>2. \A i \in (flow.closed + 1)..(next - 1) : i \in (flow.closed + 1)..(next' - 1)
  BY DEF OpeningInv
<1>3. QED
  BY <1>1, <1>2 DEF OpeningInv, Quoted

(* A buy opens a position at this turn, adds to one, or buys nothing.      *)
LEMMA BuyOpening ==
  ASSUME Quantities \subseteq Nat, RInv, OpeningInv, NEW quantity \in Quantities,
         BuyFills(quantity)
  PROVE  OpeningInv'
<1>1. /\ pc = "replay" /\ pc' = pc /\ next \in Nat \ {0} /\ next' = next + 1
      /\ replay' = replay /\ Quoted(replay, next)
      /\ qty' = qty + quantity
      /\ entry' = IF qty = 0 THEN EntryAt(replay[next]) ELSE entry
  BY DEF BuyFills, EntryAfterBuy, AtQuote, Turn, RInv, Replays, Current, Quoted
<1>2. PICK bought, cash, fees :
        flow' = [ bought |-> bought, sold |-> flow.sold, cash |-> cash, fees |-> fees,
                  opened |-> IF qty = 0 /\ quantity > 0 THEN next ELSE flow.opened,
                  closed |-> flow.closed ]
  <2>1. PICK c, f : flow' = [flow EXCEPT !.bought = @ + quantity, !.fees = f, !.cash = c,
                               !.opened = IF qty = 0 /\ quantity > 0 THEN next ELSE @]
    BY DEF BuyFills
  <2>2. QED
    BY <2>1 DEF OpeningInv
<1>3. /\ flow'.closed = flow.closed
      /\ flow'.opened = IF qty = 0 /\ quantity > 0 THEN next ELSE flow.opened
      /\ flow' = [ bought |-> flow'.bought, sold |-> flow'.sold, cash |-> flow'.cash,
                   fees |-> flow'.fees, opened |-> flow'.opened, closed |-> flow'.closed ]
  BY <1>2
<1>4. quantity \in Nat /\ qty \in Nat /\ flow.opened \in Nat /\ flow.closed \in Nat
      /\ flow.closed < next
  BY DEF OpeningInv
<1>5. \A i : Quoted(replay', i) <=> Quoted(replay, i)
  BY <1>1
<1>6. qty' \in Nat /\ flow'.opened \in Nat /\ flow'.closed \in Nat /\ flow'.closed < next'
  BY <1>1, <1>3, <1>4
<1>7. CASE qty = 0
  <2>1. entry' = EntryAt(replay'[next]) /\ Quoted(replay', next)
    BY <1>1, <1>5, <1>7
  <2>2. next \in (flow'.closed + 1)..(next' - 1)
    BY <1>1, <1>3, <1>4
  <2>3. qty' > 0 => flow'.opened = next
    BY <1>1, <1>3, <1>4, <1>7
  <2>4. qty' > 0 => /\ flow'.closed < flow'.opened /\ flow'.opened < next'
                    /\ Quoted(replay', flow'.opened) /\ entry' = EntryAt(replay'[flow'.opened])
    BY <1>1, <1>3, <1>4, <2>1, <2>3
  <2>5. QED
    BY <1>1, <1>3, <1>6, <2>1, <2>2, <2>4 DEF OpeningInv
<1>8. CASE qty # 0
  <2>1. entry' = entry /\ flow'.opened = flow.opened
    BY <1>1, <1>3, <1>8
  <2>2. /\ flow.closed < flow.opened /\ flow.opened < next
        /\ Quoted(replay, flow.opened) /\ entry = EntryAt(replay[flow.opened])
    BY <1>4, <1>8 DEF OpeningInv
  <2>3. \A i \in (flow.closed + 1)..(next - 1) : i \in (flow'.closed + 1)..(next' - 1)
    BY <1>1, <1>3, <1>4
  <2>4. flow.opened \in (flow'.closed + 1)..(next' - 1)
    BY <1>1, <1>3, <1>4, <2>2
  <2>5. /\ flow'.closed < flow'.opened /\ flow'.opened < next'
        /\ Quoted(replay', flow'.opened) /\ entry' = EntryAt(replay'[flow'.opened])
    BY <1>1, <1>3, <1>4, <1>5, <2>1, <2>2
  <2>6. QED
    BY <1>1, <1>3, <1>6, <2>1, <2>4, <2>5 DEF OpeningInv
<1>9. QED
  BY <1>7, <1>8

(* A sale leaves the opening what it was, or closes at this turn.          *)
LEMMA SellOpening ==
  ASSUME Quantities \subseteq Nat, RInv, OpeningInv, NEW quantity \in Quantities,
         SellFills(quantity)
  PROVE  OpeningInv'
<1>1. /\ pc = "replay" /\ pc' = pc /\ next \in Nat \ {0} /\ next' = next + 1
      /\ replay' = replay /\ Close(quantity)
  BY DEF SellFills, AtQuote, Turn, RInv, Replays
<1>2. PICK sold, cash :
        flow' = [ bought |-> flow.bought, sold |-> sold, cash |-> cash, fees |-> flow.fees,
                  opened |-> flow.opened,
                  closed |-> IF quantity >= qty THEN next ELSE flow.closed ]
  <2>1. PICK c : flow' = [flow EXCEPT !.sold = @ + quantity, !.cash = c,
                            !.closed = IF quantity >= qty THEN next ELSE @]
    BY DEF SellFills
  <2>2. QED
    BY <2>1 DEF OpeningInv
<1>3. /\ flow'.opened = flow.opened
      /\ flow'.closed = IF quantity >= qty THEN next ELSE flow.closed
      /\ flow' = [ bought |-> flow'.bought, sold |-> flow'.sold, cash |-> flow'.cash,
                   fees |-> flow'.fees, opened |-> flow'.opened, closed |-> flow'.closed ]
  BY <1>2
<1>4. quantity \in Nat /\ qty \in Nat /\ flow.opened \in Nat /\ flow.closed \in Nat
      /\ flow.closed < next
  BY DEF OpeningInv
<1>5. \A i : Quoted(replay', i) <=> Quoted(replay, i)
  BY <1>1
<1>6. CASE quantity >= qty
  <2>1. qty' = 0 /\ entry' = NoEntry
    BY <1>1, <1>6 DEF Close
  <2>2. QED
    BY <1>1, <1>3, <1>4, <1>6, <2>1 DEF OpeningInv
<1>7. CASE ~ (quantity >= qty)
  <2>1. qty' = qty - quantity /\ qty' \in Nat /\ qty > 0 /\ entry' = entry
        /\ flow'.closed = flow.closed
    BY <1>1, <1>3, <1>4, <1>7 DEF Close
  <2>2. /\ flow.closed < flow.opened /\ flow.opened < next
        /\ Quoted(replay, flow.opened) /\ entry = EntryAt(replay[flow.opened])
    BY <2>1 DEF OpeningInv
  <2>3. /\ flow'.closed < flow'.opened /\ flow'.opened < next'
        /\ Quoted(replay', flow'.opened) /\ entry' = EntryAt(replay'[flow'.opened])
    BY <1>1, <1>3, <1>4, <1>5, <2>1, <2>2
  <2>4. flow'.opened \in (flow'.closed + 1)..(next' - 1)
    BY <1>1, <1>3, <1>4, <2>1, <2>2
  <2>5. QED
    BY <1>1, <1>3, <1>4, <2>1, <2>3, <2>4 DEF OpeningInv
<1>8. QED
  BY <1>6, <1>7

(* Every step keeps the opening, when no order is for less than nothing.   *)
LEMMA StepOpening ==
  ASSUME Quantities \subseteq Nat, RInv, OpeningInv, [Next]_vars
  PROVE  OpeningInv'
<1>1. next \in Nat \ {0} /\ (pc = "idle" => next = 1)
  BY DEF RInv, Replays
<1>2. CASE UnknownMarket
  BY <1>1, <1>2, IdleOpening DEF UnknownMarket
<1>3. CASE Load
  <2>1. pc = "idle" /\ UNCHANGED <<qty, flow, entry, next>> /\ pc' = "replay"
    BY <1>3 DEF Load, position
  <2>2. QED
    BY <2>1 DEF OpeningInv
<1>4. CASE SkipOneSided \/ StrategyHolds
  BY <1>1, <1>4, IdleOpening DEF SkipOneSided, StrategyHolds, AtQuote, Turn
<1>5. CASE StrategyRaises
  BY <1>1, <1>5, IdleOpening DEF StrategyRaises
<1>6. ASSUME NEW side \in OrderSide, NEW quantity \in Quantities, OrderRejected(side, quantity)
      PROVE  OpeningInv'
  BY <1>1, <1>6, IdleOpening DEF OrderRejected, AtQuote, Turn
<1>7. ASSUME NEW quantity \in Quantities, BuyFills(quantity) \/ SellFills(quantity)
      PROVE  OpeningInv'
  BY <1>7, BuyOpening, SellOpening
<1>8. CASE SaveRun
  BY <1>1, <1>8, IdleOpening DEF SaveRun
<1>9. CASE UNCHANGED vars
  BY <1>9 DEF vars, position, OpeningInv, Quoted
<1>10. QED
  BY <1>2, <1>3, <1>4, <1>5, <1>6, <1>7, <1>8, <1>9 DEF Next

(* The entry remembered is that of the buy that opened what is held, never *)
(* one given up, and no holding time is negative, for every history and    *)
(* all orders of zero or more: buys of nothing, oversized and partial      *)
(* sales in any alternation.                                               *)
THEOREM EntriesAreOpenings ==
  ASSUME Quantities \subseteq Nat
  PROVE  Spec => []EntryIsOpening
<1>1. Init => OpeningInv
  BY DEF Init, OpeningInv
<1>2. RInv /\ OpeningInv => EntryIsOpening
  <2> SUFFICES ASSUME RInv, OpeningInv PROVE EntryIsOpening
    OBVIOUS
  <2>1. \A i \in DOMAIN pairs : pairs[i].held >= 0
    BY DEF RInv, TripsEnd
  <2>2. QED
    BY <2>1 DEF OpeningInv, EntryIsOpening, Quoted
<1>3. RInv /\ OpeningInv /\ [Next]_vars => OpeningInv'
  BY StepOpening
<1>4. QED
  BY <1>1, <1>2, <1>3, Inductive, PTL DEF Spec


----------------------------------------------------------------------------
(* The equity curve.                                                       *)

(* top is the highest point of c, which has n + 1 points, and worst its    *)
(* worst decline.                                                          *)
CurveHas(c, n, top, worst) ==
  /\ \A k \in 0..n : c[k] <= top
  /\ \E k \in 0..n : c[k] = top
  /\ \A i, j \in 0..n : i <= j => c[i] - c[j] <= worst
  /\ \E i, j \in 0..n : i <= j /\ worst = c[i] - c[j]

(* One point more: the highest point so far and the decline from it are    *)
(* all that the new worst decline depends on.                              *)
LEMMA CurveGrows ==
  ASSUME NEW n \in Nat, NEW c \in [0..n -> Int], NEW d \in [0..(n + 1) -> Int],
         \A k \in 0..n : d[k] = c[k],
         NEW top \in Int, NEW worst \in Int, CurveHas(c, n, top, worst),
         NEW top2, top2 = IF d[n + 1] > top THEN d[n + 1] ELSE top,
         NEW worst2, worst2 = IF top2 - d[n + 1] > worst THEN top2 - d[n + 1] ELSE worst
  PROVE  CurveHas(d, n + 1, top2, worst2)
<1>1. d[n + 1] \in Int /\ top2 \in Int /\ worst2 \in Int /\ top2 >= top /\ top2 >= d[n + 1]
      /\ worst2 >= worst /\ worst2 >= top2 - d[n + 1]
  OBVIOUS
<1>2. \A k \in 0..(n + 1) : k \in 0..n \/ k = n + 1
  OBVIOUS
<1>3. \A k \in 0..n : k \in 0..(n + 1) /\ c[k] \in Int
  OBVIOUS
<1>4. ASSUME NEW k \in 0..(n + 1) PROVE d[k] <= top2
  <2>1. CASE k \in 0..n
    <3>1. c[k] <= top /\ c[k] \in Int /\ d[k] = c[k]
      BY <1>3, <2>1 DEF CurveHas
    <3>2. QED
      BY <1>1, <3>1
  <2>2. CASE k = n + 1
    BY <1>1, <2>2
  <2>3. QED
    BY <1>2, <2>1, <2>2
<1>5. PICK m \in 0..(n + 1) : d[m] = top2
  <2>0. n + 1 \in 0..(n + 1)
    OBVIOUS
  <2>1. CASE d[n + 1] > top
    BY <2>0, <2>1
  <2>2. CASE ~ (d[n + 1] > top)
    BY <1>3, <2>2 DEF CurveHas
  <2>3. QED
    BY <2>1, <2>2
<1>6. ASSUME NEW i \in 0..(n + 1), NEW j \in 0..(n + 1), i <= j
      PROVE  d[i] - d[j] <= worst2
  <2>1. CASE j = n + 1
    BY SMTT(40), <1>1, <1>4, <2>1
  <2>2. CASE j # n + 1
    <3>1. i \in 0..n /\ j \in 0..n
      BY <1>6, <2>2
    <3>2. c[i] - c[j] <= worst /\ c[i] \in Int /\ c[j] \in Int
      BY <1>6, <3>1 DEF CurveHas
    <3>3. QED
      BY <1>1, <3>1, <3>2
  <2>3. QED
    BY <2>1, <2>2
<1>7. \E i, j \in 0..(n + 1) : i <= j /\ worst2 = d[i] - d[j]
  <2>1. CASE top2 - d[n + 1] > worst
    <3>1. n + 1 \in 0..(n + 1) /\ m <= n + 1 /\ worst2 = d[m] - d[n + 1]
      BY <1>5, <2>1
    <3>2. QED
      BY <1>5, <3>1
  <2>2. CASE ~ (top2 - d[n + 1] > worst)
    <3>1. PICK i \in 0..n, j \in 0..n : i <= j /\ worst = c[i] - c[j]
      BY DEF CurveHas
    <3>2. i \in 0..(n + 1) /\ j \in 0..(n + 1) /\ worst2 = d[i] - d[j]
      BY <1>3, <2>2, <3>1
    <3>3. QED
      BY <3>1, <3>2
  <2>3. QED
    BY <2>1, <2>2
<1>8. QED
  BY <1>4, <1>5, <1>6, <1>7 DEF CurveHas

(* The realized PnL after each of the trips.                               *)
Curve == [ k \in 0..Len(trips) |-> RealizedAfter(k) ]

(* What the replay keeps of its trips.                                     *)
EquityInv ==
  /\ trips \in Seq(Int) /\ realized \in Int /\ peak \in Nat /\ drawdown \in Nat
  /\ realized = Total(trips)
  /\ CurveHas(Curve, Len(trips), peak, drawdown)

(* A list of integers sums up to an integer, and so do its prefixes.       *)
LEMMA TotalTyped ==
  ASSUME NEW s \in Seq(Int)
  PROVE  /\ Total(s) \in Int
         /\ \A k \in 0..Len(s) : Total(SubSeq(s, 1, k)) \in Int
         /\ Total(SubSeq(s, 1, Len(s))) = Total(s) /\ Total(SubSeq(s, 1, 0)) = 0
<1>1. ASSUME NEW t \in Seq(Int) PROVE Total(t) \in Int
  <2>1. Len(t) \in Nat /\ t \in [1..Len(t) -> Int] /\ IsFiniteSet(1..Len(t))
    BY SeqIsFunction, FS_Interval
  <2>2. QED
    BY <2>1, SumFunctionTyped DEF Total
<1>2. \A k \in 0..Len(s) : SubSeq(s, 1, k) \in Seq(Int)
  OBVIOUS
<1>3. SubSeq(s, 1, Len(s)) = s /\ SubSeq(s, 1, 0) = <<>>
  OBVIOUS
<1>4. Total(<<>>) = 0
  BY SumOfEmptyList DEF Total
<1>5. Total(SubSeq(s, 1, Len(s))) = Total(s) /\ Total(SubSeq(s, 1, 0)) = 0
  BY <1>3, <1>4, Zenon
<1>6. QED
  BY <1>1, <1>2, <1>5

(* The empty list has itself as a prefix.                                  *)
LEMMA EmptyPrefix == SubSeq(<<>>, 1, 0) = <<>>
OBVIOUS

(* A trip more keeps them.                                                 *)
LEMMA EquityKeeps ==
  ASSUME EquityInv, NEW pnl \in Int, Equity(pnl)
  PROVE  EquityInv'
<1> DEFINE n == Len(trips)
           c == Curve
           d == [ k \in 0..(n + 1) |-> Total(SubSeq(Append(trips, pnl), 1, k)) ]
<1>1. trips \in Seq(Int) /\ n \in Nat /\ realized = Total(trips) /\ realized \in Int
      /\ peak \in Nat /\ drawdown \in Nat
  BY DEF EquityInv
<1>2. trips' = Append(trips, pnl) /\ trips' \in Seq(Int) /\ Len(trips') = n + 1
  BY <1>1 DEF Equity
<1>3. Total(Append(trips, pnl)) = realized + pnl
  BY <1>1, SumOfAppend DEF Total
<1>4. Append(trips, pnl) \in Seq(Int) /\ Len(Append(trips, pnl)) = n + 1
  BY <1>1
<1>5. d \in [0..(n + 1) -> Int]
  <2>1. \A k \in 0..(n + 1) : Total(SubSeq(Append(trips, pnl), 1, k)) \in Int
    BY <1>4, TotalTyped
  <2>2. QED
    BY <2>1
<1>6. d[n + 1] = realized + pnl
  <2>1. Total(SubSeq(Append(trips, pnl), 1, n + 1)) = Total(Append(trips, pnl))
    BY <1>4, TotalTyped
  <2>2. n + 1 \in 0..(n + 1)
    BY <1>1
  <2>3. QED
    BY <1>3, <2>1, <2>2
<1>7. c \in [0..n -> Int]
  BY <1>1, TotalTyped DEF Curve, RealizedAfter
<1>8. \A k \in 0..n : d[k] = c[k]
  <2>1. \A k \in 0..n : SubSeq(Append(trips, pnl), 1, k) = SubSeq(trips, 1, k)
    BY <1>1, PrefixOfAppend
  <2>2. \A k \in 0..n : k \in 0..(n + 1)
    BY <1>1
  <2>3. QED
    BY <2>1, <2>2 DEF Curve, RealizedAfter
<1>9. CurveHas(c, n, peak, drawdown)
  BY DEF EquityInv
<1>10. peak' = (IF realized + pnl > peak THEN realized + pnl ELSE peak)
       /\ drawdown' = IF peak' - (realized + pnl) > drawdown THEN peak' - (realized + pnl)
                      ELSE drawdown
  BY DEF Equity
<1>11. Curve' = d
  BY <1>2 DEF Curve, RealizedAfter
<1>12. CurveHas(d, n + 1, peak', drawdown')
  <2> HIDE DEF c, d, n
  <2>1. PICK p : p = peak'
    OBVIOUS
  <2>2. PICK w : w = drawdown'
    OBVIOUS
  <2>3. p = IF d[n + 1] > peak THEN d[n + 1] ELSE peak
    BY <1>6, <1>10, <2>1
  <2>4. w = IF p - d[n + 1] > drawdown THEN p - d[n + 1] ELSE drawdown
    BY <1>6, <1>10, <2>1, <2>2
  <2>5. peak \in Int /\ drawdown \in Int /\ n \in Nat
    BY <1>1
  <2>6. CurveHas(d, n + 1, p, w)
    BY <1>5, <1>7, <1>8, <1>9, <2>3, <2>4, <2>5, CurveGrows
  <2>7. QED
    BY <2>1, <2>2, <2>6
<1>13. peak' \in Nat /\ drawdown' \in Nat /\ realized' = realized + pnl /\ realized' \in Int
  <2>1. realized' = realized + pnl /\ realized + pnl \in Int
    BY <1>1 DEF Equity
  <2>2. peak' \in Nat
    BY <1>1, <1>10, <2>1
  <2>3. drawdown' \in Nat
    BY <1>1, <1>10, <2>1, <2>2
  <2>4. QED
    BY <2>1, <2>2, <2>3
<1> HIDE DEF c, d, n
<1>14. CurveHas(Curve', Len(trips'), peak', drawdown')
  BY <1>2, <1>11, <1>12
<1>15. realized' = Total(trips')
  BY <1>2, <1>3, <1>13
<1>16. QED
  BY <1>2, <1>13, <1>14, <1>15 DEF EquityInv

(* Nothing is realized before the replay.                                  *)
LEMMA EquityInit == Init => EquityInv
<1> SUFFICES ASSUME Init PROVE EquityInv
  OBVIOUS
<1>1. trips = <<>> /\ realized = 0 /\ peak = 0 /\ drawdown = 0
  BY DEF Init
<1>2. <<>> \in Seq(Int) /\ Len(<<>>) = 0 /\ \A k \in 0..0 : k = 0
  OBVIOUS
<1>3. Total(<<>>) = 0 /\ Total(SubSeq(<<>>, 1, 0)) = 0
  BY SumOfEmptyList, EmptyPrefix, Zenon DEF Total
<1>4. Curve = [ k \in 0..0 |-> 0 ]
  <2>1. Curve = [ k \in 0..0 |-> Total(SubSeq(<<>>, 1, k)) ]
    BY <1>1, <1>2 DEF Curve, RealizedAfter
  <2>2. QED
    BY <1>2, <1>3, <2>1
<1>5. CurveHas(Curve, 0, 0, 0)
  BY <1>4 DEF CurveHas
<1>6. QED
  BY <1>1, <1>2, <1>3, <1>5 DEF EquityInv


----------------------------------------------------------------------------
(* What a run whose trips all win, or all fail to, has to show for it.     *)
HitInv ==
  /\ (\A i \in 1..Len(trips) : trips[i] > 0) =>
       drawdown = 0 /\ peak = realized /\ (Len(trips) > 0 => realized > 0)
  /\ (\A i \in 1..Len(trips) : trips[i] <= 0) => peak = 0 /\ drawdown = -realized

(* A trip more keeps it.                                                   *)
LEMMA HitKeeps ==
  ASSUME EquityInv, HitInv, NEW pnl \in Int, Equity(pnl)
  PROVE  HitInv'
<1> DEFINE n == Len(trips)
<1>1. /\ trips \in Seq(Int) /\ n \in Nat /\ realized \in Int /\ peak \in Nat /\ drawdown \in Nat
      /\ \A i \in 1..n : trips[i] \in Int
  BY DEF EquityInv
<1>2. /\ trips' = Append(trips, pnl)
      /\ realized' = realized + pnl
      /\ peak' = IF realized + pnl > peak THEN realized + pnl ELSE peak
      /\ drawdown' = IF peak' - (realized + pnl) > drawdown THEN peak' - (realized + pnl)
                     ELSE drawdown
  BY DEF Equity
<1>3. /\ Len(trips') = n + 1 /\ trips'[n + 1] = pnl /\ n + 1 \in 1..(n + 1)
      /\ \A i \in 1..n : i \in 1..(n + 1) /\ trips'[i] = trips[i]
  BY <1>1, <1>2
<1>4. n = 0 => realized = 0
  <2>1. n = 0 => trips = <<>>
    BY <1>1
  <2>2. Total(<<>>) = 0
    BY SumOfEmptyList DEF Total
  <2>3. QED
    BY <2>1, <2>2 DEF EquityInv
<1> HIDE DEF n
<1>5. ASSUME \A i \in 1..(n + 1) : trips'[i] > 0
      PROVE  drawdown' = 0 /\ peak' = realized' /\ realized' > 0
  <2>1. pnl > 0 /\ \A i \in 1..n : trips[i] > 0
    BY <1>3, <1>5
  <2>2. drawdown = 0 /\ peak = realized
    BY <2>1 DEF HitInv, n
  <2>3. realized + pnl > peak /\ peak >= 0
    BY <1>1, <2>1, <2>2
  <2>4. peak' = realized + pnl
    BY <1>2, <2>3
  <2>5. drawdown' = 0
    BY <1>1, <1>2, <2>2, <2>4
  <2>6. QED
    BY <1>1, <1>2, <2>3, <2>4, <2>5
<1>6. ASSUME \A i \in 1..(n + 1) : trips'[i] <= 0
      PROVE  peak' = 0 /\ drawdown' = -realized'
  <2>1. pnl <= 0 /\ \A i \in 1..n : trips[i] <= 0
    BY <1>3, <1>6
  <2>2. peak = 0 /\ drawdown = -realized
    BY <2>1 DEF HitInv, n
  <2>3. realized <= 0 /\ ~ (realized + pnl > peak)
    BY <1>1, <2>1, <2>2
  <2>4. peak' = 0
    BY <1>2, <2>2, <2>3
  <2>5. peak' - (realized + pnl) = -(realized + pnl) /\ -(realized + pnl) >= drawdown
    BY <1>1, <2>1, <2>2, <2>4
  <2>6. drawdown' = -(realized + pnl)
    BY <1>1, <1>2, <2>5
  <2>7. QED
    BY <1>2, <2>4, <2>6
<1>7. QED
  BY <1>3, <1>5, <1>6 DEF HitInv

(* What the broker fills a quote at is never negative.                     *)
LEMMA FillTyped ==
  ASSUME NEW side \in OrderSide, NEW quantity \in Quantities, NEW q \in Quotes
  PROVE  /\ quantity \in Int /\ FillOf(side, quantity, q).price \in Nat
         /\ FillOf(side, quantity, q).fee \in Int
<1> DEFINE base == BasePrice(side, q)
<1>1. /\ Scale \in Nat /\ SlippageRate \in Nat /\ SlippageRate <= Scale /\ FeeRate \in Nat
      /\ quantity \in Int /\ q.bid \in Nat /\ q.ask \in Nat
  BY BrokerAssumption, BacktestAssumption DEF Quote
<1>2. base \in Nat
  BY <1>1 DEF BasePrice
<1> HIDE DEF base
<1>3. base * SlippageRate \in Nat /\ base * Scale \in Nat /\ base * SlippageRate <= base * Scale
  BY <1>1, <1>2, TimesKeepsOrder
<1>4. ApplySlippage(base, side) \in Nat
  BY <1>3 DEF ApplySlippage, SlippageAmount
<1>5. FillPrice(side, q) \in Nat
  BY <1>4 DEF FillPrice, base
<1>6. FeeOf(quantity, FillPrice(side, q)) \in Int
  BY <1>1, <1>5 DEF FeeOf
<1>7. QED
  BY <1>1, <1>5, <1>6 DEF FillOf

(* The amounts of the replay; nothing is short unless less than nothing is *)
(* ordered.                                                                *)
Flows == [ bought : Int, sold : Int, cash : Int, fees : Int, opened : Nat, closed : Nat ]

Amounts ==
  /\ qty \in Int /\ avg \in Int /\ trades \in Nat
  /\ Quantities \subseteq Nat => qty \in Nat
  /\ flow \in Flows

(* Certainty bounds the forecasts.                                         *)
Forecasts ==
  /\ entry \in Entry \union {NoEntry} /\ (entry # NoEntry => entry.mid <= Certainty)
  /\ pairs \in Seq(RoundTrip)
  /\ \A i \in 1..Len(pairs) : pairs[i].forecast <= Certainty

AccountInv == Amounts /\ Forecasts /\ EquityInv /\ HitInv

(* It speaks of the position only.                                         *)
LEMMA AccountStays == AccountInv /\ UNCHANGED position => AccountInv'
BY DEF AccountInv, Amounts, Forecasts, EquityInv, HitInv, Curve, RealizedAfter, position

(* A position begins with none.                                            *)
LEMMA AccountInit == Init => AccountInv
<1> SUFFICES ASSUME Init PROVE AccountInv
  OBVIOUS
<1>1. trips = <<>> /\ realized = 0 /\ peak = 0 /\ drawdown = 0 /\ Len(<<>>) = 0
  BY DEF Init
<1>2. HitInv
  <2>1. Len(trips) = 0
    BY <1>1
  <2>2. \A x \in Int : -x = 0 - x
    OBVIOUS
  <2>3. realized \in Int /\ 0 - realized = 0
    BY <1>1
  <2>4. 0 = -realized /\ ~ (Len(trips) > 0)
    BY <2>1, <2>2, <2>3
  <2>5. QED
    BY <1>1, <2>4, Zenon DEF HitInv
<1>3. Amounts /\ Forecasts
  BY DEF Init, Amounts, Flows, Forecasts
<1>4. QED
  BY <1>2, <1>3, EquityInit DEF AccountInv

(* Everything a turn at a quote deals with is typed.                       *)
LEMMA QuoteTyped ==
  ASSUME Replays, AtQuote
  PROVE  Current \in Snapshot /\ Current.quote \in Quotes /\ Current.at \in Nat
<1>1. PICK n \in Nat : Len(replay) = n /\ \A i \in 1..n : replay[i] \in Snapshot /\ replay[i].at \in Nat
  BY TurnFacts DEF AtQuote
<1>2. next \in 1..n
  BY <1>1 DEF Replays, AtQuote
<1>3. QED
  BY <1>1, <1>2 DEF Current, AtQuote, Snapshot

(* A buy keeps the amounts and books no trip.                              *)
LEMMA BuyAccount ==
  ASSUME AccountInv, Replays, NEW quantity \in Quantities, BuyFills(quantity)
  PROVE  AccountInv'
<1>1. PICK price, fee : price = FillOf("BUY", quantity, Current.quote).price
                        /\ fee = FillOf("BUY", quantity, Current.quote).fee
  OBVIOUS
<1>2. /\ AtQuote /\ avg' = Average(qty, quantity, price) /\ qty' = qty + quantity
      /\ trades' = trades + 1
      /\ entry' = IF qty = 0 THEN EntryAt(Current) ELSE entry
      /\ flow' = [flow EXCEPT !.bought = @ + quantity,
                              !.fees = @ + CostScale * fee,
                              !.cash = @ - FeeScale * CostScale * price * quantity - CostScale * fee,
                              !.opened = IF qty = 0 /\ quantity > 0 THEN next ELSE @]
      /\ UNCHANGED <<realized, trips, peak, drawdown, pairs>>
  <2>1. FillOf("BUY", quantity, Current.quote).quantity = quantity
    BY DEF FillOf
  <2>2. QED
    BY <1>1, <2>1 DEF BuyFills, Notional, EntryAfterBuy
<1>3. Current.quote \in Quotes /\ Current.at \in Times /\ next \in Nat
  BY <1>2, QuoteTyped DEF Snapshot, Replays
<1>4. quantity \in Int /\ price \in Nat /\ fee \in Int
  BY <1>1, <1>3, FillTyped DEF OrderSide
<1>5. FeeScale \in Nat /\ CostScale \in Nat
  BY BacktestAssumption
<1>6. FeeScale * CostScale * price * quantity \in Int /\ CostScale * fee \in Int
  BY <1>4, <1>5
<1>7. avg' \in Int
  <2>1. qty \in Int /\ avg \in Int
    BY DEF AccountInv, Amounts
  <2>2. avg * qty + CostScale * price * quantity \in Int /\ qty + quantity \in Int
    BY <1>4, <1>5, <2>1
  <2>3. QED
    BY <1>2, <2>2 DEF Average
<1>8. Amounts'
  <2>1. PICK out, charge : out = FeeScale * CostScale * price * quantity + CostScale * fee
                           /\ charge = CostScale * fee
    OBVIOUS
  <2>2. out \in Int /\ charge \in Int
    BY <1>6, <2>1
  <2>3. flow \in Flows
    BY DEF AccountInv, Amounts
  <2>4. flow' = [flow EXCEPT !.bought = @ + quantity, !.fees = @ + charge, !.cash = @ - out,
                             !.opened = IF qty = 0 /\ quantity > 0 THEN next ELSE @]
    <3>1. flow.cash - FeeScale * CostScale * price * quantity - CostScale * fee = flow.cash - out
      BY <1>6, <2>1, <2>3 DEF Flows
    <3>2. QED
      BY <1>2, <2>1, <3>1
  <2>5. flow' \in Flows
    <3>1. flow' = [ bought |-> flow.bought + quantity, sold |-> flow.sold,
                    cash |-> flow.cash - out, fees |-> flow.fees + charge,
                    opened |-> IF qty = 0 /\ quantity > 0 THEN next ELSE flow.opened,
                    closed |-> flow.closed ]
      BY <2>3, <2>4 DEF Flows
    <3>2. /\ flow.bought + quantity \in Int /\ flow.sold \in Int
          /\ flow.cash - out \in Int /\ flow.fees + charge \in Int
          /\ flow.opened \in Nat /\ flow.closed \in Nat
      BY <1>4, <2>2, <2>3 DEF Flows
    <3>3. QED
      BY <1>3, <3>1, <3>2 DEF Flows
  <2>6. qty' \in Int /\ (Quantities \subseteq Nat => qty' \in Nat) /\ trades' \in Nat
    BY <1>2, <1>4 DEF AccountInv, Amounts
  <2>7. QED
    BY <1>7, <2>5, <2>6 DEF Amounts
<1>9. Forecasts'
  <2>1. PICK bid, ask : bid = Current.quote.bid /\ ask = Current.quote.ask
    OBVIOUS
  <2>2. bid \in Nat /\ ask \in Nat /\ bid + ask <= Certainty
    BY <1>3, <2>1, BacktestAssumption DEF Quote
  <2>3. [at |-> Current.at, mid |-> bid + ask] \in Entry
    BY <1>3, <2>2 DEF Entry
  <2>4. entry' = [at |-> Current.at, mid |-> bid + ask] \/ entry' = entry
    BY <1>2, <2>1 DEF EntryAt
  <2>5. entry' \in Entry \union {NoEntry} /\ (entry' # NoEntry => entry'.mid <= Certainty)
    BY <2>2, <2>3, <2>4 DEF AccountInv, Forecasts
  <2>6. pairs' = pairs
    BY <1>2
  <2>7. QED
    BY <2>5, <2>6 DEF AccountInv, Forecasts
<1>10. EquityInv' /\ HitInv'
  BY <1>2 DEF AccountInv, EquityInv, HitInv, Curve, RealizedAfter
<1>11. QED
  BY <1>8, <1>9, <1>10 DEF AccountInv

(* A sale books its PnL, and its trip if the entry is known.               *)
LEMMA SellAccount ==
  ASSUME AccountInv, Replays, NEW quantity \in Quantities, SellFills(quantity)
  PROVE  AccountInv'
<1>1. PICK price, fee : price = FillOf("SELL", quantity, Current.quote).price
                        /\ fee = FillOf("SELL", quantity, Current.quote).fee
  OBVIOUS
<1>2. PICK pnl : pnl = FeeScale * (CostScale * price - avg) * quantity - CostScale * fee
  OBVIOUS
<1>3. /\ AtQuote /\ Equity(pnl) /\ Close(quantity) /\ trades' = trades + 1
      /\ pairs' = IF entry = NoEntry THEN pairs
                  ELSE Append(pairs, [held |-> Current.at - entry.at,
                                      forecast |-> entry.mid, profitable |-> pnl > 0])
      /\ flow' = [flow EXCEPT !.sold = @ + quantity,
                    !.cash = @ + FeeScale * CostScale * price * quantity - CostScale * fee,
                    !.closed = IF quantity >= qty THEN next ELSE @]
  <2>1. FillOf("SELL", quantity, Current.quote).quantity = quantity
    BY DEF FillOf
  <2>2. QED
    BY <1>1, <1>2, <2>1 DEF SellFills, Notional
<1>4. Current.quote \in Quotes /\ Current.at \in Nat /\ next \in Nat
  BY <1>3, QuoteTyped DEF Replays
<1>5. quantity \in Int /\ price \in Nat /\ fee \in Int
  BY <1>1, <1>4, FillTyped DEF OrderSide
<1>6. FeeScale \in Nat /\ CostScale \in Nat /\ avg \in Int /\ qty \in Int
  BY BacktestAssumption DEF AccountInv, Amounts
<1>7. pnl \in Int /\ FeeScale * CostScale * price * quantity \in Int /\ CostScale * fee \in Int
  <2>1. CostScale * price \in Int /\ CostScale * fee \in Int
    BY <1>5, <1>6
  <2>2. FeeScale * (CostScale * price - avg) \in Int
    BY <1>6, <2>1
  <2>3. QED
    BY <1>2, <1>5, <1>6, <2>1, <2>2
<1>8. Amounts'
  <2>1. qty' \in Int /\ avg' \in Int /\ (Quantities \subseteq Nat => qty' \in Nat)
    BY <1>3, <1>5, <1>6 DEF Close, AccountInv, Amounts
  <2>2. PICK paid : paid = FeeScale * CostScale * price * quantity - CostScale * fee
    OBVIOUS
  <2>3. paid \in Int
    BY <1>7, <2>2
  <2>4. flow \in Flows
    BY DEF AccountInv, Amounts
  <2>5. flow' = [flow EXCEPT !.sold = @ + quantity, !.cash = @ + paid,
                             !.closed = IF quantity >= qty THEN next ELSE @]
    <3>1. flow.cash + FeeScale * CostScale * price * quantity - CostScale * fee = flow.cash + paid
      BY <1>7, <2>2, <2>4 DEF Flows
    <3>2. QED
      BY <1>3, <3>1
  <2>6. flow' \in Flows
    <3>1. flow' = [ bought |-> flow.bought, sold |-> flow.sold + quantity,
                    cash |-> flow.cash + paid, fees |-> flow.fees, opened |-> flow.opened,
                    closed |-> IF quantity >= qty THEN next ELSE flow.closed ]
      BY <2>4, <2>5 DEF Flows
    <3>2. /\ flow.bought \in Int /\ flow.sold + quantity \in Int
          /\ flow.cash + paid \in Int /\ flow.fees \in Int
          /\ flow.opened \in Nat /\ flow.closed \in Nat
      BY <1>5, <2>3, <2>4 DEF Flows
    <3>3. QED
      BY <1>4, <3>1, <3>2 DEF Flows
  <2>7. QED
    BY <1>3, <2>1, <2>6 DEF AccountInv, Amounts
<1>9. EquityInv' /\ HitInv'
  BY <1>3, <1>7, EquityKeeps, HitKeeps DEF AccountInv
<1>10. Forecasts'
  <2>1. entry' = entry \/ entry' = NoEntry
    BY <1>3 DEF Close
  <2>2. /\ entry \in Entry \union {NoEntry} /\ (entry # NoEntry => entry.mid <= Certainty)
        /\ pairs \in Seq(RoundTrip) /\ \A i \in 1..Len(pairs) : pairs[i].forecast <= Certainty
    BY DEF AccountInv, Forecasts
  <2>3. pairs' \in Seq(RoundTrip) /\ \A i \in 1..Len(pairs') : pairs'[i].forecast <= Certainty
    <3>1. CASE entry = NoEntry
      BY <1>3, <2>2, <3>1
    <3>2. CASE entry # NoEntry
      <4>1. entry.at \in Nat /\ entry.mid \in Nat /\ entry.mid <= Certainty
        BY <2>2, <3>2, BacktestAssumption DEF Entry
      <4>2. PICK trip : trip = [held |-> Current.at - entry.at, forecast |-> entry.mid,
                                profitable |-> pnl > 0]
        OBVIOUS
      <4>3. trip \in RoundTrip /\ trip.forecast <= Certainty
        BY <1>4, <4>1, <4>2 DEF RoundTrip
      <4>4. pairs' = Append(pairs, trip)
        BY <1>3, <3>2, <4>2
      <4>5. QED
        BY <2>2, <4>3, <4>4
    <3>3. QED
      BY <3>1, <3>2
  <2>4. QED
    BY <2>1, <2>2, <2>3 DEF Forecasts
<1>11. QED
  BY <1>8, <1>9, <1>10 DEF AccountInv

(* Every step keeps it.                                                    *)
LEMMA StepAccount == RInv /\ AccountInv /\ [Next]_vars => AccountInv'
<1> SUFFICES ASSUME RInv, AccountInv, [Next]_vars PROVE AccountInv'
  OBVIOUS
<1>1. ASSUME UNCHANGED position PROVE AccountInv'
  BY <1>1, AccountStays
<1>2. ASSUME NEW quantity \in Quantities, BuyFills(quantity) \/ SellFills(quantity)
      PROVE  AccountInv'
  BY <1>2, BuyAccount, SellAccount DEF RInv
<1>3. QED
  BY <1>1, <1>2 DEF Next, vars, UnknownMarket, Load, SkipOneSided, StrategyHolds,
                    StrategyRaises, OrderRejected, SaveRun


----------------------------------------------------------------------------
(* The drawdown reported is the worst decline of the realized PnL, and the *)
(* realized PnL the sum of the trips, however buys and sales alternate.    *)
THEOREM DrawdownIsExact == Spec => []DrawdownIsWorstDecline
<1>1. EquityInv => DrawdownIsWorstDecline
  <2> SUFFICES ASSUME EquityInv PROVE DrawdownIsWorstDecline
    OBVIOUS
  <2>1. trips \in Seq(Int) /\ realized = Total(trips) /\ CurveHas(Curve, Len(trips), peak, drawdown)
    BY DEF EquityInv
  <2>2. Len(trips) \in 0..Len(trips)
    BY <2>1
  <2>3. Curve[Len(trips)] = Total(trips)
    BY <2>1, <2>2, TotalTyped DEF Curve, RealizedAfter
  <2>4. realized = Curve[Len(trips)]
    BY <2>1, <2>3
  <2>5. /\ \A i, j \in 0..Len(trips) : i <= j => Curve[i] - Curve[j] <= drawdown
        /\ \E i, j \in 0..Len(trips) : i <= j /\ drawdown = Curve[i] - Curve[j]
    BY <2>1 DEF CurveHas
  <2>6. Curve = [ k \in 0..Len(trips) |-> RealizedAfter(k) ]
    BY DEF Curve
  <2> HIDE DEF Curve
  <2>7. QED
    BY <2>4, <2>5, <2>6, Zenon DEF DrawdownIsWorstDecline
<1>2. AccountInv => DrawdownIsWorstDecline
  BY <1>1 DEF AccountInv
<1>3. QED
  BY <1>2, AccountInit, StepAccount, Inductive, PTL DEF Spec

(* The StrategyRun of the run that returns, and of no other.               *)
RunOf == [ total_return |-> realized, hit_rate |-> HitRate,
           max_drawdown |-> drawdown, total_trades |-> trades ]

Summarised ==
  /\ pc # "returned" => metrics = NoMetric /\ recorded = NoRun
  /\ pc = "returned" => metrics = ComputedMetrics /\ recorded = RunOf

(* The metrics are those of the position.                                  *)
LEMMA ComputedStays == UNCHANGED position => ComputedMetrics' = ComputedMetrics /\ RunOf' = RunOf
BY DEF position, ComputedMetrics, RunOf, HitRate, Mean, Each, CalibrationBuckets, BucketOf,
       PairsIn, ForecastIn, ObservedIn

(* Every step keeps the summary.                                           *)
LEMMA StepSummarised == Summarised /\ [Next]_vars => Summarised'
<1> SUFFICES ASSUME Summarised, [Next]_vars PROVE Summarised'
  OBVIOUS
<1>1. ASSUME pc # "returned", pc' # "returned", UNCHANGED result PROVE Summarised'
  BY <1>1 DEF Summarised, result
<1>2. CASE SaveRun
  <2>1. pc' = "returned" /\ metrics' = ComputedMetrics /\ UNCHANGED position
        /\ recorded' = [ total_return |-> metrics'.total_return, hit_rate |-> metrics'.hit_rate,
                         max_drawdown |-> metrics'.max_drawdown, total_trades |-> trades ]
    BY <1>2 DEF SaveRun
  <2>2. recorded' = RunOf
    <3>1. /\ ComputedMetrics.total_return = realized /\ ComputedMetrics.hit_rate = HitRate
          /\ ComputedMetrics.max_drawdown = drawdown
      BY DEF ComputedMetrics
    <3>2. QED
      BY <2>1, <3>1 DEF RunOf
  <2>3. QED
    BY <2>1, <2>2, ComputedStays DEF Summarised
<1>3. CASE UNCHANGED vars
  BY <1>3, ComputedStays DEF Summarised, vars, result
<1>4. QED
  BY <1>1, <1>2, <1>3 DEF Next, UnknownMarket, Load, SkipOneSided, StrategyHolds,
       StrategyRaises, OrderRejected, BuyFills, SellFills, AtQuote, Turn

(* A summary is of a run that returned.                                    *)
THEOREM RunsAreSummarised == Spec => []Summarised
<1>1. Init => Summarised
  BY DEF Init, Summarised
<1>2. QED
  BY <1>1, StepSummarised, PTL DEF Spec

(* A run that reports only winning trips reports no drawdown, and one that *)
(* reports none a drawdown as large as its loss.                           *)
THEOREM HitRatesExplainReturns == Spec => []HitRateExplainsReturn
<1>1. ASSUME EquityInv, HitInv, Summarised, recorded # NoRun, recorded.hit_rate # NoMetric
      PROVE  /\ recorded.hit_rate.num = recorded.hit_rate.den =>
                  recorded.max_drawdown = 0 /\ recorded.total_return > 0
             /\ recorded.hit_rate.num = 0 => recorded.max_drawdown = -recorded.total_return
  <2>1. recorded = RunOf
    BY <1>1 DEF Summarised
  <2>2. recorded.hit_rate = HitRate /\ recorded.max_drawdown = drawdown
        /\ recorded.total_return = realized
    BY <2>1 DEF RunOf
  <2>3. trips # <<>> /\ HitRate = [num |-> Cardinality(Hits(trips)), den |-> Len(trips)]
    BY <1>1, <2>2 DEF HitRate
  <2>4. trips \in Seq(Int) /\ Len(trips) \in Nat /\ DOMAIN trips = 1..Len(trips) /\ Len(trips) > 0
        /\ \A i \in 1..Len(trips) : trips[i] \in Int
    BY <1>1, <2>3 DEF EquityInv
  <2>5. IsFiniteSet(1..Len(trips)) /\ Cardinality(1..Len(trips)) = Len(trips)
    BY <2>4, FS_Interval
  <2>6. Hits(trips) \subseteq 1..Len(trips)
    BY <2>4 DEF Hits
  <2>7. ASSUME Cardinality(Hits(trips)) = Len(trips) PROVE drawdown = 0 /\ realized > 0
    <3>1. Hits(trips) = 1..Len(trips)
      BY <2>5, <2>6, <2>7, FS_Subset
    <3>2. \A i \in 1..Len(trips) : trips[i] > 0
      BY <3>1 DEF Hits
    <3>3. QED
      BY <1>1, <2>4, <3>2 DEF HitInv
  <2>8. ASSUME Cardinality(Hits(trips)) = 0 PROVE drawdown = -realized
    <3>1. Hits(trips) = {}
      BY <2>5, <2>6, <2>8, FS_Subset, FS_EmptySet
    <3>2. \A i \in 1..Len(trips) : trips[i] <= 0
      BY <2>4, <3>1 DEF Hits
    <3>3. QED
      BY <1>1, <3>2 DEF HitInv
  <2>9. QED
    BY <2>2, <2>3, <2>7, <2>8
<1>2. AccountInv /\ Summarised => HitRateExplainsReturn
  BY <1>1 DEF HitRateExplainsReturn, AccountInv
<1>3. QED
  BY <1>2, AccountInit, StepAccount, Inductive, RunsAreSummarised, PTL DEF Spec

----------------------------------------------------------------------------
(* The units of an instance are such that no average is rounded.           *)
ExactAverages ==
  \A quantity \in Quantities :
    BuyFills(quantity) =>
      avg' * qty' = avg * qty + CostScale * FillOf("BUY", quantity, Current.quote).price * quantity

(* No more is ever held than was bought and not sold; when it is all still *)
(* held, cash and the fees of the buys account for the return.             *)
CashInv == qty >= flow.bought - flow.sold /\ CashBacksReturn

(* A buy at an exact average moves cash into the position.                 *)
LEMMA BuyKeepsCash ==
  ASSUME AccountInv, Replays, CashInv, ExactAverages,
         NEW quantity \in Quantities, BuyFills(quantity)
  PROVE  CashInv'
<1>1. PICK price : price = FillOf("BUY", quantity, Current.quote).price
  OBVIOUS
<1>2. PICK out, charge : out = FeeScale * CostScale * price * quantity
         /\ charge = CostScale * FillOf("BUY", quantity, Current.quote).fee
  OBVIOUS
<1>3. /\ AtQuote /\ qty' = qty + quantity /\ realized' = realized
      /\ flow' = [flow EXCEPT !.bought = @ + quantity, !.fees = @ + charge,
                              !.cash = @ - out - charge,
                              !.opened = IF qty = 0 /\ quantity > 0 THEN next ELSE @]
  <2>1. FillOf("BUY", quantity, Current.quote).quantity = quantity
    BY DEF FillOf
  <2>2. QED
    BY <1>1, <1>2, <2>1 DEF BuyFills, Notional
<1>4. avg' * qty' = avg * qty + CostScale * price * quantity
  BY <1>1 DEF ExactAverages
<1>5. Current.quote \in Quotes
  BY <1>3, QuoteTyped
<1>6. quantity \in Int /\ price \in Nat
  BY <1>1, <1>5, FillTyped DEF OrderSide
<1>7. /\ FeeScale \in Nat /\ CostScale \in Nat /\ qty \in Int /\ avg \in Int /\ realized \in Int
      /\ flow \in Flows /\ flow.bought \in Int /\ flow.sold \in Int /\ flow.cash \in Int
  BY BacktestAssumption DEF AccountInv, Amounts, Flows, EquityInv
<1>8. avg' \in Int /\ qty' \in Int
  BY BuyAccount DEF AccountInv, Amounts
<1>9. /\ flow'.bought = flow.bought + quantity /\ flow'.sold = flow.sold
      /\ flow'.cash = flow.cash - out - charge /\ flow'.fees = flow.fees + charge
  BY <1>3, <1>7 DEF Flows
<1>10. FeeScale * avg' * qty' = FeeScale * avg * qty + out
  <2>1. PICK m, w : m = avg * qty /\ w = CostScale * price * quantity
    OBVIOUS
  <2>2. m \in Int /\ w \in Int
    BY <1>6, <1>7, <2>1
  <2>3. FeeScale * (m + w) = FeeScale * m + FeeScale * w
    BY <1>7, <2>2
  <2>4. FeeScale * avg * qty = FeeScale * m /\ out = FeeScale * w
    BY <1>2, <1>6, <1>7, <2>1
  <2>5. FeeScale * avg' * qty' = FeeScale * (avg' * qty')
    BY <1>7, <1>8
  <2>6. QED
    BY <1>4, <2>1, <2>3, <2>4, <2>5
<1>11. out \in Int /\ FeeScale * avg * qty \in Int /\ charge \in Int /\ flow.fees \in Int
  <2>1. FillOf("BUY", quantity, Current.quote).fee \in Int
    BY <1>5, <1>6, FillTyped DEF OrderSide
  <2>2. QED
    BY <1>2, <1>6, <1>7, <2>1 DEF Flows
<1>12. qty' >= flow'.bought - flow'.sold
       /\ (qty' = flow'.bought - flow'.sold => qty = flow.bought - flow.sold)
  BY <1>3, <1>6, <1>7, <1>9 DEF CashInv
<1>13. ASSUME qty = flow.bought - flow.sold
       PROVE  realized' = flow'.cash + FeeScale * avg' * qty' + flow'.fees
  <2>1. realized = flow.cash + FeeScale * avg * qty + flow.fees /\ flow.cash \in Int
    BY <1>7, <1>13 DEF CashInv, CashBacksReturn
  <2>2. PICK kept : kept = FeeScale * avg * qty
    OBVIOUS
  <2>3. kept \in Int
        /\ flow.cash + kept + flow.fees
             = (flow.cash - out - charge) + (kept + out) + (flow.fees + charge)
    BY <1>11, <2>1, <2>2
  <2>4. QED
    BY <1>3, <1>9, <1>10, <2>1, <2>2, <2>3
<1>14. QED
  BY <1>12, <1>13 DEF CashInv, CashBacksReturn

(* A sale of no more than is held moves it back, with its PnL; after one   *)
(* of more, less is bought and not sold than is held, for good.            *)
LEMMA SellKeepsCash ==
  ASSUME AccountInv, Replays, CashInv, NEW quantity \in Quantities, SellFills(quantity)
  PROVE  CashInv'
<1>1. PICK price, fee : price = FillOf("SELL", quantity, Current.quote).price
                        /\ fee = FillOf("SELL", quantity, Current.quote).fee
  OBVIOUS
<1>2. PICK pnl : pnl = FeeScale * (CostScale * price - avg) * quantity - CostScale * fee
  OBVIOUS
<1>3. /\ AtQuote /\ realized' = realized + pnl /\ Close(quantity)
      /\ flow' = [flow EXCEPT !.sold = @ + quantity,
                    !.cash = @ + FeeScale * CostScale * price * quantity - CostScale * fee,
                    !.closed = IF quantity >= qty THEN next ELSE @]
  <2>1. FillOf("SELL", quantity, Current.quote).quantity = quantity
    BY DEF FillOf
  <2>2. QED
    BY <1>1, <1>2, <2>1 DEF SellFills, Notional, Equity
<1>4. Current.quote \in Quotes
  BY <1>3, QuoteTyped
<1>5. quantity \in Int /\ price \in Nat /\ fee \in Int
  BY <1>1, <1>4, FillTyped DEF OrderSide
<1>6. /\ FeeScale \in Nat /\ CostScale \in Nat /\ avg \in Int /\ qty \in Int /\ realized \in Int
      /\ flow \in Flows /\ flow.bought \in Int /\ flow.sold \in Int /\ flow.cash \in Int
      /\ flow.fees \in Int
  BY BacktestAssumption DEF AccountInv, Amounts, Flows, EquityInv
<1>7. PICK cost, charge, into :
         cost = FeeScale * avg /\ charge = CostScale * fee
         /\ into = FeeScale * CostScale * price * quantity
  OBVIOUS
<1>8. cost \in Int /\ charge \in Int /\ into \in Int /\ cost * quantity \in Int /\ cost * qty \in Int
  BY <1>5, <1>6, <1>7
<1>9. pnl = into - cost * quantity - charge
  <2>1. PICK w : w = CostScale * price
    OBVIOUS
  <2>2. w \in Nat /\ FeeScale * (w - avg) = FeeScale * w - FeeScale * avg
    BY <1>5, <1>6, <2>1
  <2>3. PICK v : v = FeeScale * w
    OBVIOUS
  <2>4. v \in Nat /\ (v - cost) * quantity = v * quantity - cost * quantity
    BY <1>5, <1>6, <1>8, <2>2, <2>3
  <2>5. v * quantity = into
    BY <1>5, <1>6, <1>7, <2>1, <2>3
  <2>6. QED
    BY <1>2, <1>7, <2>1, <2>2, <2>3, <2>4, <2>5
<1>10. /\ flow'.bought = flow.bought /\ flow'.sold = flow.sold + quantity
       /\ flow'.cash = flow.cash + into - charge /\ flow'.fees = flow.fees
  BY <1>3, <1>6, <1>7 DEF Flows
<1>11. CASE quantity > qty
  <2>1. qty' = 0
    BY <1>3, <1>5, <1>6, <1>11 DEF Close
  <2>2. flow'.bought - flow'.sold < 0
    BY <1>5, <1>6, <1>10, <1>11 DEF CashInv
  <2>3. QED
    BY <1>5, <1>6, <1>10, <2>1, <2>2 DEF CashInv, CashBacksReturn
<1>12. CASE ~ (quantity > qty)
  <2>1. qty' = qty - quantity /\ qty' \in Int
    BY <1>3, <1>5, <1>6, <1>12 DEF Close
  <2>2. FeeScale * avg' * qty' = cost * qty - cost * quantity
    <3>1. CASE quantity = qty
      <4>1. qty' = 0 /\ avg' = 0
        BY <1>3, <1>6, <3>1 DEF Close
      <4>2. FeeScale * avg' * qty' = 0
        BY <1>6, <4>1
      <4>3. QED
        BY <1>8, <3>1, <4>2
    <3>2. CASE quantity # qty
      <4>1. avg' = avg
        BY <1>3, <1>5, <1>6, <1>12, <3>2 DEF Close
      <4>2. cost * (qty - quantity) = cost * qty - cost * quantity
        BY <1>5, <1>6, <1>8
      <4>3. QED
        BY <1>7, <2>1, <4>1, <4>2
    <3>3. QED
      BY <3>1, <3>2
  <2>3. qty' = flow'.bought - flow'.sold => qty = flow.bought - flow.sold
    BY <1>5, <1>6, <1>10, <2>1
  <2>4. qty' >= flow'.bought - flow'.sold
    BY <1>5, <1>6, <1>10, <2>1 DEF CashInv
  <2>5. ASSUME qty = flow.bought - flow.sold PROVE realized = flow.cash + cost * qty + flow.fees
    BY <1>7, <2>5 DEF CashInv, CashBacksReturn
  <2>6. ASSUME qty' = flow'.bought - flow'.sold
        PROVE  realized' = flow'.cash + FeeScale * avg' * qty' + flow'.fees
    <3>1. realized = flow.cash + cost * qty + flow.fees
      BY <2>3, <2>5, <2>6
    <3>2. flow.cash \in Int /\ flow.fees \in Int
      BY <1>6
    <3>3. realized' = flow.cash + cost * qty + flow.fees + (into - cost * quantity - charge)
      BY <1>3, <1>9, <3>1
    <3>4. flow.cash + cost * qty + flow.fees + (into - cost * quantity - charge)
            = (flow.cash + into - charge) + (cost * qty - cost * quantity) + flow.fees
      BY <1>8, <3>2
    <3>5. QED
      BY <1>10, <2>2, <3>3, <3>4
  <2>7. QED
    BY <2>4, <2>6 DEF CashInv, CashBacksReturn
<1>13. QED
  BY <1>11, <1>12

(* Every step keeps it, where averages are exact.                          *)
LEMMA StepCash == RInv /\ AccountInv /\ CashInv /\ [Next]_vars /\ [ExactAverages]_vars => CashInv'
<1> SUFFICES ASSUME RInv, AccountInv, CashInv, [Next]_vars, [ExactAverages]_vars PROVE CashInv'
  OBVIOUS
<1>1. ASSUME UNCHANGED position PROVE CashInv'
  BY <1>1 DEF CashInv, CashBacksReturn, position
<1>2. CASE UNCHANGED vars
  BY <1>1, <1>2 DEF vars
<1>3. ASSUME ExactAverages, NEW quantity \in Quantities, BuyFills(quantity) \/ SellFills(quantity)
      PROVE  CashInv'
  BY <1>3, BuyKeepsCash, SellKeepsCash DEF RInv
<1>4. QED
  BY <1>1, <1>2, <1>3 DEF Next, UnknownMarket, Load, SkipOneSided, StrategyHolds,
                    StrategyRaises, OrderRejected, SaveRun

(* Where averages are exact, average cost loses no money: the realized PnL *)
(* is the cash received less the cash paid, what is held at cost, and the  *)
(* fees of the buys, which the code books nowhere.                         *)
THEOREM CashBacksReturns == Spec /\ [][ExactAverages]_vars => []CashBacksReturn
<1>1. Init => CashInv
  <2>1. ASSUME Init PROVE CashInv
    <3>1. /\ qty = 0 /\ avg = 0 /\ realized = 0 /\ flow.bought = 0 /\ flow.sold = 0 /\ flow.cash = 0
          /\ flow.fees = 0
      BY <2>1 DEF Init
    <3>2. FeeScale * 0 * 0 = 0
      BY BacktestAssumption
    <3>3. QED
      BY <3>1, <3>2 DEF CashInv, CashBacksReturn
  <2>2. QED
    BY <2>1
<1>2. CashInv => CashBacksReturn
  BY DEF CashInv
<1>3. QED
  BY <1>1, <1>2, AccountInit, StepAccount, StepCash, Inductive, PTL DEF Spec


----------------------------------------------------------------------------
(* Calibration: every forecast of the replay is in one bucket.             *)
LEMMA InOneBucket ==
  ASSUME Forecasts, NEW k \in 1..Len(pairs)
  PROVE  \E i \in 0..(NumBuckets - 1) :
           /\ InBucket(pairs[k], i)
           /\ \A j \in 0..(NumBuckets - 1) : InBucket(pairs[k], j) => j = i
<1> DEFINE forecast == pairs[k].forecast
           place == NumBuckets * forecast
           last == NumBuckets - 1
           S == { i \in 0..last : i * Certainty <= place }
<1>1. /\ Certainty \in Nat \ {0} /\ NumBuckets \in Nat \ {0} /\ last \in Nat
      /\ NumBuckets = last + 1
  BY BacktestAssumption
<1>2. forecast \in Nat /\ forecast <= Certainty
  <2>1. pairs[k] \in RoundTrip /\ pairs[k].forecast <= Certainty
    BY DEF Forecasts
  <2>2. QED
    BY <2>1 DEF RoundTrip
<1> HIDE DEF forecast
<1>3. place \in Nat /\ place <= (last + 1) * Certainty
  BY <1>1, <1>2, TimesKeepsOrder
<1>4. pairs[k].forecast = forecast
  BY DEF forecast
<1>5. \A i : InBucket(pairs[k], i) <=>
               /\ i * Certainty <= place
               /\ place < (i + 1) * Certainty \/ (i = last /\ place = (i + 1) * Certainty)
  BY <1>4 DEF InBucket
<1> HIDE DEF place, last
<1>6. PICK i \in S : \A j \in S : j <= i
  <2>1. S \in SUBSET (0..last)
    OBVIOUS
  <2>2. 0 \in S
    BY <1>1, <1>3
  <2> HIDE DEF S
  <2>3. QED
    BY <1>1, <2>1, <2>2, HasGreatest
<1>7. i \in 0..last /\ i \in Nat /\ i * Certainty <= place
  BY <1>1
<1>8. InBucket(pairs[k], i)
  <2>1. CASE i = last
    <3>1. (i + 1) * Certainty \in Nat /\ place <= (i + 1) * Certainty
      BY <1>1, <1>3, <1>7, <2>1
    <3>2. QED
      BY <1>3, <1>5, <1>7, <2>1, <3>1
  <2>2. CASE i # last
    <3>1. i + 1 \in 0..last /\ ~ (i + 1 <= i)
      BY <1>1, <1>7, <2>2
    <3>2. i + 1 \notin S
      BY <1>6, <3>1
    <3>3. ~ ((i + 1) * Certainty <= place)
      BY <3>1, <3>2
    <3>4. (i + 1) * Certainty \in Nat
      BY <1>1, <1>7
    <3>5. place < (i + 1) * Certainty
      BY <1>3, <3>3, <3>4
    <3>6. QED
      BY <1>5, <1>7, <3>5
  <2>3. QED
    BY <2>1, <2>2
<1>9. ASSUME NEW j \in 0..last, InBucket(pairs[k], j) PROVE j = i
  <2>1. j * Certainty <= place /\ j \in Nat /\ j <= last
        /\ (place < (j + 1) * Certainty \/ j = last)
    BY <1>1, <1>5, <1>9
  <2>2. j <= i
    BY <1>6, <2>1
  <2>3. CASE j = last
    BY <1>1, <1>7, <2>2, <2>3
  <2>4. CASE place < (j + 1) * Certainty /\ j < i
    <3>1. j + 1 <= i /\ j + 1 \in Int /\ i \in Int /\ Certainty \in Nat
      BY <1>1, <1>7, <2>1, <2>4
    <3>2. (j + 1) * Certainty <= i * Certainty
      BY <3>1, TimesKeepsOrder
    <3>3. (j + 1) * Certainty \in Nat /\ i * Certainty \in Nat
      BY <1>1, <1>7, <2>1
    <3>4. QED
      BY <1>3, <1>7, <2>4, <3>2, <3>3
  <2>5. QED
    BY <1>7, <2>1, <2>2, <2>3, <2>4
<1>10. QED
  BY <1>7, <1>8, <1>9 DEF last

(* The pairs of a bucket are pairs of the replay, and their forecasts      *)
(* average to one within the bucket.                                       *)
LEMMA BucketHolds ==
  ASSUME Forecasts, NEW i \in 0..(NumBuckets - 1)
  PROVE  /\ PairsIn(i) \subseteq 1..Len(pairs) /\ IsFiniteSet(PairsIn(i))
         /\ BucketOf(i).place = i /\ BucketOf(i).count = Cardinality(PairsIn(i))
         /\ PairsIn(i) # {} =>
              /\ BucketOf(i) \in Bucket
              /\ i * Certainty * BucketOf(i).forecast.den <= NumBuckets * BucketOf(i).forecast.num
              /\ NumBuckets * BucketOf(i).forecast.num
                   <= (i + 1) * Certainty * BucketOf(i).forecast.den
<1>1. /\ Certainty \in Nat \ {0} /\ NumBuckets \in Nat \ {0} /\ i \in Nat
      /\ pairs \in Seq(RoundTrip) /\ DOMAIN pairs = 1..Len(pairs) /\ Len(pairs) \in Nat
  BY BacktestAssumption DEF Forecasts
<1>2. PairsIn(i) \subseteq 1..Len(pairs)
  BY <1>1 DEF PairsIn
<1>3. IsFiniteSet(PairsIn(i)) /\ Cardinality(PairsIn(i)) \in Nat
  <2>1. IsFiniteSet(1..Len(pairs))
    BY <1>1, FS_Interval
  <2>2. IsFiniteSet(PairsIn(i))
    BY <1>2, <2>1, FS_Subset
  <2>3. QED
    BY <2>2, FS_CardinalityType
<1>4. BucketOf(i) = [ place |-> i, count |-> Cardinality(PairsIn(i)),
                      forecast |-> [num |-> ForecastIn(i), den |-> Cardinality(PairsIn(i))],
                      observed |-> [num |-> ObservedIn(i), den |-> Cardinality(PairsIn(i))] ]
  BY DEF BucketOf
<1>5. ASSUME PairsIn(i) # {}
      PROVE  /\ BucketOf(i) \in Bucket
             /\ i * Certainty * BucketOf(i).forecast.den <= NumBuckets * BucketOf(i).forecast.num
             /\ NumBuckets * BucketOf(i).forecast.num
                  <= (i + 1) * Certainty * BucketOf(i).forecast.den
  <2>1. PICK n : n = Cardinality(PairsIn(i))
    OBVIOUS
  <2>2. n \in Nat \ {0}
    BY <1>3, <1>5, <2>1, FS_EmptySet
  <2>3. PICK S : S = PairsIn(i)
    OBVIOUS
  <2>4. \A k \in S : k \in 1..Len(pairs) /\ pairs[k] \in RoundTrip /\ pairs[k].forecast \in Nat
                     /\ InBucket(pairs[k], i)
    <3>1. ASSUME NEW k \in S
          PROVE  k \in 1..Len(pairs) /\ pairs[k] \in RoundTrip /\ InBucket(pairs[k], i)
      <4>1. k \in 1..Len(pairs) /\ InBucket(pairs[k], i)
        BY <1>1, <2>3 DEF PairsIn
      <4>2. pairs[k] \in RoundTrip
        BY <1>1, <4>1
      <4>3. QED
        BY <4>1, <4>2
    <3>2. \A trip \in RoundTrip : trip.forecast \in Nat
      BY DEF RoundTrip
    <3>3. QED
      BY <3>1, <3>2
  <2>5. PICK f : f = [ k \in S |-> pairs[k].forecast ]
    OBVIOUS
  <2>6. f \in [S -> Int] /\ DOMAIN f = S
    BY <2>4, <2>5
  <2>7. IsFiniteSet(S)
    BY <1>3, <2>3
  <2>8. Summable(f, S)
    BY <2>6, <2>7 DEF Summable
  <2>9. PICK lo, hi : lo = i * Certainty /\ hi = (i + 1) * Certainty
    OBVIOUS
  <2>10. lo \in Nat /\ hi \in Nat
    BY <1>1, <2>9
  <2>11. ASSUME NEW k \in S PROVE lo <= NumBuckets * f[k] /\ NumBuckets * f[k] <= hi
    <3>1. f[k] = pairs[k].forecast /\ f[k] \in Nat
      BY <2>4, <2>5
    <3>2. PICK place : place = NumBuckets * pairs[k].forecast
      OBVIOUS
    <3>3. lo <= place /\ (place < hi \/ place = hi)
      BY <2>4, <2>9, <3>2 DEF InBucket
    <3>4. place \in Nat
      BY <1>1, <3>1, <3>2
    <3>5. QED
      BY <2>10, <3>1, <3>2, <3>3, <3>4
  <2>12. lo * Cardinality(S) <= NumBuckets * SumFunctionOnSet(f, S)
         /\ NumBuckets * SumFunctionOnSet(f, S) <= hi * Cardinality(S)
    <3>1. lo \in Int /\ hi \in Int /\ NumBuckets \in Int
      BY <1>1, <2>10
    <3>2. \A k \in S : lo <= NumBuckets * f[k] /\ NumBuckets * f[k] <= hi
      BY <2>11
    <3>3. QED
      BY <2>8, <3>1, <3>2, SumBounds
  <2>13. ForecastIn(i) = SumFunctionOnSet(f, S)
    BY <2>3, <2>5, <2>6 DEF ForecastIn, Total, SumFunction
  <2>14. ForecastIn(i) \in Int
    BY <2>8, <2>13, SumTyped
  <2>15. ObservedIn(i) \in Int
    <3>1. [ k \in S |-> Outcome(pairs[k]) ] \in [S -> Int]
      BY <1>1 DEF Outcome
    <3>2. ObservedIn(i) = SumFunction([ k \in S |-> Outcome(pairs[k]) ])
      BY <2>3 DEF ObservedIn, Total
    <3>3. QED
      BY <2>7, <3>1, <3>2, SumFunctionTyped
  <2>16. BucketOf(i) \in Bucket
    BY <1>4, <2>1, <2>2, <2>14, <2>15 DEF Bucket, Fraction
  <2>17. BucketOf(i).forecast.num = ForecastIn(i) /\ BucketOf(i).forecast.den = n
    BY <1>4, <2>1
  <2>18. QED
    BY <2>1, <2>3, <2>9, <2>12, <2>13, <2>16, <2>17
<1>6. QED
  BY <1>2, <1>3, <1>4, <1>5

(* The loop lists what it has after n turns.                               *)
Lists(g) ==
  g = [ n \in 0..NumBuckets |->
          IF n = 0 THEN <<>>
          ELSE IF PairsIn(n - 1) = {} THEN g[n - 1]
          ELSE Append(g[n - 1], BucketOf(n - 1)) ]

(* The list of the filled bins, built one bin at a time, exists. *)
LEMMA ListingExists ==
  ASSUME Forecasts
  PROVE  \E g : Lists(g)
<1> DEFINE step == [ q \in (1..NumBuckets) \X Seq(Bucket) |->
                       IF PairsIn(q[1] - 1) = {} THEN q[2]
                       ELSE Append(q[2], BucketOf(q[1] - 1)) ]
<1>1. NumBuckets \in Nat /\ <<>> \in Seq(Bucket)
  BY BacktestAssumption
<1>2. step \in [(1..NumBuckets) \X Seq(Bucket) -> Seq(Bucket)]
  <2>1. ASSUME NEW n \in 1..NumBuckets, NEW l \in Seq(Bucket), PairsIn(n - 1) # {}
        PROVE  Append(l, BucketOf(n - 1)) \in Seq(Bucket)
    <3>1. n - 1 \in 0..(NumBuckets - 1)
      BY <1>1
    <3>2. BucketOf(n - 1) \in Bucket
      BY <2>1, <3>1, BucketHolds
    <3>3. QED
      BY <3>2
  <2>2. QED
    BY <2>1
<1>3. \A n \in 1..NumBuckets, l \in Seq(Bucket) :
        step[<<n, l>>] = IF PairsIn(n - 1) = {} THEN l ELSE Append(l, BucketOf(n - 1))
  OBVIOUS
<1> HIDE DEF step
<1>4. PICK f \in [0..NumBuckets -> Seq(Bucket)] : Steps(f, NumBuckets, <<>>, step)
  BY <1>1, <1>2, RecursionExists
<1>5. ASSUME NEW n \in 0..NumBuckets
      PROVE  f[n] = IF n = 0 THEN <<>>
                    ELSE IF PairsIn(n - 1) = {} THEN f[n - 1]
                    ELSE Append(f[n - 1], BucketOf(n - 1))
  <2>1. f[n] = IF n = 0 THEN <<>> ELSE step[<<n, f[n - 1]>>]
    BY <1>4 DEF Steps
  <2>2. CASE n = 0
    BY <2>1, <2>2
  <2>3. CASE n # 0
    <3>1. n \in 1..NumBuckets /\ n - 1 \in 0..NumBuckets
      BY <1>1, <2>3
    <3>2. f[n - 1] \in Seq(Bucket)
      BY <1>4, <3>1
    <3>3. QED
      BY <1>3, <2>1, <2>3, <3>1, <3>2
  <2>4. QED
    BY <2>2, <2>3
<1>6. Lists(f)
  BY <1>5 DEF Lists
<1>7. QED
  BY <1>6

(* The places of the pairs that the first n buckets hold.                  *)
Before(n) == { k \in 1..Len(pairs) : \E i \in 0..(n - 1) : InBucket(pairs[k], i) }

(* Each bucket holds pairs of its own.                                     *)
LEMMA BeforeGrows ==
  ASSUME Forecasts, NEW n \in 0..(NumBuckets - 1)
  PROVE  /\ Before(n + 1) = Before(n) \union PairsIn(n)
         /\ Before(n) \intersect PairsIn(n) = {}
<1>1. NumBuckets \in Nat \ {0} /\ n \in Nat /\ Len(pairs) \in Nat /\ DOMAIN pairs = 1..Len(pairs)
  BY BacktestAssumption DEF Forecasts
<1>2. Before(n + 1) = Before(n) \union PairsIn(n)
  <2>1. \A i : i \in 0..n <=> i \in 0..(n - 1) \/ i = n
    BY <1>1
  <2>2. n + 1 - 1 = n
    BY <1>1
  <2>3. QED
    BY <1>1, <2>1, <2>2 DEF Before, PairsIn
<1>3. Before(n) \intersect PairsIn(n) = {}
  <2>1. ASSUME NEW k \in Before(n) \intersect PairsIn(n) PROVE FALSE
    <3>1. k \in 1..Len(pairs) /\ InBucket(pairs[k], n)
      BY <2>1, <1>1 DEF Before, PairsIn
    <3>2. PICK i \in 0..(n - 1) : InBucket(pairs[k], i)
      BY <2>1 DEF Before
    <3>3. i \in 0..(NumBuckets - 1) /\ i # n
      BY <1>1
    <3>4. QED
      BY <3>1, <3>2, <3>3, InOneBucket
  <2>2. QED
    BY <2>1
<1>4. QED
  BY <1>2, <1>3

Counts(list) == [ k \in DOMAIN list |-> list[k].count ]

(* A list of buckets is one of n turns of the loop.                        *)
ListOf(n, list) ==
  /\ list \in Seq(Bucket)
  /\ \A k \in 1..Len(list) :
       LET i == list[k].place
       IN i \in 0..(n - 1) /\ PairsIn(i) # {} /\ list[k] = BucketOf(i)
  /\ \A k \in 2..Len(list) : list[k - 1].place < list[k].place
  /\ Total(Counts(list)) = Cardinality(Before(n))

(* A turn of the loop lists its bucket unless it is empty.                 *)
LEMMA TurnLists ==
  ASSUME Forecasts, NEW n \in 0..(NumBuckets - 1), NEW list, ListOf(n, list)
  PROVE  /\ PairsIn(n) = {} => ListOf(n + 1, list)
         /\ PairsIn(n) # {} => ListOf(n + 1, Append(list, BucketOf(n)))
<1>1. NumBuckets \in Nat \ {0} /\ n \in Nat /\ Len(pairs) \in Nat /\ DOMAIN pairs = 1..Len(pairs)
  BY BacktestAssumption DEF Forecasts
<1>2. Before(n + 1) = Before(n) \union PairsIn(n)
  BY BeforeGrows
<1>3. Before(n) \intersect PairsIn(n) = {}
  BY BeforeGrows
<1>4. PICK held, in : held = Cardinality(Before(n)) /\ in = Cardinality(PairsIn(n))
  OBVIOUS
<1>5. held \in Nat /\ in \in Nat /\ Cardinality(Before(n + 1)) = held + in
  <2>1. IsFiniteSet(1..Len(pairs)) /\ Before(n) \subseteq 1..Len(pairs)
    BY <1>1, FS_Interval DEF Before
  <2>2. IsFiniteSet(Before(n)) /\ IsFiniteSet(PairsIn(n))
    BY <2>1, FS_Subset, BucketHolds
  <2>3. Cardinality(Before(n) \union PairsIn(n)) = held + in - Cardinality({})
    BY <1>3, <1>4, <2>2, FS_Union
  <2>4. held \in Nat /\ in \in Nat /\ Cardinality({}) = 0
    BY <1>4, <2>2, FS_CardinalityType, FS_EmptySet
  <2>6. held + in - 0 = held + in
    BY <2>4
  <2>7. Cardinality(Before(n + 1)) = held + in - 0
    BY <1>2, <2>3, <2>4, Zenon
  <2>8. QED
    BY <2>4, <2>6, <2>7
<1>6. ASSUME PairsIn(n) = {} PROVE ListOf(n + 1, list)
  <2>1. Before(n + 1) = Before(n)
    BY <1>2, <1>6
  <2>2. \A i : i \in 0..(n - 1) => i \in 0..(n + 1 - 1)
    BY <1>1
  <2>3. QED
    BY <2>1, <2>2 DEF ListOf
<1>7. ASSUME PairsIn(n) # {} PROVE ListOf(n + 1, Append(list, BucketOf(n)))
  <2>1. PICK b : b = BucketOf(n)
    OBVIOUS
  <2>2. b \in Bucket /\ b.place = n /\ b.count = in /\ in \in Int
    BY <1>4, <1>5, <1>7, <2>1, BucketHolds
  <2>3. PICK m : m = Len(list)
    OBVIOUS
  <2>4. PICK l : l = Append(list, b)
    OBVIOUS
  <2>5. list \in Seq(Bucket) /\ m \in Nat /\ DOMAIN list = 1..m
    BY <2>3 DEF ListOf
  <2>6. l \in Seq(Bucket) /\ Len(l) = m + 1 /\ DOMAIN l = 1..(m + 1)
    BY <2>2, <2>3, <2>4, <2>5
  <2>7. l[m + 1] = b /\ \A k \in 1..m : l[k] = list[k]
    BY <2>2, <2>3, <2>4, <2>5
  <2>8. \A k \in 1..(m + 1) : k \in 1..m \/ k = m + 1
    BY <2>5
  <2>9. ASSUME NEW k \in 1..(m + 1)
        PROVE  LET i == l[k].place
               IN i \in 0..(n + 1 - 1) /\ PairsIn(i) # {} /\ l[k] = BucketOf(i)
    <3>1. CASE k = m + 1
      <4>1. l[k] = b /\ n \in 0..(n + 1 - 1)
        BY <1>1, <2>7, <3>1
      <4>2. QED
        BY <1>7, <2>1, <2>2, <4>1
    <3>2. CASE k \in 1..m
      <4>1. PICK i : i = list[k].place
        OBVIOUS
      <4>2. i \in 0..(n - 1) /\ PairsIn(i) # {} /\ list[k] = BucketOf(i)
        BY <2>3, <3>2, <4>1 DEF ListOf
      <4>3. i \in 0..(n + 1 - 1) /\ l[k] = list[k]
        BY <1>1, <2>7, <3>2, <4>2
      <4>4. QED
        BY <4>1, <4>2, <4>3
    <3>3. QED
      BY <2>8, <3>1, <3>2
  <2>10. ASSUME NEW k \in 2..(m + 1) PROVE l[k - 1].place < l[k].place
    <3>1. CASE k = m + 1
      <4>1. m \in 1..m /\ k - 1 = m
        BY <2>5, <2>10, <3>1
      <4>2. list[m].place \in 0..(n - 1)
        BY <2>3, <4>1 DEF ListOf
      <4>3. list[m].place < n
        BY <1>1, <4>2
      <4>4. QED
        BY <2>2, <2>7, <3>1, <4>1, <4>3
    <3>2. CASE k # m + 1
      <4>1. k \in 2..m /\ k - 1 \in 1..m /\ k \in 1..m
        BY <2>5, <3>2
      <4>2. list[k - 1].place < list[k].place
        BY <2>3, <4>1 DEF ListOf
      <4>3. QED
        BY <2>7, <4>1, <4>2
    <3>3. QED
      BY <3>1, <3>2
  <2>11. Total(Counts(l)) = Total(Counts(list)) + in
    <3>1. PICK c : c = Counts(list)
      OBVIOUS
    <3>2. \A k \in 1..m : list[k].count \in Int
      <4>1. \A x \in Bucket : x.count \in Int
        BY DEF Bucket
      <4>2. \A k \in 1..m : list[k] \in Bucket
        BY <2>3, <2>5
      <4>3. QED
        BY <4>1, <4>2
    <3>3. c = [ k \in 1..m |-> list[k].count ]
      BY <2>5, <3>1 DEF Counts
    <3>4. c \in [1..m -> Int]
      BY <3>2, <3>3
    <3>5. PICK d : d = Counts(l)
      OBVIOUS
    <3>6. d = [ k \in 1..(m + 1) |-> l[k].count ]
      BY <2>6, <3>5 DEF Counts
    <3>7. m + 1 \in 1..(m + 1) /\ \A k \in 1..m : k \in 1..(m + 1)
      BY <2>5
    <3>8. d[m + 1] = in /\ \A k \in 1..m : d[k] = c[k]
      BY <2>2, <2>7, <3>3, <3>6, <3>7
    <3>9. \A k \in 1..(m + 1) : l[k].count \in Int
      BY <2>2, <2>7, <2>8, <3>2
    <3>10. d \in [1..(m + 1) -> Int]
      BY <3>6, <3>9
    <3>11. SumFunction(d) = SumFunction(c) + d[m + 1]
      BY <2>5, <3>4, <3>8, <3>10, SumOfLonger
    <3>12. QED
      BY <3>1, <3>5, <3>8, <3>11 DEF Total
  <2>12. Total(Counts(l)) = Cardinality(Before(n + 1))
    BY <1>4, <1>5, <2>11 DEF ListOf
  <2>13. ListOf(n + 1, l)
    BY <2>6, <2>9, <2>10, <2>12 DEF ListOf
  <2>14. QED
    BY <2>1, <2>4, <2>13
<1>8. QED
  BY <1>6, <1>7

(* So does each turn of the whole loop.                                    *)
LEMMA LoopTurns ==
  ASSUME Forecasts
  PROVE  \E listed :
           /\ CalibrationBuckets = listed[NumBuckets]
           /\ \A n \in 0..NumBuckets :
                /\ ListOf(n, listed[n])
                /\ listed[n] = IF n = 0 THEN <<>>
                               ELSE IF PairsIn(n - 1) = {} THEN listed[n - 1]
                               ELSE Append(listed[n - 1], BucketOf(n - 1))
<1> DEFINE listed == CHOOSE g : Lists(g)
           P == { n \in 0..NumBuckets : ListOf(n, listed[n]) }
<1>1. Lists(listed)
  BY ListingExists
<1>2. CalibrationBuckets = listed[NumBuckets]
  BY DEF CalibrationBuckets, Lists
<1> HIDE DEF listed
<1>3. NumBuckets \in Nat \ {0} /\ Len(pairs) \in Nat
  BY BacktestAssumption DEF Forecasts
<1>4. \A n \in 0..NumBuckets :
        listed[n] = IF n = 0 THEN <<>>
                    ELSE IF PairsIn(n - 1) = {} THEN listed[n - 1]
                    ELSE Append(listed[n - 1], BucketOf(n - 1))
  BY <1>1 DEF Lists
<1>5. ListOf(0, listed[0])
  <2>1. listed[0] = <<>>
    BY <1>3, <1>4
  <2>2. Before(0) = {}
    BY DEF Before
  <2>3. Cardinality(Before(0)) = 0
    BY <2>2, FS_EmptySet
  <2>4. Counts(<<>>) = <<>>
    BY DEF Counts
  <2>5. Total(Counts(<<>>)) = 0
    BY <2>4, SumOfEmptyList DEF Total
  <2>6. <<>> \in Seq(Bucket) /\ Len(<<>>) = 0 /\ (\A k \in 1..0 : FALSE) /\ (\A k \in 2..0 : FALSE)
    OBVIOUS
  <2>7. ListOf(0, <<>>)
    BY <2>3, <2>5, <2>6 DEF ListOf
  <2>8. QED
    BY <2>1, <2>7
<1>6. ASSUME NEW n \in P, n < NumBuckets PROVE n + 1 \in P
  <2>1. n \in 0..(NumBuckets - 1) /\ n + 1 \in 0..NumBuckets /\ n + 1 # 0 /\ n + 1 - 1 = n
        /\ ListOf(n, listed[n])
    BY <1>3, <1>6
  <2>2. listed[n + 1] = IF PairsIn(n) = {} THEN listed[n] ELSE Append(listed[n], BucketOf(n))
    BY <1>4, <2>1
  <2>3. ListOf(n + 1, listed[n + 1])
    BY <2>1, <2>2, TurnLists
  <2>4. QED
    BY <2>1, <2>3
<1>7. P = 0..NumBuckets
  <2>1. P \in SUBSET (0..NumBuckets) /\ 0 \in P
    BY <1>3, <1>5
  <2> HIDE DEF P
  <2>2. QED
    BY <1>3, <1>6, <2>1, BoundedInduction
<1>8. \A n \in 0..NumBuckets : ListOf(n, listed[n])
  BY <1>7
<1>9. QED
  BY <1>2, <1>4, <1>8

(* Its last turn lists the buckets.                                        *)
LEMMA LoopLists ==
  ASSUME Forecasts
  PROVE  ListOf(NumBuckets, CalibrationBuckets)
<1>1. NumBuckets \in 0..NumBuckets
  BY BacktestAssumption
<1>2. QED
  BY <1>1, LoopTurns


----------------------------------------------------------------------------
(* Every forecast counts in exactly one bucket, certainty included, and    *)
(* the average of a bucket is one of its own.                              *)
THEOREM CalibrationsPartition == Spec => []CalibrationPartitions
<1>1. ASSUME Forecasts, Summarised, metrics # NoMetric PROVE CalibrationPartitions
  <2>1. PICK buckets : buckets = CalibrationBuckets
    OBVIOUS
  <2>2. metrics.calibration_buckets = IF pairs = <<>> THEN NoMetric ELSE buckets
    BY <1>1, <2>1 DEF Summarised, ComputedMetrics
  <2>3. ListOf(NumBuckets, buckets)
    BY <1>1, <2>1, LoopLists
  <2>4. NumBuckets \in Nat \ {0} /\ Len(pairs) \in Nat /\ buckets \in Seq(Bucket)
        /\ DOMAIN buckets = 1..Len(buckets) /\ Len(buckets) \in Nat
    BY <1>1, <2>3, BacktestAssumption DEF Forecasts, ListOf
  <2>5. Before(NumBuckets) = 1..Len(pairs)
    BY <1>1, InOneBucket DEF Before
  <2>6. Total([ k \in DOMAIN buckets |-> buckets[k].count ]) = Len(pairs)
    <3>1. Cardinality(1..Len(pairs)) = Len(pairs)
      <4>1. PICK n \in Nat : n = Len(pairs)
        BY <2>4
      <4>2. Cardinality(1..n) = n
        BY FS_Interval
      <4>3. QED
        BY <4>1, <4>2
    <3>2. QED
      BY <2>3, <2>5, <3>1 DEF ListOf, Counts
  <2>7. ASSUME NEW k \in DOMAIN buckets
        PROVE  /\ buckets[k].place * Certainty * buckets[k].forecast.den
                    <= NumBuckets * buckets[k].forecast.num
               /\ NumBuckets * buckets[k].forecast.num
                    <= (buckets[k].place + 1) * Certainty * buckets[k].forecast.den
               /\ k > 1 => buckets[k - 1].place < buckets[k].place
    <3>1. PICK i : i = buckets[k].place
      OBVIOUS
    <3>2. i \in 0..(NumBuckets - 1) /\ PairsIn(i) # {} /\ buckets[k] = BucketOf(i)
      BY <2>3, <2>4, <3>1 DEF ListOf
    <3>3. k > 1 => k \in 2..Len(buckets)
      BY <2>4
    <3>4. k > 1 => buckets[k - 1].place < buckets[k].place
      BY <2>3, <3>3 DEF ListOf
    <3>5. /\ i * Certainty * BucketOf(i).forecast.den <= NumBuckets * BucketOf(i).forecast.num
          /\ NumBuckets * BucketOf(i).forecast.num
               <= (i + 1) * Certainty * BucketOf(i).forecast.den
      BY <1>1, <3>2, BucketHolds
    <3>6. QED
      BY <3>1, <3>2, <3>4, <3>5
  <2>8. QED
    <3>1. buckets # NoMetric
      BY <2>4, BacktestNullAssumption
    <3>2. CASE pairs = <<>>
      BY <2>2, <3>2 DEF CalibrationPartitions
    <3>3. CASE pairs # <<>>
      <4>1. metrics.calibration_buckets = buckets
        BY <2>2, <3>3
      <4>2. QED
        BY <2>6, <2>7, <3>1, <3>3, <4>1 DEF CalibrationPartitions
    <3>4. QED
      BY <3>2, <3>3
<1>2. AccountInv /\ Summarised => CalibrationPartitions
  <2>1. metrics = NoMetric => CalibrationPartitions
    BY DEF CalibrationPartitions
  <2>2. QED
    BY <1>1, <2>1 DEF AccountInv
<1>3. QED
  BY <1>2, AccountInit, StepAccount, Inductive, RunsAreSummarised, PTL DEF Spec

----------------------------------------------------------------------------
(* Calibration and the Brier score.  The gap of a bucket is the sum of the *)
(* errors of its pairs, whose square is at most their number times the sum *)
(* of their squares.                                                       *)
Gap(b) == b.forecast.num * b.observed.den - b.observed.num * b.forecast.den

Unit(b) == b.forecast.den * b.observed.den

ErrorOf(b, scale) == b.count * Gap(b) * Gap(b) * (scale \div (Unit(b) * Unit(b)))

Errors(list, scale) == [ k \in DOMAIN list |-> ErrorOf(list[k], scale) ]

Squares == [ k \in 1..Len(pairs) |-> SquaredError(pairs[k]) ]

(* Division rounds down.                                                   *)
LEMMA DivisionBounds ==
  ASSUME NEW s \in Nat, NEW u \in Nat \ {0}
  PROVE  s \div u \in Nat /\ u * (s \div u) <= s
OBVIOUS

(* What a bucket of n pairs, that differ by d in sum, adds.                *)
LEMMA ErrorBounded ==
  ASSUME NEW n \in Nat \ {0}, NEW d \in Int, NEW q \in Nat, d * d <= n * q, NEW scale \in Nat,
         NEW gap \in Int, gap = d * n, NEW unit \in Int, unit = n * n
  PROVE  /\ n * gap * gap * (scale \div (unit * unit)) \in Int
         /\ n * gap * gap * (scale \div (unit * unit)) <= scale * q
<1>1. PICK u \in Nat \ {0} : u = unit * unit
  <2>1. \A x, y \in Nat \ {0} : x * y \in Nat \ {0}
    OBVIOUS
  <2>2. unit \in Nat \ {0}
    BY <2>1
  <2>3. QED
    BY <2>1, <2>2
<1>2. PICK z \in Nat : z = scale \div u /\ u * z <= scale
  BY <1>1, DivisionBounds
<1>3. PICK w \in Nat : w = n * n * n * z
  <2>1. \A x, y \in Nat : x * y \in Nat
    OBVIOUS
  <2>2. QED
    BY <2>1
<1>4. PICK a \in Int, b \in Int : a = d * d /\ b = n * q /\ a <= b
  OBVIOUS
<1>5. w * a <= w * b
  BY <1>3, <1>4, TimesKeepsOrder
<1>6. n * gap * gap * z = w * a
  BY <1>2, <1>3, <1>4
<1>7. w * b = (u * z) * q
  <2>1. u = n * n * (n * n)
    BY <1>1
  <2>2. w * b = n * n * n * z * (n * q)
    BY <1>3, <1>4
  <2>3. QED
    BY <1>2, <2>1, <2>2
<1>8. PICK c \in Int : c = u * z
  BY <1>1, <1>2
<1>9. c * q <= scale * q
  BY <1>2, <1>8, TimesKeepsOrder
<1>10. w * a \in Int
  BY <1>3, <1>4
<1>11. scale \div (unit * unit) = z
  BY <1>1, <1>2
<1>12. c * q \in Int /\ scale * q \in Int /\ w * b \in Int
  BY <1>3, <1>4, <1>8
<1>13. QED
  BY <1>5, <1>6, <1>7, <1>8, <1>9, <1>10, <1>11, <1>12

(* The pairs are bounded, and so are their squared errors.                 *)
LEMMA SquaresTyped ==
  ASSUME Forecasts
  PROVE  /\ Squares \in [1..Len(pairs) -> Int] /\ IsFiniteSet(1..Len(pairs))
         /\ \A k \in 1..Len(pairs) :
              /\ pairs[k].forecast \in Int /\ Outcome(pairs[k]) \in Int
              /\ Squares[k] = (pairs[k].forecast - Outcome(pairs[k]))
                                * (pairs[k].forecast - Outcome(pairs[k]))
<1>1. Certainty \in Int /\ pairs \in Seq(RoundTrip) /\ Len(pairs) \in Nat
      /\ \A k \in 1..Len(pairs) : pairs[k] \in RoundTrip
  BY BacktestAssumption DEF Forecasts
<1>2. \A x \in RoundTrip : x.forecast \in Int
  BY DEF RoundTrip
<1>3. ASSUME NEW k \in 1..Len(pairs)
      PROVE  /\ pairs[k].forecast \in Int /\ Outcome(pairs[k]) \in Int
             /\ Squares[k] = (pairs[k].forecast - Outcome(pairs[k]))
                               * (pairs[k].forecast - Outcome(pairs[k]))
             /\ Squares[k] \in Int
  <2>1. pairs[k].forecast \in Int /\ Outcome(pairs[k]) \in Int
    BY <1>1, <1>2 DEF Outcome
  <2>2. Squares[k] = SquaredError(pairs[k])
    BY DEF Squares
  <2>3. Squares[k] = (pairs[k].forecast - Outcome(pairs[k]))
                               * (pairs[k].forecast - Outcome(pairs[k]))
    BY <2>2 DEF SquaredError
  <2>4. \A x, y \in Int : (x - y) * (x - y) \in Int
    OBVIOUS
  <2>5. QED
    BY <2>1, <2>3, <2>4
<1>4. Squares \in [1..Len(pairs) -> Int]
  BY <1>3 DEF Squares
<1>5. IsFiniteSet(1..Len(pairs))
  BY <1>1, FS_Interval
<1>6. QED
  BY <1>3, <1>4, <1>5

(* A bucket explains no more than the squared errors of its pairs.         *)
LEMMA BucketErrs ==
  ASSUME Forecasts, NEW i \in 0..(NumBuckets - 1), PairsIn(i) # {}, NEW scale \in Nat
  PROVE  /\ ErrorOf(BucketOf(i), scale) \in Int
         /\ ErrorOf(BucketOf(i), scale) <= scale * SumFunctionOnSet(Squares, PairsIn(i))
<1>1. PICK S : S = PairsIn(i)
  OBVIOUS
<1>2. S \subseteq 1..Len(pairs) /\ IsFiniteSet(S) /\ S # {}
  BY <1>1, BucketHolds
<1>3. PICK n \in Nat \ {0} : n = Cardinality(S)
  <2>1. Cardinality(S) \in Nat
    BY <1>2, FS_CardinalityType
  <2>2. Cardinality(S) # 0
    BY <1>2, FS_EmptySet
  <2>3. QED
    BY <2>1, <2>2
<1>4. PICK f : f = [ k \in S |-> pairs[k].forecast ]
  OBVIOUS
<1>5. PICK g : g = [ k \in S |-> Outcome(pairs[k]) ]
  OBVIOUS
<1>6. PICK e : e = [ k \in S |-> f[k] - g[k] ]
  OBVIOUS
<1>7. \A k \in S : /\ f[k] \in Int /\ g[k] \in Int /\ e[k] = f[k] - g[k]
                   /\ Squares[k] = e[k] * e[k]
  <2>1. \A k \in S : /\ f[k] = pairs[k].forecast /\ g[k] = Outcome(pairs[k])
                     /\ e[k] = f[k] - g[k] /\ k \in 1..Len(pairs)
    BY <1>2, <1>4, <1>5, <1>6
  <2>2. ASSUME NEW k \in S
        PROVE  /\ f[k] \in Int /\ g[k] \in Int /\ e[k] = f[k] - g[k]
               /\ Squares[k] = e[k] * e[k]
    BY <2>1, SquaresTyped
  <2>3. QED
    BY <2>2
<1>8. Summable(f, S) /\ Summable(g, S)
  BY <1>2, <1>7 DEF Summable
<1>9. /\ Summable(e, S)
      /\ SumFunctionOnSet(e, S) = SumFunctionOnSet(f, S) - SumFunctionOnSet(g, S)
  BY <1>7, <1>8, SumOfDifference
<1>10. PICK a \in Int, b \in Int : a = SumFunctionOnSet(f, S) /\ b = SumFunctionOnSet(g, S)
  BY <1>8, SumTyped
<1>11. ForecastIn(i) = a /\ ObservedIn(i) = b
  <2>1. DOMAIN f = S /\ DOMAIN g = S
    BY <1>4, <1>5
  <2>2. SumFunction(f) = a /\ SumFunction(g) = b
    BY <1>10, <2>1 DEF SumFunction
  <2>3. QED
    BY <1>1, <1>4, <1>5, <2>2 DEF ForecastIn, ObservedIn, Total
<1>12. PICK q \in Nat : q = SumFunctionOnSet(Squares, S) /\ (a - b) * (a - b) <= n * q
  <2>1. /\ SumFunctionOnSet(Squares, S) \in Nat
        /\ SumFunctionOnSet(e, S) * SumFunctionOnSet(e, S)
             <= Cardinality(S) * SumFunctionOnSet(Squares, S)
    <3>1. \A k \in S : Squares[k] = e[k] * e[k]
      BY <1>7
    <3>2. QED
      BY <1>9, <3>1, SquareOfSum
  <2>2. SumFunctionOnSet(e, S) = a - b
    BY <1>9, <1>10
  <2>3. QED
    BY <1>3, <2>1, <2>2
<1>13. PICK x : x = BucketOf(i)
  OBVIOUS
<1>14. /\ x.count = n /\ x.forecast.num = a /\ x.forecast.den = n
       /\ x.observed.num = b /\ x.observed.den = n
  BY <1>1, <1>3, <1>11, <1>13 DEF BucketOf
<1>15. PICK d \in Int : d = a - b
  OBVIOUS
<1>16. PICK gap \in Int : gap = Gap(x) /\ gap = d * n
  <2>1. Gap(x) = a * n - b * n
    BY <1>14 DEF Gap
  <2>2. a * n - b * n = d * n /\ d * n \in Int
    BY <1>15
  <2>3. QED
    BY <2>1, <2>2
<1>17. PICK unit \in Int : unit = Unit(x) /\ unit = n * n
  BY <1>14 DEF Unit
<1>18. d * d <= n * q
  BY <1>12, <1>15
<1>19. /\ n * gap * gap * (scale \div (unit * unit)) \in Int
       /\ n * gap * gap * (scale \div (unit * unit)) <= scale * q
  BY <1>16, <1>17, <1>18, ErrorBounded
<1>20. ErrorOf(x, scale) = n * gap * gap * (scale \div (unit * unit))
  BY <1>14, <1>16, <1>17 DEF ErrorOf
<1>21. QED
  BY <1>1, <1>12, <1>13, <1>19, <1>20

(* The buckets listed in n turns explain no more than the squared errors   *)
(* of the pairs they hold.                                                 *)
LEMMA ErrorsWithin ==
  ASSUME Forecasts, NEW scale \in Nat
  PROVE  Total(Errors(CalibrationBuckets, scale))
           <= scale * SumFunctionOnSet(Squares, Before(NumBuckets))
<1>1. PICK listed :
        /\ CalibrationBuckets = listed[NumBuckets]
        /\ \A n \in 0..NumBuckets :
             /\ ListOf(n, listed[n])
             /\ listed[n] = IF n = 0 THEN <<>>
                            ELSE IF PairsIn(n - 1) = {} THEN listed[n - 1]
                            ELSE Append(listed[n - 1], BucketOf(n - 1))
  BY LoopTurns
<1> DEFINE Sum(n) == SumFunctionOnSet(Squares, Before(n))
           P == { n \in 0..NumBuckets : Total(Errors(listed[n], scale)) <= scale * Sum(n) }
<1>2. NumBuckets \in Nat \ {0} /\ Len(pairs) \in Nat
  BY BacktestAssumption DEF Forecasts
<1>3. \A s \in SUBSET (1..Len(pairs)) :
        Summable(Squares, s) /\ SumFunctionOnSet(Squares, s) \in Int
  <2>1. ASSUME NEW s \in SUBSET (1..Len(pairs))
        PROVE  Summable(Squares, s) /\ SumFunctionOnSet(Squares, s) \in Int
    <3>1. IsFiniteSet(s)
      BY SquaresTyped, FS_Subset
    <3>2. \A x \in s : Squares[x] \in Int
      BY SquaresTyped
    <3>3. Summable(Squares, s)
      BY <3>1, <3>2 DEF Summable
    <3>4. QED
      BY <3>3, SumTyped
  <2>2. QED
    BY <2>1
<1>4. \A n : Before(n) \subseteq 1..Len(pairs)
  BY DEF Before
<1>5. ASSUME NEW n \in 0..NumBuckets, NEW k \in 1..Len(listed[n])
      PROVE  ErrorOf(listed[n][k], scale) \in Int
  <2>1. PICK i : i = listed[n][k].place
    OBVIOUS
  <2>2. i \in 0..(n - 1) /\ PairsIn(i) # {} /\ listed[n][k] = BucketOf(i)
    BY <1>1, <2>1 DEF ListOf
  <2>3. i \in 0..(NumBuckets - 1)
    BY <1>2, <2>2
  <2>4. QED
    BY <2>2, <2>3, BucketErrs
<1>6. 0 \in P
  <2>1. listed[0] = <<>>
    BY <1>1, <1>2
  <2>2. Errors(<<>>, scale) = <<>>
    BY DEF Errors
  <2>3. Total(Errors(<<>>, scale)) = 0
    BY <2>2, SumOfEmptyList DEF Total
  <2>4. Before(0) = {}
    BY DEF Before
  <2>5. Sum(0) = 0
    BY <2>4, SumOfNothing
  <2> HIDE DEF Sum
  <2>6. scale * Sum(0) = 0 /\ 0 \in 0..NumBuckets
    BY <1>2, <2>5
  <2>7. QED
    BY <2>1, <2>3, <2>6
<1>7. ASSUME NEW n \in P, n < NumBuckets PROVE n + 1 \in P
  <2>1. n \in 0..(NumBuckets - 1) /\ n \in 0..NumBuckets /\ n + 1 \in 0..NumBuckets
        /\ n + 1 # 0 /\ n + 1 - 1 = n
    BY <1>2, <1>7
  <2>2. listed[n + 1] = IF PairsIn(n) = {} THEN listed[n] ELSE Append(listed[n], BucketOf(n))
    BY <1>1, <2>1
  <2>3. Total(Errors(listed[n], scale)) <= scale * Sum(n)
    BY <1>7
  <2>4. PairsIn(n) \subseteq 1..Len(pairs)
    BY <2>1, BucketHolds
  <2>5. PICK a \in Int, b \in Int : a = Sum(n) /\ b = SumFunctionOnSet(Squares, PairsIn(n))
    BY <1>3, <1>4, <2>4
  <2>6. Sum(n + 1) = a + b
    <3>1. Before(n + 1) = Before(n) \union PairsIn(n) /\ Before(n) \intersect PairsIn(n) = {}
      BY <2>1, BeforeGrows
    <3>2. Summable(Squares, Before(n) \union PairsIn(n))
      BY <1>3, <1>4, <2>4
    <3>3. SumFunctionOnSet(Squares, Before(n) \union PairsIn(n))
            = SumFunctionOnSet(Squares, Before(n)) + SumFunctionOnSet(Squares, PairsIn(n))
      BY <3>1, <3>2, SumOfUnion
    <3>4. Sum(n + 1) = Sum(n) + SumFunctionOnSet(Squares, PairsIn(n))
      BY <3>1, <3>3, Zenon
    <3>5. QED
      BY <2>5, <3>4
  <2> HIDE DEF Sum
  <2>7. CASE PairsIn(n) = {}
    <3>1. b = 0
      BY <2>5, <2>7, SumOfNothing
    <3>2. Sum(n + 1) = Sum(n)
      BY <2>5, <2>6, <3>1
    <3>3. QED
      BY <2>1, <2>2, <2>3, <2>7, <3>2
  <2>8. CASE PairsIn(n) # {}
    <3>1. PICK list : list = listed[n]
      OBVIOUS
    <3>2. PICK l : l = listed[n + 1]
      OBVIOUS
    <3>3. PICK bucket : bucket = BucketOf(n)
      OBVIOUS
    <3>4. PICK m : m = Len(list)
      OBVIOUS
    <3>5. bucket \in Bucket /\ list \in Seq(Bucket) /\ m \in Nat /\ DOMAIN list = 1..m
      BY <1>1, <2>1, <2>8, <3>1, <3>3, <3>4, BucketHolds DEF ListOf
    <3>6. l = Append(list, bucket)
      BY <2>2, <2>8, <3>1, <3>2, <3>3
    <3>7. l \in Seq(Bucket) /\ Len(l) = m + 1 /\ DOMAIN l = 1..(m + 1)
          /\ l[m + 1] = bucket /\ \A k \in 1..m : l[k] = list[k]
      BY <3>4, <3>5, <3>6
    <3>8. PICK c : c = Errors(list, scale)
      OBVIOUS
    <3>9. PICK d : d = Errors(l, scale)
      OBVIOUS
    <3>10. c = [ k \in 1..m |-> ErrorOf(list[k], scale) ]
           /\ d = [ k \in 1..(m + 1) |-> ErrorOf(l[k], scale) ]
      BY <3>5, <3>7, <3>8, <3>9 DEF Errors
    <3>11. /\ \A k \in 1..m : ErrorOf(list[k], scale) \in Int
           /\ \A k \in 1..(m + 1) : ErrorOf(l[k], scale) \in Int
      BY <1>5, <2>1, <3>1, <3>2, <3>4, <3>7
    <3>12. c \in [1..m -> Int] /\ d \in [1..(m + 1) -> Int]
      BY <3>10, <3>11
    <3>13. m + 1 \in 1..(m + 1) /\ \A k \in 1..m : k \in 1..(m + 1)
      BY <3>5
    <3>14. d[m + 1] = ErrorOf(bucket, scale) /\ \A k \in 1..m : d[k] = c[k]
      BY <3>7, <3>10, <3>13
    <3>15. SumFunction(d) = SumFunction(c) + d[m + 1]
      BY <3>5, <3>12, <3>14, SumOfLonger
    <3>16. PICK x \in Int, y \in Int : x = SumFunction(c) /\ y = ErrorOf(bucket, scale)
      <4>1. IsFiniteSet(1..m)
        BY <3>5, FS_Interval
      <4>2. SumFunction(c) \in Int
        BY <3>12, <4>1, SumFunctionTyped
      <4>3. ErrorOf(bucket, scale) \in Int
        BY <2>1, <2>8, <3>3, BucketErrs
      <4>4. QED
        BY <4>2, <4>3
    <3>17. x <= scale * a
      BY <2>3, <2>5, <3>1, <3>8, <3>16 DEF Total
    <3>18. y <= scale * b
      BY <2>1, <2>5, <2>8, <3>3, <3>16, BucketErrs
    <3>19. scale * (a + b) = scale * a + scale * b /\ scale * a \in Int /\ scale * b \in Int
      OBVIOUS
    <3>20. x + y <= scale * (a + b)
      BY <3>17, <3>18, <3>19
    <3>21. Total(Errors(listed[n + 1], scale)) = x + y
      BY <3>2, <3>9, <3>14, <3>15, <3>16 DEF Total
    <3>22. QED
      BY <2>1, <2>6, <3>20, <3>21
  <2>9. QED
    BY <2>7, <2>8
<1>8. P = 0..NumBuckets
  <2>1. P \in SUBSET (0..NumBuckets)
    OBVIOUS
  <2> HIDE DEF P
  <2>2. QED
    BY <1>2, <1>6, <1>7, <2>1, BoundedInduction
<1>9. NumBuckets \in P
  BY <1>2, <1>8
<1>10. QED
  BY <1>1, <1>9

(* The product of the units of a list of buckets: a fold, which the        *)
(* invariant uses to clear its denominators.                               *)
Multiplies(g, list) ==
  g = [ s \in SUBSET DOMAIN list |->
          IF s = {} THEN 1
          ELSE LET i == CHOOSE x \in s : TRUE
               IN Unit(list[i]) * g[s \ {i}] ]

(* The product of the unit counts of a set of bins of a list exists. *)
LEMMA ProductExists ==
  ASSUME NEW list \in Seq(Bucket)
  PROVE  \E g \in [SUBSET DOMAIN list -> Int] : Multiplies(g, list)
<1>1. PICK S : S = DOMAIN list
  OBVIOUS
<1>2. IsFiniteSet(S) /\ \A i \in S : list[i] \in Bucket
  <2>1. S = 1..Len(list) /\ Len(list) \in Nat
    BY <1>1
  <2>2. IsFiniteSet(1..Len(list))
    BY <2>1, FS_Interval
  <2>3. QED
    BY <2>1, <2>2
<1>3. \A i \in S : Unit(list[i]) \in Int
  <2>1. \A x, y \in Nat : x * y \in Int
    OBVIOUS
  <2>2. \A b \in Bucket : b.forecast.den \in Nat /\ b.observed.den \in Nat
    BY DEF Bucket, Fraction
  <2>3. QED
    BY <1>2, <2>1, <2>2 DEF Unit
<1>4. PICK step : step = [ p \in S \X Int |-> Unit(list[p[1]]) * p[2] ]
  OBVIOUS
<1>5. step \in [S \X Int -> Int]
      /\ \A x \in S, y \in Int : step[<<x, y>>] = Unit(list[x]) * y
  <2>1. \A x, y \in Int : x * y \in Int
    OBVIOUS
  <2>2. \A p \in S \X Int : Unit(list[p[1]]) * p[2] \in Int
    BY <1>3, <2>1
  <2>3. QED
    BY <1>4, <2>2
<1>6. 1 \in Int
  OBVIOUS
<1>7. PICK g \in [SUBSET S -> Int] : FoldOf(g, 1, step, S)
  BY <1>2, <1>5, <1>6, FoldExists
<1>8. ASSUME NEW s \in SUBSET S
      PROVE  g[s] = IF s = {} THEN 1
                    ELSE LET i == CHOOSE x \in s : TRUE
                         IN Unit(list[i]) * g[s \ {i}]
  <2>1. s # {} => Some(s) \in S /\ g[s \ {Some(s)}] \in Int
    BY SomeIsIn
  <2>2. g[s] = IF s = {} THEN 1 ELSE Unit(list[Some(s)]) * g[s \ {Some(s)}]
    BY <1>5, <1>7, <2>1 DEF FoldOf
  <2>3. QED
    BY <2>2 DEF Some
<1>9. Multiplies(g, list)
  BY <1>1, <1>8 DEF Multiplies
<1>10. QED
  BY <1>1, <1>9

(* Any solution of that equation is a number at each of its sets.          *)
LEMMA ProductTyped ==
  ASSUME NEW list \in Seq(Bucket), NEW g, Multiplies(g, list)
  PROVE  g[DOMAIN list] \in Int
<1>1. PICK S : S = DOMAIN list
  OBVIOUS
<1>2. IsFiniteSet(S) /\ \A i \in S : list[i] \in Bucket
  <2>1. S = 1..Len(list) /\ Len(list) \in Nat
    BY <1>1
  <2>2. IsFiniteSet(1..Len(list))
    BY <2>1, FS_Interval
  <2>3. QED
    BY <2>1, <2>2
<1>3. PICK h \in [SUBSET S -> Int] : Multiplies(h, list)
  BY <1>1, ProductExists
<1> DEFINE P == { n \in Nat : \A s \in SUBSET S : Cardinality(s) = n => g[s] = h[s] }
<1>4. \A s \in SUBSET S : IsFiniteSet(s) /\ Cardinality(s) \in Nat
  BY <1>2, FS_Subset, FS_CardinalityType
<1>5. \A s \in SUBSET S :
        /\ g[s] = IF s = {} THEN 1 ELSE Unit(list[Some(s)]) * g[s \ {Some(s)}]
        /\ h[s] = IF s = {} THEN 1 ELSE Unit(list[Some(s)]) * h[s \ {Some(s)}]
  BY <1>1, <1>3 DEF Multiplies, Some
<1>6. 0 \in P
  BY <1>4, <1>5, FS_EmptySet
<1>7. ASSUME NEW n \in P PROVE n + 1 \in P
  <2>1. SUFFICES ASSUME NEW s \in SUBSET S, Cardinality(s) = n + 1
                 PROVE  g[s] = h[s]
    OBVIOUS
  <2>2. s # {}
    <3>1. n + 1 # 0
      BY <1>7
    <3>2. Cardinality(s) # 0 /\ IsFiniteSet(s)
      BY <1>4, <2>1, <3>1
    <3>3. QED
      BY <3>2, FS_EmptySet
  <2>3. Some(s) \in s
    BY <2>2, SomeIsIn
  <2>4. PICK r \in SUBSET S : r = s \ {Some(s)} /\ Cardinality(r) = n
    <3>1. s \ {Some(s)} \in SUBSET S /\ Cardinality(s \ {Some(s)}) = Cardinality(s) - 1
      BY <1>2, <2>3, TakeSome
    <3>2. QED
      BY <2>1, <3>1
  <2>5. g[r] = h[r]
    BY <2>4
  <2>6. g[s] = Unit(list[Some(s)]) * g[r] /\ h[s] = Unit(list[Some(s)]) * h[r]
    BY <1>5, <2>1, <2>2, <2>4
  <2>7. QED
    BY <2>5, <2>6
<1>8. P = Nat
  <2>1. P \in SUBSET Nat
    OBVIOUS
  <2> HIDE DEF P
  <2>2. QED
    BY <1>6, <1>7, <2>1, NaturalInduction
<1>9. g[S] = h[S] /\ h[S] \in Int
  BY <1>3, <1>4, <1>8
<1>10. QED
  BY <1>1, <1>9

(* The metrics of a replay and its Brier score agree: what the calibration *)
(* buckets explain is never more than the score.                           *)
THEOREM CalibrationsWithinBrier == Spec => []CalibrationWithinBrier
<1>1. ASSUME Forecasts, Summarised, metrics # NoMetric, metrics.brier_score # NoMetric
      PROVE  CalibrationWithinBrier
  <2> DEFINE buckets == metrics.calibration_buckets
             all == (CHOOSE g : Multiplies(g, buckets))[DOMAIN buckets]
             scale == all * all
  <2>0. pairs # <<>>
    <3>1. metrics.brier_score = Mean(Each(SquaredError), Certainty * Certainty)
      BY <1>1 DEF Summarised, ComputedMetrics
    <3>2. ASSUME pairs = <<>> PROVE Each(SquaredError) = <<>>
      BY <3>2 DEF Each
    <3>3. QED
      BY <1>1, <3>1, <3>2 DEF Mean
  <2>1. buckets = CalibrationBuckets
    BY <1>1, <2>0 DEF Summarised, ComputedMetrics
  <2>2. ListOf(NumBuckets, buckets)
    BY <1>1, <2>1, LoopLists
  <2>3. buckets \in Seq(Bucket) /\ Len(pairs) \in Nat /\ DOMAIN pairs = 1..Len(pairs)
    BY <1>1, <2>2 DEF Forecasts, ListOf
  <2>4. all \in Int
    <3> HIDE DEF buckets
    <3>1. PICK h : h = CHOOSE g : Multiplies(g, buckets)
      OBVIOUS
    <3>2. Multiplies(h, buckets)
      BY <2>3, <3>1, ProductExists
    <3>3. h[DOMAIN buckets] \in Int
      BY <2>3, <3>2, ProductTyped
    <3>4. QED
      BY <3>1, <3>3
  <2>5. scale \in Nat
    <3>1. \A x \in Int : x * x \in Nat
      OBVIOUS
    <3> HIDE DEF all
    <3>2. QED
      BY <2>4, <3>1
  <2>6. metrics.brier_score.num = SumFunctionOnSet(Squares, Before(NumBuckets))
    <3>1. metrics.brier_score.num = Total(Each(SquaredError))
      BY <1>1 DEF Summarised, ComputedMetrics, Mean
    <3>2. Each(SquaredError) = Squares
      BY <2>3 DEF Each, Squares
    <3>3. Before(NumBuckets) = 1..Len(pairs) /\ DOMAIN Squares = 1..Len(pairs)
      BY <1>1, InOneBucket DEF Before, Squares
    <3>4. QED
      BY <3>1, <3>2, <3>3 DEF Total, SumFunction
  <2>7. Total(Errors(buckets, scale)) <= scale * metrics.brier_score.num
    <3> HIDE DEF buckets, scale
    <3>1. QED
      BY <1>1, <2>1, <2>5, <2>6, ErrorsWithin
  <2>8. QED
    BY <2>7
       DEF CalibrationWithinBrier, Errors, ErrorOf, Gap, Unit, Multiplies,
           FoldSeq, FoldFunction, FoldFunctionOnSet, MapThenFoldSet
<1>2. AccountInv /\ Summarised => CalibrationWithinBrier
  <2>1. metrics = NoMetric \/ metrics.brier_score = NoMetric => CalibrationWithinBrier
    BY DEF CalibrationWithinBrier
  <2>2. QED
    BY <1>1, <2>1 DEF AccountInv
<1>3. QED
  BY <1>2, AccountInit, StepAccount, Inductive, RunsAreSummarised, PTL DEF Spec

----------------------------------------------------------------------------
(* Types.  The replay goes through no more than MaxSnapshots.              *)
Bounded ==
  /\ \E n \in 0..MaxSnapshots : History(snapshots, n)
  /\ next \in 1..(MaxSnapshots + 1)
  /\ pc \in {"idle", "unknown"} => replay = <<>>

(* A replay is as long as its history.                                     *)
LEMMA ReplayBounded ==
  ASSUME Replays, Bounded
  PROVE  /\ \E n \in 0..MaxSnapshots : Len(replay) <= n /\ Len(replay) \in Nat
         /\ snapshots \in Seq(Snapshot) /\ replay \in Seq(Snapshot)
<1>1. PICK n \in 0..MaxSnapshots : History(snapshots, n)
  BY DEF Bounded
<1>2. n \in Nat /\ snapshots \in Seq(Snapshot)
  BY <1>1 DEF History
<1>3. CASE pc \in {"idle", "unknown"}
  <2>1. replay = <<>>
    BY <1>3 DEF Bounded
  <2>2. replay \in Seq(Snapshot) /\ Len(replay) = 0
    BY <2>1
  <2>3. QED
    BY <1>2, <2>2
<1>4. CASE pc \notin {"idle", "unknown"}
  <2>1. replay = Chronological(snapshots)
    BY <1>4 DEF Replays, PC
  <2>2. History(replay, n)
    BY <1>1, <2>1, SortOrders
  <2>3. replay \in Seq(Snapshot) /\ Len(replay) = n
    BY <2>2 DEF History
  <2>4. QED
    BY <1>2, <2>3
<1>5. QED
  BY <1>3, <1>4

(* Every step keeps the bound.                                             *)
LEMMA StepBounded == RInv /\ Bounded /\ [Next]_vars => Bounded'
<1> SUFFICES ASSUME RInv, Bounded, [Next]_vars PROVE Bounded'
  OBVIOUS
<1>1. ASSUME pc = "replay", next <= Len(replay), Turn PROVE Bounded'
  <2>1. PICK n \in 0..MaxSnapshots : Len(replay) <= n /\ Len(replay) \in Nat
    BY ReplayBounded DEF RInv
  <2>2. next \in Nat \ {0} /\ MaxSnapshots \in Nat
    BY BacktestAssumption DEF RInv, Replays
  <2>3. next + 1 \in 1..(MaxSnapshots + 1)
    BY <1>1, <2>1, <2>2
  <2>4. QED
    BY <1>1, <2>3 DEF Bounded, Turn, History
<1>2. ASSUME UNCHANGED <<snapshots, next>>, pc' \notin {"idle", "unknown"} PROVE Bounded'
  BY <1>2 DEF Bounded, History
<1>3. ASSUME UNCHANGED <<snapshots, next, replay>>,
             pc \in {"idle", "unknown"} \/ pc' \notin {"idle", "unknown"}
      PROVE  Bounded'
  BY <1>3 DEF Bounded, History
<1>4. ASSUME NEW quantity \in Quantities, BuyFills(quantity) \/ SellFills(quantity)
      PROVE  Bounded'
  BY <1>1, <1>4 DEF BuyFills, SellFills, AtQuote
<1>5. ASSUME NEW side \in OrderSide, NEW quantity \in Quantities, OrderRejected(side, quantity)
      PROVE  Bounded'
  BY <1>1, <1>5 DEF OrderRejected, AtQuote
<1>6. CASE SkipOneSided \/ StrategyHolds
  BY <1>1, <1>6 DEF SkipOneSided, StrategyHolds, AtQuote
<1>7. CASE StrategyRaises \/ SaveRun \/ Load
  BY <1>2, <1>7 DEF StrategyRaises, SaveRun, Load, AtQuote
<1>8. CASE UnknownMarket
  BY <1>3, <1>8 DEF UnknownMarket
<1>9. CASE UNCHANGED vars
  BY <1>9 DEF Bounded, History, vars
<1>10. QED
  BY <1>4, <1>5, <1>6, <1>7, <1>8, <1>9 DEF Next

(* A mean is a fraction, or None.                                          *)
LEMMA MeanTyped ==
  ASSUME NEW s \in Seq(Int), NEW unit \in Nat \ {0}
  PROVE  Mean(s, unit) \in Fraction \union {NoMetric}
<1>1. CASE s = <<>>
  BY <1>1 DEF Mean
<1>2. CASE s # <<>>
  <2>1. Total(s) \in Int
    BY TotalTyped
  <2>2. Len(s) \in Nat \ {0}
    BY <1>2
  <2>3. unit * Len(s) \in Nat \ {0}
    BY <2>2
  <2>4. QED
    BY <1>2, <2>1, <2>3 DEF Mean, Fraction
<1>3. QED
  BY <1>1, <1>2

(* The metrics of a replay are metrics.                                    *)
LEMMA ComputedTyped ==
  ASSUME AccountInv
  PROVE  ComputedMetrics \in Metrics /\ RunOf \in StrategyRun
<1>1. /\ trips \in Seq(Int) /\ realized \in Int /\ drawdown \in Nat /\ trades \in Nat
      /\ flow.bought + flow.sold \in Int
  BY DEF AccountInv, EquityInv, Amounts, Flows
<1>2. pairs \in Seq(RoundTrip) /\ DOMAIN pairs = 1..Len(pairs) /\ Len(pairs) \in Nat
  BY DEF AccountInv, Forecasts
<1>3. Certainty \in Nat \ {0} /\ Certainty * Certainty \in Nat \ {0}
  BY BacktestAssumption
<1>4. HitRate \in Fraction \union {NoMetric}
  <2>1. CASE trips = <<>>
    BY <2>1 DEF HitRate
  <2>2. CASE trips # <<>>
    <3>1. Len(trips) \in Nat \ {0} /\ DOMAIN trips = 1..Len(trips)
      BY <1>1, <2>2
    <3>2. IsFiniteSet(1..Len(trips))
      BY <3>1, FS_Interval
    <3>3. Hits(trips) \subseteq 1..Len(trips)
      BY <3>1 DEF Hits
    <3>4. Cardinality(Hits(trips)) \in Nat
      BY <3>2, <3>3, FS_Subset, FS_CardinalityType
    <3>5. QED
      BY <2>2, <3>1, <3>4 DEF HitRate, Fraction
  <2>3. QED
    BY <2>1, <2>2
<1>5. \A trip \in RoundTrip :
        trip.held \in Int /\ trip.forecast \in Int /\ Outcome(trip) \in Int
        /\ SquaredError(trip) \in Int
  <2>1. ASSUME NEW trip \in RoundTrip
        PROVE  trip.held \in Int /\ trip.forecast \in Int /\ Outcome(trip) \in Int
               /\ SquaredError(trip) \in Int
    <3>1. trip.held \in Int /\ trip.forecast \in Int /\ Outcome(trip) \in Int
      BY <1>3 DEF RoundTrip, Outcome
    <3>2. QED
      BY <3>1 DEF SquaredError
  <2>2. QED
    BY <2>1
<1>6. \A i \in 1..Len(pairs) : pairs[i].held \in Int /\ SquaredError(pairs[i]) \in Int
  BY <1>2, <1>5
<1>7. [ i \in 1..Len(pairs) |-> pairs[i].held ] \in Seq(Int)
      /\ [ i \in 1..Len(pairs) |-> SquaredError(pairs[i]) ] \in Seq(Int)
  BY <1>2, <1>6
<1>8. /\ Mean(trips, 1) \in Fraction \union {NoMetric}
      /\ Mean([ i \in 1..Len(pairs) |-> pairs[i].held ], 1) \in Fraction \union {NoMetric}
      /\ Mean([ i \in 1..Len(pairs) |-> SquaredError(pairs[i]) ], Certainty * Certainty)
           \in Fraction \union {NoMetric}
  <2>1. 1 \in Nat \ {0}
    OBVIOUS
  <2>2. \A s \in Seq(Int), unit \in Nat \ {0} : Mean(s, unit) \in Fraction \union {NoMetric}
    BY MeanTyped
  <2>3. PICK h, e : /\ h = [ i \in 1..Len(pairs) |-> pairs[i].held ]
                    /\ e = [ i \in 1..Len(pairs) |-> SquaredError(pairs[i]) ]
    OBVIOUS
  <2>4. trips \in Seq(Int) /\ h \in Seq(Int) /\ e \in Seq(Int)
    BY <1>1, <1>7, <2>3
  <2>5. PICK unit \in Nat \ {0} : unit = Certainty * Certainty
    BY <1>3
  <2>6. /\ Mean(trips, 1) \in Fraction \union {NoMetric}
        /\ Mean(h, 1) \in Fraction \union {NoMetric}
        /\ Mean(e, unit) \in Fraction \union {NoMetric}
    BY <2>1, <2>2, <2>4
  <2>7. QED
    BY <2>3, <2>5, <2>6
<1>9. CalibrationBuckets \in Seq(Bucket)
  BY LoopLists DEF AccountInv, ListOf
<1>10. ComputedMetrics =
         [ total_return |-> realized, hit_rate |-> HitRate, max_drawdown |-> drawdown,
           avg_edge_captured |-> Mean(trips, 1),
           avg_holding_time |-> Mean([ i \in 1..Len(pairs) |-> pairs[i].held ], 1),
           turnover |-> flow.bought + flow.sold,
           brier_score |-> Mean([ i \in 1..Len(pairs) |-> SquaredError(pairs[i]) ],
                                Certainty * Certainty),
           calibration_buckets |-> IF pairs = <<>> THEN NoMetric ELSE CalibrationBuckets ]
  BY <1>2 DEF ComputedMetrics, Each
<1>11. ComputedMetrics \in Metrics
  BY <1>1, <1>4, <1>8, <1>9, <1>10 DEF Metrics
<1>12. RunOf \in StrategyRun
  BY <1>1, <1>4 DEF RunOf, StrategyRun
<1>13. QED
  BY <1>11, <1>12

(* Every variable has its type: overselling never leaves a short position, *)
(* whatever is ordered, unless less than nothing is.                       *)
THEOREM TypeCorrect == Spec => []TypeOK
<1>1. Init => Bounded
  <2>1. ASSUME Init PROVE Bounded
    <3>1. PICK n \in 0..MaxSnapshots : snapshots \in [1..n -> Snapshot]
      BY <2>1 DEF Init
    <3>2. History(snapshots, n)
      BY <3>1, BacktestAssumption DEF History
    <3>3. next = 1 /\ replay = <<>> /\ 1 \in 1..(MaxSnapshots + 1)
      BY <2>1, BacktestAssumption DEF Init
    <3>4. QED
      BY <3>2, <3>3 DEF Bounded
  <2>2. QED
    BY <2>1
<1>2. RInv /\ AccountInv /\ Bounded /\ Summarised => TypeOK
  <2> SUFFICES ASSUME RInv, AccountInv, Bounded, Summarised PROVE TypeOK
    OBVIOUS
  <2>1. snapshots \in Seq(Snapshot) /\ replay \in Seq(Snapshot)
    BY ReplayBounded DEF RInv
  <2>2. pc \in PC /\ next \in 1..(MaxSnapshots + 1)
    BY DEF RInv, Replays, Bounded
  <2>3. /\ qty \in Holding /\ avg \in Int /\ trades \in Nat /\ flow \in Flows
    BY DEF AccountInv, Amounts, Holding
  <2>4. realized \in Int /\ peak \in Nat /\ drawdown \in Nat /\ trips \in Seq(Int)
    BY DEF AccountInv, EquityInv
  <2>5. pairs \in Seq(RoundTrip) /\ entry \in Entry \union {NoEntry}
    BY DEF AccountInv, Forecasts
  <2>6. metrics \in Metrics \union {NoMetric} /\ recorded \in StrategyRun \union {NoRun}
    BY ComputedTyped DEF Summarised
  <2>7. QED
    BY <2>1, <2>2, <2>3, <2>4, <2>5, <2>6 DEF TypeOK, Flows
<1>3. QED
  BY <1>1, <1>2, StepBounded, AccountInit, StepAccount, Inductive, RunsAreSummarised, PTL DEF Spec

============================================================================
