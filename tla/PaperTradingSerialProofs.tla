---------------------- MODULE PaperTradingSerialProofs ----------------------
(***************************************************************************)
(* Machine-checked proofs about a server that runs one order at a time:    *)
(* the exposure its broker decides on is the one at that moment, so that   *)
(* the limit of the risk policy holds, and the server implements the       *)
(* ledger of PaperLedger.  For any portfolios, finitely many markets, any  *)
(* quotes and quantities, negative ones too, and every bound on requests.  *)
(***************************************************************************)
EXTENDS PaperTradingProofs

(* What a dict of positions holds of a key, and in all of a portfolio; and *)
(* the part of it that an iteration has seen before entry n of the list.   *)
HeldIn(book, k) == IF book[k] = NoPosition THEN 0 ELSE book[k].netQuantity

ExposureIn(book, p) == SumFunction([m \in Markets |-> HeldIn(book, <<p, m>>)])

SeenIn(book, list, n, p) ==
  [ m \in Markets |-> IF \E i \in 1..(n - 1) : list[i] = <<p, m>>
                      THEN HeldIn(book, <<p, m>>) ELSE 0 ]

(* The dict lists each key that has a position, once. *)
Listed ==
  /\ \A k \in Key : positions[k] # NoPosition <=> \E i \in 1..Len(entries) : entries[i] = k
  /\ \A i, j \in 1..Len(entries) : entries[i] = entries[j] => i = j

Accepted(w) == RiskAccepts(RequestOf(w).quantity, ExposureIn(positions, RequestOf(w).portfolio))

(* The scan has added up what it saw, and every decision still holds.      *)
ScanAddsUp(w) ==
  pc[w] = "scan" =>
    /\ frame[w].scan.next <= Len(entries) + 1
    /\ frame[w].scan.exposure
         = SumFunction(SeenIn(positions, entries, frame[w].scan.next, RequestOf(w).portfolio))

DecisionHolds(w) ==
  /\ pc[w] \in {"fill", "read", "save"} => Accepted(w)
  /\ pc[w] \in {"reject", "respond"} => ~ Accepted(w)

WithinLimit == \A p \in Portfolios : ExposureIn(positions, p) <= MaxPortfolioExposure

Decided(w) == Listed /\ ScanAddsUp(w) /\ DecisionHolds(w) /\ WithinLimit

LedgerIInv(w) == SerialIInv(w) /\ SumIInv /\ Decided(w)

----------------------------------------------------------------------------
(* Holdings and exposures are integers.                                    *)
LEMMA ExposureTyped ==
  ASSUME IsFiniteSet(Markets), NEW book \in [Key -> Position \union {NoPosition}],
         NEW p \in Portfolios
  PROVE  /\ \A k \in Key : HeldIn(book, k) \in Int
         /\ [m \in Markets |-> HeldIn(book, <<p, m>>)] \in [Markets -> Int]
         /\ ExposureIn(book, p) \in Int
<1>1. \A k \in Key : HeldIn(book, k) \in Int
  BY DEF HeldIn, Position
<1>2. [m \in Markets |-> HeldIn(book, <<p, m>>)] \in [Markets -> Int]
  BY <1>1 DEF Key
<1>3. ExposureIn(book, p) \in Int
  BY <1>2, SumFunctionTyped DEF ExposureIn
<1> QED BY <1>1, <1>2, <1>3

(* A position saved moves the exposure of its portfolio by what it moves   *)
(* the holding, and no other.                                              *)
LEMMA ExposureMoves ==
  ASSUME IsFiniteSet(Markets), NEW book \in [Key -> Position \union {NoPosition}],
         NEW p \in Portfolios, NEW m \in Markets, NEW position \in Position,
         NEW q \in Int, position.netQuantity = HeldIn(book, <<p, m>>) + q,
         NEW after \in [Key -> Position \union {NoPosition}],
         \A k \in Key : after[k] = IF k = <<p, m>> THEN position ELSE book[k]
  PROVE  /\ \A k \in Key : HeldIn(after, k) = HeldIn(book, k) + IF k = <<p, m>> THEN q ELSE 0
         /\ ExposureIn(after, p) = ExposureIn(book, p) + q
         /\ \A r \in Portfolios \ {p} : ExposureIn(after, r) = ExposureIn(book, r)
<1> DEFINE holding(b, r) == [x \in Markets |-> HeldIn(b, <<r, x>>)]
<1>0. <<p, m>> \in Key /\ \A r \in Portfolios, x \in Markets : <<r, x>> \in Key
  BY DEF Key
<1>2. ASSUME NEW k \in Key
      PROVE  HeldIn(after, k) = HeldIn(book, k) + IF k = <<p, m>> THEN q ELSE 0
  <2>1. HeldIn(book, k) \in Int /\ position # NoPosition
    BY ExposureTyped, TradingAssumption
  <2>2. CASE k = <<p, m>>
    <3>1. after[k] = position
      BY <1>0, <2>2
    <3>2. HeldIn(after, k) = position.netQuantity
      BY <2>1, <3>1 DEF HeldIn
    <3> QED BY <2>2, <3>2
  <2>3. CASE k # <<p, m>>
    <3>1. after[k] = book[k]
      BY <2>3
    <3> QED BY <2>1, <2>3, <3>1 DEF HeldIn
  <2> QED BY <2>2, <2>3
<1>3. \A r \in Portfolios : holding(book, r) \in [Markets -> Int] /\ holding(after, r) \in [Markets -> Int]
  BY ExposureTyped
<1>4. ExposureIn(after, p) = ExposureIn(book, p) + q
  <2> DEFINE e == holding(book, p)
             f == holding(after, p)
  <2>1. /\ e \in [Markets -> Int] /\ f \in [Markets -> Int]
        /\ \A x \in Markets \ {m} : f[x] = e[x]
        /\ f[m] = e[m] + q
    <3>1. \A x \in Markets : HeldIn(book, <<p, x>>) \in Int
      BY <1>0, ExposureTyped
    <3>2. \A x \in Markets \ {m} : <<p, x>> # <<p, m>>
      OBVIOUS
    <3> QED BY <1>0, <1>2, <1>3, <3>1, <3>2
  <2>2. SumFunction(e) = ExposureIn(book, p) /\ SumFunction(f) = ExposureIn(after, p)
    BY DEF ExposureIn
  <2> HIDE DEF e, f
  <2>3. SumFunction(f) = SumFunction(e) - e[m] + f[m] /\ SumFunction(e) \in Int
    BY <2>1, SumFunctionChanges, SumFunctionTyped
  <2>4. e[m] \in Int
    BY <2>1
  <2> QED BY <2>1, <2>2, <2>3, <2>4
<1>5. ASSUME NEW r \in Portfolios \ {p} PROVE ExposureIn(after, r) = ExposureIn(book, r)
  <2>1. \A x \in Markets : HeldIn(after, <<r, x>>) = HeldIn(book, <<r, x>>)
    <3>1. \A x \in Markets : <<r, x>> \in Key /\ <<r, x>> # <<p, m>> /\ HeldIn(book, <<r, x>>) \in Int
      BY <1>0, ExposureTyped
    <3> QED BY <1>2, <3>1
  <2>2. holding(after, r) = holding(book, r)
    BY <2>1
  <2> QED BY <2>2, Zenon DEF ExposureIn
<1> QED BY <1>2, <1>4, <1>5

(* An iteration that begins has seen nothing; one entry further it has     *)
(* seen that entry; past the last it has seen all the portfolio holds.     *)
LEMMA SeenGrows ==
  ASSUME IsFiniteSet(Markets), NEW book \in [Key -> Position \union {NoPosition}],
         NEW p \in Portfolios, NEW list \in Seq(Key),
         \A k \in Key : book[k] # NoPosition <=> \E i \in 1..Len(list) : list[i] = k,
         \A i, j \in 1..Len(list) : list[i] = list[j] => i = j
  PROVE  /\ SumFunction(SeenIn(book, list, 1, p)) = 0
         /\ \A n \in 1..Len(list) :
              SumFunction(SeenIn(book, list, n + 1, p))
                = SumFunction(SeenIn(book, list, n, p))
                  + IF list[n][1] = p THEN book[list[n]].netQuantity ELSE 0
         /\ SumFunction(SeenIn(book, list, Len(list) + 1, p)) = ExposureIn(book, p)
<1>0. \A m \in Markets : <<p, m>> \in Key /\ HeldIn(book, <<p, m>>) \in Int
  BY ExposureTyped DEF Key
<1>1. \A n : SeenIn(book, list, n, p) \in [Markets -> Int]
  BY <1>0 DEF SeenIn
<1>2. SumFunction(SeenIn(book, list, 1, p)) = 0
  <2>1. \A m \in Markets : SeenIn(book, list, 1, p)[m] = 0
    BY DEF SeenIn
  <2> QED BY <1>1, <2>1, SumFunctionOfZeros
<1>3. ASSUME NEW n \in 1..Len(list)
      PROVE  SumFunction(SeenIn(book, list, n + 1, p))
               = SumFunction(SeenIn(book, list, n, p))
                 + IF list[n][1] = p THEN book[list[n]].netQuantity ELSE 0
  <2> DEFINE e == SeenIn(book, list, n, p)
             f == SeenIn(book, list, n + 1, p)
  <2>0. n \in Nat /\ n <= Len(list) /\ Len(list) \in Nat /\ list[n] \in Key
    OBVIOUS
  <2>1. PICK r \in Portfolios, m \in Markets : list[n] = <<r, m>>
    BY <2>0 DEF Key
  <2>2. ASSUME NEW x \in Markets, <<p, x>> # <<r, m>> PROVE f[x] = e[x]
    <3>0. (n + 1) - 1 = n
      BY <2>0
    <3>1. (\E i \in 1..n : list[i] = <<p, x>>)
            <=> (\E i \in 1..(n - 1) : list[i] = <<p, x>>)
      <4>1. \A i \in 1..n : i = n \/ i \in 1..(n - 1)
        BY <2>0
      <4>2. \A i \in 1..(n - 1) : i \in 1..n
        BY <2>0
      <4>3. list[n] # <<p, x>>
        BY <2>1, <2>2
      <4> QED BY <4>1, <4>2, <4>3, Zenon
    <3> DEFINE held == HeldIn(book, <<p, x>>)
    <3>2. f[x] = IF \E i \in 1..((n + 1) - 1) : list[i] = <<p, x>> THEN held ELSE 0
      BY Zenon DEF SeenIn
    <3>3. e[x] = IF \E i \in 1..(n - 1) : list[i] = <<p, x>> THEN held ELSE 0
      BY Zenon DEF SeenIn
    <3> HIDE DEF held, e, f
    <3> QED BY <3>0, <3>1, <3>2, <3>3
  <2>3. e \in [Markets -> Int] /\ f \in [Markets -> Int] /\ SumFunction(e) \in Int
    BY <1>1, SumFunctionTyped
  <2>4. CASE r # p
    <3>1. \A x \in Markets : f[x] = e[x]
      BY <2>2, <2>4
    <3> HIDE DEF e, f
    <3>2. f = e
      BY <2>3, <3>1
    <3>3. SumFunction(f) = SumFunction(e)
      BY <3>2
    <3>4. list[n][1] # p
      BY <2>1, <2>4
    <3> QED BY <2>3, <3>3, <3>4 DEF e, f
  <2>5. CASE r = p
    <3>1. e[m] = 0
      <4>1. ASSUME NEW i \in 1..(n - 1), list[i] = <<p, m>> PROVE FALSE
        <5>1. i \in 1..Len(list) /\ i # n
          BY <2>0
        <5>2. list[i] = list[n]
          BY <2>1, <2>5, <4>1
        <5> QED BY <5>1, <5>2
      <4> QED BY <4>1 DEF SeenIn
    <3>2. f[m] = book[list[n]].netQuantity
      <4>1. \E i \in 1..((n + 1) - 1) : list[i] = <<p, m>>
        BY <2>0, <2>1, <2>5
      <4>2. book[<<p, m>>] # NoPosition
        BY <2>0, <2>1, <2>5
      <4> QED BY <2>1, <2>5, <4>1, <4>2 DEF SeenIn, HeldIn
    <3>3. \A x \in Markets \ {m} : f[x] = e[x]
      <4>1. \A x \in Markets \ {m} : <<p, x>> # <<r, m>>
        OBVIOUS
      <4> QED BY <2>2, <4>1
    <3> HIDE DEF e, f
    <3>4. SumFunction(f) = SumFunction(e) - e[m] + f[m]
      <4>1. m \in Markets /\ IsFiniteSet(Markets)
        BY <2>1
      <4>2. e \in [Markets -> Int]
        BY <2>3
      <4>3. f \in [Markets -> Int]
        BY <2>3
      <4>4. \A x \in Markets \ {m} : f[x] = e[x]
        BY <3>3
      <4> QED BY <4>1, <4>2, <4>3, <4>4, SumFunctionChanges
    <3>7. f[m] \in Int
      BY <2>1, <2>3
    <3>5. list[n][1] = p
      BY <2>1, <2>5
    <3>6. SumFunction(f) = SumFunction(e) + book[list[n]].netQuantity
      BY <2>3, <3>1, <3>2, <3>4, <3>7
    <3> QED BY <3>5, <3>6 DEF e, f
  <2> QED BY <2>4, <2>5
<1>4. SumFunction(SeenIn(book, list, Len(list) + 1, p)) = ExposureIn(book, p)
  <2>1. ASSUME NEW m \in Markets
        PROVE  SeenIn(book, list, Len(list) + 1, p)[m] = HeldIn(book, <<p, m>>)
    <3>1. CASE book[<<p, m>>] = NoPosition
      BY <3>1 DEF SeenIn, HeldIn
    <3>2. CASE book[<<p, m>>] # NoPosition
      <4>1. PICK i \in 1..Len(list) : list[i] = <<p, m>>
        BY <1>0, <3>2
      <4>2. i \in 1..(Len(list) + 1 - 1)
        OBVIOUS
      <4> QED BY <4>1, <4>2 DEF SeenIn
    <3> QED BY <3>1, <3>2
  <2>2. SeenIn(book, list, Len(list) + 1, p) = [m \in Markets |-> HeldIn(book, <<p, m>>)]
    BY <1>1, <2>1 DEF SeenIn
  <2> QED BY <2>2, Zenon DEF ExposureIn
<1> QED BY <1>2, <1>3, <1>4

----------------------------------------------------------------------------
(* What the single worker saves is what its market held, and the quantity  *)
(* of the request more.                                                    *)
LEMMA SavedQuantity ==
  ASSUME NEW w \in Workers, SerialIInv(w), FillIsOrdered, SavePosition(w)
  PROVE  /\ RequestOf(w) \in Request /\ frame[w].id \in 1..Len(requests)
         /\ outcome[frame[w].id] = "none" /\ outcome \in [OrderId -> Answer \union {"none"}]
         /\ PositionToSave(w) \in Position
         /\ PositionToSave(w).netQuantity
              = HeldIn(positions, KeyOf(w)) + RequestOf(w).quantity
<1>1. TypeOK /\ Control /\ pc[w] = "save"
  BY DEF SerialIInv, IInv, SavePosition, Goto
<1>2. /\ frame[w] \in Frame /\ RequestOf(w) \in Request /\ KeyOf(w) \in Key
      /\ frame[w].id \in OrderId /\ frame[w].id \in 1..Len(requests)
      /\ outcome[frame[w].id] = "none"
  BY <1>1, RunningTyped DEF Control
<1>3. /\ frame[w].fill \in Fill /\ RequestOf(w).side \in OrderSide
      /\ frame[w].held \in Position \union {NoPosition}
  BY <1>1, <1>2 DEF Control, LocalsRead, Frame, Request
<1>4. PositionToSave(w) \in Position
  BY <1>2, <1>3, PositionTyped DEF PositionToSave
<1>5. /\ frame[w].fill.quantity = RequestOf(w).quantity
      /\ RequestOf(w).quantity \in Int
      /\ frame[w].held = positions[KeyOf(w)]
  BY <1>1, <1>2, TradingAssumption DEF FillIsOrdered, SerialIInv, Request
<1>6. PositionToSave(w).netQuantity
        = HeldIn(positions, KeyOf(w)) + RequestOf(w).quantity
  BY <1>3, <1>5 DEF PositionToSave, NewPosition, UpdatedPosition, HeldIn
<1> QED BY <1>1, <1>2, <1>4, <1>6 DEF TypeOK

(* Saving it moves the holding and the exposure by that quantity, and the  *)
(* dict still lists each key that has a position once.                     *)
LEMMA SavingMoves ==
  ASSUME IsFiniteSet(Markets), NEW w \in Workers, SerialIInv(w), FillIsOrdered,
         Listed, SavePosition(w)
  PROVE  /\ \A k \in Key : HeldIn(positions', k)
              = HeldIn(positions, k) + IF k = KeyOf(w) THEN RequestOf(w).quantity ELSE 0
         /\ \A p \in Portfolios : ExposureIn(positions', p) = ExposureIn(positions, p)
              + IF p = RequestOf(w).portfolio THEN RequestOf(w).quantity ELSE 0
         /\ Listed'
<1>1. PICK key, saved, q :
        /\ key = KeyOf(w) /\ saved = PositionToSave(w) /\ q = RequestOf(w).quantity
  OBVIOUS
<1>2. PICK p, m : p = RequestOf(w).portfolio /\ m = RequestOf(w).market
  OBVIOUS
<1>3. /\ p \in Portfolios /\ m \in Markets /\ q \in Int /\ saved \in Position
      /\ key = <<p, m>> /\ key \in Key
      /\ saved.netQuantity = HeldIn(positions, <<p, m>>) + q
  BY <1>1, <1>2, SavedQuantity, TradingAssumption DEF KeyOf, Key, Request
<1>4. /\ positions \in [Key -> Position \union {NoPosition}]
      /\ positions' = [positions EXCEPT ![<<p, m>>] = saved]
      /\ entries \in Seq(Key)
      /\ entries' = IF positions[key] = NoPosition THEN Append(entries, key) ELSE entries
  BY <1>1, <1>3 DEF SavePosition, SerialIInv, IInv, TypeOK
<1>5. /\ \A k \in Key : HeldIn(positions', k)
           = HeldIn(positions, k) + IF k = <<p, m>> THEN q ELSE 0
      /\ ExposureIn(positions', p) = ExposureIn(positions, p) + q
      /\ \A r \in Portfolios \ {p} : ExposureIn(positions', r) = ExposureIn(positions, r)
  <2>1. /\ positions' \in [Key -> Position \union {NoPosition}]
        /\ \A k \in Key : positions'[k] = IF k = <<p, m>> THEN saved ELSE positions[k]
    BY <1>3, <1>4
  <2>2. positions \in [Key -> Position \union {NoPosition}]
    BY <1>4
  <2> QED BY <1>3, <2>1, <2>2, ExposureMoves
<1>6. \A r \in Portfolios : ExposureIn(positions, r) \in Int
  BY <1>4, ExposureTyped
<1>7. Listed'
  <2>1. \A k \in Key : positions'[k] # NoPosition <=> positions[k] # NoPosition \/ k = key
    BY <1>3, <1>4, TradingAssumption
  <2>2. CASE positions[key] # NoPosition
    BY <1>4, <2>1, <2>2 DEF Listed
  <2>3. CASE positions[key] = NoPosition
    <3> DEFINE n == Len(entries)
    <3>1. /\ n \in Nat /\ Len(entries') = n + 1 /\ entries'[n + 1] = key
          /\ \A i \in 1..n : entries'[i] = entries[i]
      BY <1>3, <1>4, <2>3
    <3>2. \A i \in 1..n : entries[i] # key
      BY <1>3, <2>3 DEF Listed
    <3>3. ASSUME NEW k \in Key
          PROVE  (\E i \in 1..(n + 1) : entries'[i] = k)
                   <=> (\E i \in 1..n : entries[i] = k) \/ k = key
      <4>1. \A i : i \in 1..(n + 1) <=> i \in 1..n \/ i = n + 1
        BY <3>1
      <4> QED BY <3>1, <4>1
    <3>4. \A i, j \in 1..(n + 1) : entries'[i] = entries'[j] => i = j
      <4>1. \A i \in 1..(n + 1) : i \in 1..n \/ i = n + 1
        BY <3>1
      <4>2. \A i, j \in 1..n : entries[i] = entries[j] => i = j
        BY DEF Listed
      <4> QED BY <3>1, <3>2, <4>1, <4>2
    <3>5. \A k \in Key : positions[k] # NoPosition <=> \E i \in 1..n : entries[i] = k
      BY DEF Listed
    <3> HIDE DEF n
    <3> QED BY <2>1, <3>1, <3>3, <3>4, <3>5 DEF Listed
  <2> QED BY <2>2, <2>3
<1> QED BY <1>1, <1>2, <1>3, <1>5, <1>6, <1>7

(* Every step of the single worker keeps its scan and its decision.        *)
LEMMA ExecuteDecided ==
  ASSUME IsFiniteSet(Markets), NEW w \in Workers, LedgerIInv(w), IInv', Execute(w)
  PROVE  Decided(w)'
<1> DEFINE p == RequestOf(w).portfolio
<1>0. /\ SerialIInv(w) /\ TypeOK /\ Control /\ FillIsOrdered /\ Listed /\ ScanAddsUp(w)
      /\ DecisionHolds(w) /\ WithinLimit
  BY DEF LedgerIInv, SumIInv, Decided, SerialIInv, IInv
<1>1. /\ pc[w] # "idle" /\ requests' = requests
      /\ frame[w] \in Frame /\ RequestOf(w) \in Request /\ p \in Portfolios
  BY <1>0, OthersUntouched, RunningTyped DEF Control, Request
<1>2. pc'[w] # "idle" => RequestOf(w)' = RequestOf(w)
  BY <1>0, <1>1, FrameStep DEF Control, RequestOf
<1>3. /\ positions \in [Key -> Position \union {NoPosition}] /\ entries \in Seq(Key)
      /\ \A r \in Portfolios : ExposureIn(positions, r) \in Int
  BY <1>0, ExposureTyped DEF TypeOK
<1>4. /\ SumFunction(SeenIn(positions, entries, 1, p)) = 0
      /\ \A n \in 1..Len(entries) :
              SumFunction(SeenIn(positions, entries, n + 1, p))
                = SumFunction(SeenIn(positions, entries, n, p))
                  + IF entries[n][1] = p THEN positions[entries[n]].netQuantity ELSE 0
      /\ SumFunction(SeenIn(positions, entries, Len(entries) + 1, p)) = ExposureIn(positions, p)
  BY <1>0, <1>1, <1>3, SeenGrows DEF Listed
<1>5. CASE SavePosition(w)
  <2>1. pc[w] = "save" /\ pc'[w] = "idle"
    BY <1>0, <1>5 DEF SavePosition, Goto, TypeOK
  <2>2. Accepted(w) /\ RequestOf(w).quantity \in Int
    BY <1>0, <1>1, <2>1, TradingAssumption DEF DecisionHolds, Request
  <2>3. \A r \in Portfolios : ExposureIn(positions', r) <= MaxPortfolioExposure
    BY <1>0, <1>1, <1>3, <1>5, <2>2, SavingMoves, BrokerAssumption
      DEF WithinLimit, Accepted, RiskAccepts
  <2>4. Listed'
    BY <1>0, <1>5, SavingMoves
  <2> QED BY <2>1, <2>3, <2>4 DEF Decided, ScanAddsUp, DecisionHolds, WithinLimit
<1>6. CASE ~ SavePosition(w)
  <2>1. positions' = positions /\ entries' = entries
    BY <1>6 DEF Execute, store, NoSnapshot, GetLatest, BeginScan, ScanEntry,
         ScanInterrupted, BrokerRejects, BrokerFills, SaveRejected, SaveFilled,
         RespondRejected, ReadPosition, StoreFails
  <2>2. Listed' /\ WithinLimit'
    BY <1>0, <2>1 DEF Listed, WithinLimit
  <2>3. ASSUME pc'[w] # "idle" PROVE Accepted(w)' <=> Accepted(w)
    BY <1>2, <2>1, <2>3 DEF Accepted
  (* At its end the scan has added up the exposure of the portfolio. *)
  <2>4. ASSUME pc[w] = "scan", ScanEnds(w)
        PROVE  Accepted(w) <=> RiskAccepts(RequestOf(w).quantity, frame[w].scan.exposure)
    <3>1. frame[w].scan.next = Len(entries) + 1
      BY <1>0, <1>1, <1>3, <2>4 DEF ScanEnds, ScanAddsUp, Frame, Scan
    <3>2. frame[w].scan.exposure = SumFunction(SeenIn(positions, entries, frame[w].scan.next, p))
      BY <1>0, <2>4 DEF ScanAddsUp
    <3>3. frame[w].scan.exposure = ExposureIn(positions, p)
      BY <1>4, <3>1, <3>2
    <3> QED BY <3>3 DEF Accepted
  <2>5. DecisionHolds(w)'
    <3>1. CASE BrokerRejects(w)
      <4>1. pc[w] = "scan" /\ pc'[w] = "reject"
        BY <1>0, <3>1 DEF BrokerRejects, Goto, TypeOK
      <4>2. ~ Accepted(w)
        BY <2>4, <3>1, <4>1 DEF BrokerRejects
      <4> QED BY <2>3, <4>1, <4>2 DEF DecisionHolds
    <3>2. CASE BrokerFills(w)
      <4>1. pc[w] = "scan" /\ pc'[w] = "fill"
        BY <1>0, <3>2 DEF BrokerFills, Goto, TypeOK
      <4>2. Accepted(w)
        BY <2>4, <3>2, <4>1 DEF BrokerFills
      <4> QED BY <2>3, <4>1, <4>2 DEF DecisionHolds
    <3>3. CASE ~ BrokerRejects(w) /\ ~ BrokerFills(w)
      <4>1. /\ pc'[w] \in {"fill", "read", "save"} => pc[w] \in {"fill", "read", "save"}
            /\ pc'[w] \in {"reject", "respond"} => pc[w] \in {"reject", "respond"}
        BY <1>0, <3>3 DEF Execute, Goto, TypeOK, NoSnapshot, GetLatest, BeginScan,
             ScanEntry, ScanInterrupted, SaveRejected, RespondRejected, SaveFilled,
             ReadPosition, SavePosition, StoreFails
      <4> QED BY <1>0, <2>3, <4>1 DEF DecisionHolds
    <3> QED BY <3>1, <3>2, <3>3
  <2>6. ScanAddsUp(w)'
    <3>1. CASE BeginScan(w)
      <4>1. frame'[w].scan = ScanStart /\ pc'[w] = "scan"
        BY <1>0, <1>1, <3>1 DEF BeginScan, Goto, Frame, TypeOK
      <4>2. /\ frame'[w].scan.next = 1 /\ frame'[w].scan.exposure = 0
            /\ RequestOf(w)' = RequestOf(w)
        BY <1>2, <4>1 DEF ScanStart
      <4>3. 1 <= Len(entries) + 1
        BY <1>3
      <4> QED BY <1>4, <2>1, <4>2, <4>3 DEF ScanAddsUp
    <3>2. CASE ScanEntry(w)
      <4> DEFINE n == frame[w].scan.next
      <4>1. /\ frame'[w].scan = ScanAdvance(frame[w].scan, EntryExposure(w))
            /\ pc[w] = "scan" /\ pc'[w] = "scan"
            /\ n \in 1..Len(entries)
        BY <1>0, <1>1, <1>3, <3>2 DEF ScanEntry, Goto, Frame, Scan, TypeOK, Control, LocalsRead
      <4>2. /\ frame'[w].scan.next = n + 1
            /\ frame'[w].scan.exposure = frame[w].scan.exposure + EntryExposure(w)
            /\ RequestOf(w)' = RequestOf(w)
        BY <1>2, <4>1 DEF ScanAdvance
      <4>3. frame[w].scan.exposure = SumFunction(SeenIn(positions, entries, n, p))
        BY <1>0, <4>1 DEF ScanAddsUp
      <4>4. EntryExposure(w) = IF entries[n][1] = p THEN positions[entries[n]].netQuantity ELSE 0
        BY DEF EntryExposure, Exposure
      <4>5. frame'[w].scan.exposure = SumFunction(SeenIn(positions, entries, n + 1, p))
        BY <1>4, <4>1, <4>2, <4>3, <4>4
      <4>6. n + 1 <= Len(entries) + 1
        BY <1>3, <4>1
      <4> QED BY <2>1, <4>2, <4>5, <4>6 DEF ScanAddsUp
    <3>3. CASE ~ BeginScan(w) /\ ~ ScanEntry(w)
      <4>1. pc'[w] # "scan"
        BY <1>0, <3>3 DEF Execute, Goto, TypeOK, NoSnapshot, GetLatest,
             ScanInterrupted, BrokerRejects, BrokerFills, SaveRejected,
             RespondRejected, SaveFilled, ReadPosition, SavePosition, StoreFails
      <4> QED BY <4>1 DEF ScanAddsUp
    <3> QED BY <3>1, <3>2, <3>3
  <2> QED BY <2>2, <2>5, <2>6 DEF Decided
<1> QED BY <1>5, <1>6

(* So does every other step.                                               *)
LEMMA DecidedStep ==
  ASSUME IsFiniteSet(Markets), NEW w \in Workers, Workers = {w}, LedgerIInv(w),
         IInv', [Next]_vars
  PROVE  Decided(w)'
<1>0. TypeOK /\ Decided(w)
  BY DEF LedgerIInv, SerialIInv, IInv
<1>1. CASE Execute(w)
  BY <1>1, ExecuteDecided
<1>2. CASE \E request \in Request : Submit(w, request)
  <2>1. pc'[w] = "quote" /\ UNCHANGED <<positions, entries>>
    BY <1>0, <1>2 DEF Submit, Goto, store, TypeOK
  <2> QED BY <1>0, <2>1 DEF Decided, Listed, ScanAddsUp, DecisionHolds, WithinLimit
<1>3. CASE \/ \E m \in Markets, q \in Quotes \union {NoQuote} : QuoteArrives(m, q)
           \/ UNCHANGED vars
  <2>1. UNCHANGED <<positions, entries, pc, frame, requests>>
    BY <1>3 DEF QuoteArrives, vars, store
  <2> QED BY <1>0, <2>1 DEF Decided, Listed, ScanAddsUp, DecisionHolds, WithinLimit,
         Accepted, RequestOf
<1> QED BY <1>1, <1>2, <1>3 DEF Next

(* Nothing is held at the start, which is within the limit.                *)
LEMMA DecidedInit ==
  ASSUME IsFiniteSet(Markets), NEW w \in Workers, Init
  PROVE  Decided(w)
<1> USE DEF Init
<1>1. Listed
  BY DEF Listed
<1>2. ASSUME NEW p \in Portfolios PROVE ExposureIn(positions, p) = 0
  <2> DEFINE f == [m \in Markets |-> HeldIn(positions, <<p, m>>)]
  <2>1. \A m \in Markets : <<p, m>> \in Key
    BY DEF Key
  <2>2. f \in [Markets -> Int] /\ \A m \in Markets : f[m] = 0
    BY <2>1 DEF HeldIn
  <2>3. SumFunction(f) = 0
    <3> HIDE DEF f
    <3> QED BY <2>2, SumFunctionOfZeros
  <2> QED BY <2>3 DEF ExposureIn
<1>3. WithinLimit
  BY <1>2, BrokerAssumption DEF WithinLimit
<1> QED BY <1>1, <1>3 DEF Decided, ScanAddsUp, DecisionHolds

(* The invariant of the single worker is inductive, given the one of the   *)
(* sums.                                                                   *)
LEMMA LedgerInvariance ==
  ASSUME IsFiniteSet(Markets), NEW w \in Workers, Workers = {w}
  PROVE  Spec => []LedgerIInv(w)
<1>1. Init => SerialIInv(w) /\ Decided(w)
  BY SerialInit, DecidedInit
<1>2. ASSUME SumIInv, SerialIInv(w), Decided(w), [Next]_vars
      PROVE  SerialIInv(w)' /\ Decided(w)'
  <2>1. SerialIInv(w)' /\ IInv'
    BY <1>2, SerialStep DEF SerialIInv
  <2> QED BY <1>2, <2>1, DecidedStep DEF LedgerIInv
<1>3. SumIInv /\ SerialIInv(w) /\ Decided(w) => LedgerIInv(w)
  BY DEF LedgerIInv
<1> QED BY <1>1, <1>2, <1>3, SumInvariance, PTL DEF Spec

----------------------------------------------------------------------------
(* A server that runs one order at a time never lets a portfolio hold more *)
(* than the limit of its risk policy.                                      *)
THEOREM SerialWithinLimit ==
  ASSUME IsFiniteSet(Markets), NEW w \in Workers, Workers = {w}
  PROVE  Spec => []ExposureWithinLimit
<1>1. LedgerIInv(w) => ExposureWithinLimit
  BY DEF LedgerIInv, Decided, WithinLimit, ExposureWithinLimit, ExposureIn, HeldIn,
       PortfolioExposure, Held
<1> QED BY <1>1, LedgerInvariance, PTL

(* The ledger's sums are this module's.                                    *)
LEMMA LedgerSums == \A f : Ledger!SumFunction(f) = SumFunction(f)
BY Zenon DEF Ledger!SumFunction, SumFunction, Ledger!SumFunctionOnSet, SumFunctionOnSet,
     Ledger!FoldFunctionOnSet, FoldFunctionOnSet, Ledger!MapThenFoldSet, MapThenFoldSet

(* Every step of it is a step of the ledger, which decides an order and    *)
(* moves its holding at once, or none at all.                              *)
LEMMA LedgerStep ==
  ASSUME IsFiniteSet(Markets), NEW w \in Workers, Workers = {w}, ~ StoreMayFail,
         LedgerIInv(w), [Next]_vars
  PROVE  [Ledger!Next]_(Ledger!vars)
<1> DEFINE id == frame[w].id
           holding == [k \in Key |-> Held(k)]
<1>0. /\ SerialIInv(w) /\ TypeOK /\ Control /\ FillIsOrdered /\ Listed
      /\ DecisionHolds(w)
  BY DEF LedgerIInv, SumIInv, Decided, SerialIInv, IInv
<1>1. Key = Portfolios \X Markets
  BY DEF Key
<1>2. ASSUME NEW p \in Portfolios
      PROVE  Ledger!Exposure(p) = SumFunction([m \in Markets |-> holding[<<p, m>>]])
  BY LedgerSums DEF Ledger!Exposure
<1>3. ASSUME NEW p \in Portfolios PROVE Ledger!Exposure(p) = ExposureIn(positions, p)
  <2>1. \A m \in Markets : holding[<<p, m>>] = HeldIn(positions, <<p, m>>)
    BY <1>1 DEF Held, HeldIn
  <2>2. [m \in Markets |-> holding[<<p, m>>]] = [m \in Markets |-> HeldIn(positions, <<p, m>>)]
    BY <2>1
  <2> QED BY <1>2, <2>2, Zenon DEF ExposureIn
<1>4. ASSUME pc[w] # "idle"
      PROVE  /\ id \in 1..Len(requests) /\ outcome[id] = "none"
             /\ requests[id] = RequestOf(w) /\ RequestOf(w) \in Request
             /\ Ledger!Acceptable(requests[id]) <=> Accepted(w)
  <2>1. /\ id \in 1..Len(requests) /\ outcome[id] = "none"
        /\ requests[id] = RequestOf(w) /\ RequestOf(w) \in Request
    BY <1>0, <1>4, RunningTyped DEF Control, RequestOf
  <2>2. Ledger!Exposure(RequestOf(w).portfolio) = ExposureIn(positions, RequestOf(w).portfolio)
    BY <1>3, <2>1 DEF Request
  <2> QED BY <2>1, <2>2 DEF Ledger!Acceptable, Accepted, RiskAccepts
<1>5. ASSUME positions' = positions PROVE holding' = holding
  BY <1>5 DEF Held
<1>6. CASE Execute(w)
  <2>1. requests' = requests /\ pc[w] # "idle"
    BY <1>0, <1>6, OthersUntouched DEF Control
  <2>2. CASE NoSnapshot(w)
    <3>1. positions' = positions /\ outcome' = [outcome EXCEPT ![id] = "notfound"]
      BY <2>2 DEF NoSnapshot, Return, store
    <3>2. Ledger!NotFound(id)
      BY <1>4, <1>5, <2>1, <3>1 DEF Ledger!NotFound, Ledger!Answer
    <3> QED BY <1>4, <2>1, <3>2 DEF Ledger!Next
  <2>3. CASE RespondRejected(w)
    <3>1. /\ positions' = positions /\ outcome' = [outcome EXCEPT ![id] = "rejected"]
          /\ pc[w] = "respond"
      BY <2>3 DEF RespondRejected, Goto, Return, store
    <3>2. ~ Ledger!Acceptable(requests[id])
      BY <1>0, <1>4, <3>1 DEF DecisionHolds
    <3>3. Ledger!Reject(id)
      BY <1>4, <1>5, <2>1, <3>1, <3>2 DEF Ledger!Reject, Ledger!Answer
    <3> QED BY <1>4, <2>1, <3>3 DEF Ledger!Next
  <2>4. CASE SavePosition(w)
    <3>1. outcome' = [outcome EXCEPT ![id] = "filled"] /\ pc[w] = "save"
      BY <2>4 DEF SavePosition, Goto, Return
    <3>2. Ledger!Acceptable(requests[id])
      BY <1>0, <1>4, <3>1 DEF DecisionHolds
    <3>3. PICK key, q : key = KeyOf(w) /\ q = RequestOf(w).quantity
      OBVIOUS
    <3>4. /\ key = <<requests[id].portfolio, requests[id].market>> /\ key \in Key
          /\ q = requests[id].quantity /\ q \in Int
      BY <1>1, <1>4, <2>1, <3>3, TradingAssumption DEF KeyOf, Request
    <3>5. \A k \in Key : holding'[k] = holding[k] + IF k = key THEN q ELSE 0
      <4>1. \A k \in Key : HeldIn(positions', k)
              = HeldIn(positions, k) + IF k = KeyOf(w) THEN RequestOf(w).quantity ELSE 0
        BY <1>0, <2>4, SavingMoves
      <4> QED BY <3>3, <4>1 DEF Held, HeldIn
    <3>6. \A k \in Key : holding[k] \in Int
      BY <1>0, ExposureTyped DEF TypeOK, Held, Position
    <3>7. holding' = [holding EXCEPT ![key] = @ + q]
      <4>1. \A k \in Key : holding'[k] = IF k = key THEN holding[k] + q ELSE holding[k]
        BY <3>5, <3>6
      <4>2. holding' = [k \in Key |-> holding'[k]] /\ holding = [k \in Key |-> holding[k]]
        OBVIOUS
      <4> HIDE DEF holding
      <4> QED BY <3>4, <4>1, <4>2
    <3>8. Ledger!Fill(id)
      BY <1>4, <2>1, <3>1, <3>2, <3>4, <3>7 DEF Ledger!Fill, Ledger!Answer
    <3> QED BY <1>4, <2>1, <3>8 DEF Ledger!Next
  <2>5. CASE ~ (NoSnapshot(w) \/ RespondRejected(w) \/ SavePosition(w))
    <3>1. ~ ScanInterrupted(w) /\ ~ StoreFails(w)
      BY <1>0 DEF ScanInterrupted, StoreFails, SerialIInv, Goto
    <3>2. positions' = positions /\ outcome' = outcome
      BY <1>6, <2>5, <3>1 DEF Execute, store, GetLatest, BeginScan, ScanEntry,
           BrokerRejects, BrokerFills, SaveRejected, SaveFilled, ReadPosition
    <3> QED BY <1>5, <2>1, <3>2 DEF Ledger!vars
  <2> QED BY <2>2, <2>3, <2>4, <2>5
<1>7. CASE \E request \in Request : Submit(w, request)
  <2>1. PICK request \in Request : Submit(w, request)
    BY <1>7
  <2>2. request \in Ledger!Order
    BY DEF Ledger!Order, Request, OrderSide
  <2>3. Ledger!Ask(request)
    BY <1>5, <2>1 DEF Ledger!Ask, Submit, store
  <2> QED BY <2>2, <2>3 DEF Ledger!Next
<1>8. CASE \/ \E m \in Markets, q \in Quotes \union {NoQuote} : QuoteArrives(m, q)
           \/ UNCHANGED vars
  <2>1. UNCHANGED <<positions, requests, outcome>>
    BY <1>8 DEF QuoteArrives, vars, store
  <2> QED BY <1>5, <2>1 DEF Ledger!vars
<1> QED BY <1>6, <1>7, <1>8 DEF Next

(* A server that runs one order at a time, on repositories that do not     *)
(* raise, implements the ledger.                                           *)
THEOREM SerialRefinesLedger ==
  ASSUME IsFiniteSet(Markets), NEW w \in Workers, Workers = {w}, ~ StoreMayFail
  PROVE  Spec => RefinesLedger
<1>1. Init => Ledger!Init
  <2>1. ASSUME Init PROVE [k \in Key |-> Held(k)] = [k \in Portfolios \X Markets |-> 0]
    BY <2>1 DEF Init, Held, Key
  <2> QED BY <2>1 DEF Init, Ledger!Init, OrderId
<1>2. LedgerIInv(w) /\ [Next]_vars => [Ledger!Next]_(Ledger!vars)
  BY LedgerStep
<1> QED BY <1>1, <1>2, LedgerInvariance, PTL DEF Spec, RefinesLedger, Ledger!Spec

=============================================================================
