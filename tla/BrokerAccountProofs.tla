------------------------ MODULE BrokerAccountProofs ------------------------
(* Proofs about BrokerAccount, for every configuration of the broker.      *)
EXTENDS BrokerAccount, TLAPS

(* A product with a natural number keeps the order.                        *)
LEMMA ProductOrdered ==
  ASSUME NEW a \in Int, NEW b \in Int, NEW c \in Nat, a <= b
  PROVE  a * c \in Int /\ b * c \in Int /\ a * c <= b * c
  OBVIOUS

(* Both execution models and the slippage put the price of a fill on the   *)
(* trader's wrong side of the mid-price; the fee is never negative.        *)
LEMMA FillAdverse ==
  ASSUME NEW q \in Quote, q.bid <= q.ask, NEW quantity \in Nat
  PROVE  /\ FillPrice("BUY", q) \in Nat /\ FillPrice("SELL", q) \in Nat
         /\ (q.bid + q.ask) * Scale \in Nat
         /\ FillPrice("BUY", q) >= (q.bid + q.ask) * Scale
         /\ FillPrice("SELL", q) <= (q.bid + q.ask) * Scale
         /\ FeeOf(quantity, FillPrice("BUY", q)) \in Nat
         /\ FeeOf(quantity, FillPrice("SELL", q)) \in Nat
<1> DEFINE mid == q.bid + q.ask
           up == BasePrice("BUY", q)
           down == BasePrice("SELL", q)
<1>1. mid \in Nat /\ up \in Nat /\ down \in Nat /\ mid <= up /\ down <= mid
  BY DEF BasePrice, Quote
<1>2. Scale \in Nat /\ SlippageRate \in Nat /\ SlippageRate <= Scale /\ FeeRate \in Nat
  BY BrokerAssumption
<1> HIDE DEF mid, up, down
<1>3. /\ mid * Scale \in Nat /\ up * Scale \in Nat /\ down * Scale \in Nat
      /\ up * SlippageRate \in Nat /\ down * SlippageRate \in Nat
  BY <1>1, <1>2
<1>4. mid * Scale <= up * Scale /\ down * Scale <= mid * Scale
  BY <1>1, <1>2, ProductOrdered
<1>5. down * SlippageRate <= down * Scale
  BY <1>1, <1>2
<1>6. /\ FillPrice("BUY", q) = up * Scale + up * SlippageRate
      /\ FillPrice("SELL", q) = down * Scale - down * SlippageRate
  BY DEF FillPrice, ApplySlippage, SlippageAmount, up, down
<1>7. /\ FillPrice("BUY", q) \in Nat /\ FillPrice("SELL", q) \in Nat
      /\ FillPrice("BUY", q) >= mid * Scale /\ FillPrice("SELL", q) <= mid * Scale
  BY <1>3, <1>4, <1>5, <1>6
<1>8. ASSUME NEW price \in Nat PROVE FeeOf(quantity, price) \in Nat
  BY <1>2 DEF FeeOf
<1> QED BY <1>3, <1>7, <1>8 DEF mid

(* Every trade keeps the types.                                            *)
LEMMA StepTyped == TypeOK /\ [Next]_vars => TypeOK'
<1> SUFFICES ASSUME TypeOK, [Next]_vars PROVE TypeOK'
  OBVIOUS
<1> USE DEF TypeOK
<1>0. FeeScale \in Nat
  BY AccountAssumption
<1>1. ASSUME NEW quantity \in Quantities, Buy(quantity) PROVE TypeOK'
  <2>1. /\ quantity \in Nat /\ quote \in Quote
        /\ FillPrice("BUY", quote) \in Nat
        /\ FeeOf(quantity, FillPrice("BUY", quote)) \in Nat
    BY AccountAssumption, FillAdverse
  <2>2. FillPrice("BUY", quote) * quantity * FeeScale \in Nat
    BY <2>1, <1>0
  <2> QED BY <2>1, <2>2, <1>0, <1>1 DEF Buy, FillOf
<1>2. ASSUME NEW quantity \in Quantities, Sell(quantity) PROVE TypeOK'
  <2>1. /\ quantity \in Nat /\ quote \in Quote
        /\ FillPrice("SELL", quote) \in Nat
        /\ FeeOf(quantity, FillPrice("SELL", quote)) \in Nat
    BY AccountAssumption, FillAdverse
  <2>2. FillPrice("SELL", quote) * quantity * FeeScale \in Nat
    BY <2>1, <1>0
  <2> QED BY <2>1, <2>2, <1>0, <1>2 DEF Sell, FillOf
<1>3. CASE UNCHANGED vars
  BY <1>3 DEF vars
<1> QED BY <1>1, <1>2, <1>3 DEF Next

(* The algebra of one trade: d units change hands at a price, valued at    *)
(* the mid-price before and after.                                         *)
LEMMA TradeLoses ==
  ASSUME NEW held \in Nat, NEW money \in Int, NEW d \in Nat, NEW price \in Nat,
         NEW mid \in Nat, NEW fee \in Nat, NEW unit \in Nat
  PROVE  /\ price >= mid =>
              (money - price * d * unit - fee) + (held + d) * mid * unit
                <= money + held * mid * unit
         /\ price <= mid =>
              (money + price * d * unit - fee) + (held - d) * mid * unit
                <= money + held * mid * unit
<1> DEFINE pd == price * d * unit
           md == mid * d * unit
           hm == held * mid * unit
<1>1. pd \in Nat /\ md \in Nat /\ hm \in Nat
  OBVIOUS
<1>2. /\ (held + d) * mid * unit = hm + md
      /\ (held - d) * mid * unit = hm - md
  OBVIOUS
<1>3. ASSUME mid <= price PROVE md <= pd
  <2>1. mid * d <= price * d /\ mid * d \in Nat /\ price * d \in Nat
    BY <1>3, ProductOrdered
  <2> QED BY <2>1, ProductOrdered
<1>4. ASSUME price <= mid PROVE pd <= md
  <2>1. price * d <= mid * d /\ mid * d \in Nat /\ price * d \in Nat
    BY <1>4, ProductOrdered
  <2> QED BY <2>1, ProductOrdered
<1> HIDE DEF pd, md, hm
<1>5. ASSUME price >= mid PROVE (money - pd - fee) + (hm + md) <= money + hm
  BY <1>1, <1>3, <1>5
<1>6. ASSUME price <= mid PROVE (money + pd - fee) + (hm - md) <= money + hm
  BY <1>1, <1>4, <1>6
<1> QED BY <1>2, <1>5, <1>6 DEF pd, hm

(* No trade against an unmoving, uncrossed quote makes money.              *)
THEOREM NoFreeMoney == Spec => EquityNeverRises
<1>1. TypeOK /\ [Next]_vars => [Equity' <= Equity]_vars
  <2> SUFFICES ASSUME TypeOK, Next PROVE Equity' <= Equity
    BY DEF vars
  <2>1. PICK quantity \in Quantities : Buy(quantity) \/ Sell(quantity)
    BY DEF Next
  <2> DEFINE mid == (quote.bid + quote.ask) * Scale
  <2>2. quote \in Quote /\ quote.bid <= quote.ask /\ quantity \in Nat
    BY AccountAssumption DEF TypeOK
  <2>3. /\ FeeScale \in Nat /\ holding \in Nat /\ cash \in Int /\ mid \in Nat
        /\ FillPrice("BUY", quote) \in Nat /\ FillPrice("BUY", quote) >= mid
        /\ FillPrice("SELL", quote) \in Nat /\ FillPrice("SELL", quote) <= mid
        /\ FeeOf(quantity, FillPrice("BUY", quote)) \in Nat
        /\ FeeOf(quantity, FillPrice("SELL", quote)) \in Nat
    BY <2>2, FillAdverse, AccountAssumption DEF TypeOK
  <2>4. Equity = cash + holding * mid * FeeScale
    BY DEF Equity, MidPrice
  <2>5. quote' = quote
    BY <2>1 DEF Buy, Sell
  <2>6. Equity' = cash' + holding' * mid * FeeScale
    BY <2>5 DEF Equity, MidPrice
  <2>7. CASE Buy(quantity)
    <3>1. /\ holding' = holding + quantity
          /\ cash' = cash - FillPrice("BUY", quote) * quantity * FeeScale
                         - FeeOf(quantity, FillPrice("BUY", quote))
      BY <2>7 DEF Buy, FillOf
    <3> HIDE DEF mid
    <3> QED BY <3>1, <2>2, <2>3, <2>4, <2>6, TradeLoses
  <2>8. CASE Sell(quantity)
    <3>1. /\ holding' = holding - quantity
          /\ cash' = cash + FillPrice("SELL", quote) * quantity * FeeScale
                         - FeeOf(quantity, FillPrice("SELL", quote))
      BY <2>8 DEF Sell, FillOf
    <3> HIDE DEF mid
    <3> QED BY <3>1, <2>2, <2>3, <2>4, <2>6, TradeLoses
  <2> QED BY <2>1, <2>7, <2>8
<1>2. Init => TypeOK
  BY DEF Init, TypeOK
<1>3. Spec => []TypeOK
  BY <1>2, StepTyped, PTL DEF Spec
<1> QED BY <1>1, <1>3, PTL DEF Spec, EquityNeverRises

============================================================================
