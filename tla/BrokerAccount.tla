--------------------------- MODULE BrokerAccount ---------------------------
(***************************************************************************)
(* A client of the broker of PaperBroker, which trades one market: it      *)
(* buys, sells what it holds, and pays the price and the fee of each fill, *)
(* while the quote of the market stands still.  The broker keeps neither   *)
(* cash nor holding; they are the client's.  It is the ground for "fees    *)
(* and slippage always make the fill price worse"                          *)
(* (docs/domain/paper_trading.md, invariant 2).                            *)
(***************************************************************************)
EXTENDS PaperBroker

CONSTANTS
  Quotes,       \* the quotes the market may stand at, none of them crossed
  Quantities,
  FeeScale,     \* the unit of fees: FeeRate / FeeScale is fee_rate
  Credit        \* bound: no buying with less cash than -Credit

ASSUME AccountAssumption ==
  /\ Quotes \subseteq { quote \in Quote : quote.bid <= quote.ask }
  /\ Quantities \subseteq Nat
  /\ FeeScale \in Nat \ {0}
  /\ Credit \in Nat

VARIABLES
  quote,      \* the market's quote
  holding,    \* units held
  cash        \* what was received less what was paid, in 1/FeeScale
              \* of the unit of fill prices

vars == <<quote, holding, cash>>

Init ==
  /\ quote \in Quotes
  /\ holding = 0
  /\ cash = 0

(* PaperBroker.execute is asked with the holding as the current exposure;  *)
(* nothing happens when the risk policy rejects the order.                 *)
Buy(quantity) ==
  LET fill == FillOf("BUY", quantity, quote) IN
  /\ cash >= -Credit
  /\ RiskAccepts(quantity, holding)
  /\ holding' = holding + fill.quantity
  /\ cash' = cash - fill.price * fill.quantity * FeeScale - fill.fee
  /\ UNCHANGED quote

(* The client sells no more than it holds.                                 *)
Sell(quantity) ==
  LET fill == FillOf("SELL", quantity, quote) IN
  /\ quantity <= holding
  /\ RiskAccepts(quantity, holding)
  /\ holding' = holding - fill.quantity
  /\ cash' = cash + fill.price * fill.quantity * FeeScale - fill.fee
  /\ UNCHANGED quote

Next == \E quantity \in Quantities : Buy(quantity) \/ Sell(quantity)

Spec == Init /\ [][Next]_vars

----------------------------------------------------------------------------
(* Nothing is held short.                                                  *)
TypeOK == quote \in Quotes /\ holding \in Nat /\ cash \in Int

(* The holding valued at the mid-price, plus the cash.                     *)
MidPrice == (quote.bid + quote.ask) * Scale
Equity == cash + holding * MidPrice * FeeScale

(* No trade against an unmoving, uncrossed quote makes money: slippage,    *)
(* spread and fee are each charged against the trader, on both sides.      *)
EquityNeverRises == [][Equity' <= Equity]_vars
============================================================================
