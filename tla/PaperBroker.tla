---------------------------- MODULE PaperBroker ----------------------------
(***************************************************************************)
(* The simulated broker of domain/paper_broker.py: a pure pipeline from an *)
(* order and a quote to a fill, or to a rejection by the risk policy.      *)
(*                                                                         *)
(* Amounts are exact integers.  A quote is in ticks; a base price is in    *)
(* half ticks, so that the mid-price of two ticks is whole; a fill price   *)
(* is in 1/Scale of a half tick, so that the slippage is whole; a fee is   *)
(* in 1/FeeScale of that.  What the floats of the code round is not        *)
(* modelled, what they overflow to (inf, NaN) is not either.               *)
(***************************************************************************)
EXTENDS Integers

CONSTANTS
  Scale,                 \* 10_000 basis points, or any common divisor of it
  SlippageRate,          \* slippage_bps, in 1/Scale
  FeeRate,               \* fee_rate, in 1/FeeScale (FeeScale only names a unit)
  MaxPositionSize,       \* RiskPolicy limits
  MaxPortfolioExposure,
  MidExecution           \* TRUE: MidPriceExecution, FALSE: BidAskExecution

ASSUME BrokerAssumption ==
  /\ Scale \in Nat \ {0}
  /\ SlippageRate \in 0..Scale
  /\ FeeRate \in Nat
  /\ MaxPositionSize \in Nat
  /\ MaxPortfolioExposure \in Nat
  /\ MidExecution \in BOOLEAN

OrderSide == {"BUY", "SELL"}

Quote == [bid : Nat, ask : Nat]

(* FillResult, without its explanation string. *)
Fill == [price : Int, quantity : Int, fee : Int, slippage : Int]

----------------------------------------------------------------------------
(* ExecutionModel.fill_price of the two execution models. *)
BasePrice(side, quote) ==
  IF MidExecution THEN quote.bid + quote.ask
  ELSE IF side = "BUY" THEN 2 * quote.ask ELSE 2 * quote.bid

(* SlippageModel.slippage_amount and SlippageModel.apply. *)
SlippageAmount(base) == base * SlippageRate

(* Mutant: the slippage favours the trader. *)
ApplySlippage_Favourable(base, side) ==
  IF side = "SELL" THEN base * Scale + SlippageAmount(base)
                   ELSE base * Scale - SlippageAmount(base)

ApplySlippage(base, side) ==
  IF side = "BUY" THEN base * Scale + SlippageAmount(base)
                  ELSE base * Scale - SlippageAmount(base)

(* FeeModel.compute. *)
FeeOf(quantity, price) == quantity * price * FeeRate

(* Mutant: the order itself is not added to the exposure. *)
RiskAccepts_ExposureOnly(quantity, exposure) ==
  /\ quantity <= MaxPositionSize
  /\ exposure <= MaxPortfolioExposure

(* RiskPolicy.validate: one order against the per-order limit, and what is *)
(* held plus the order against the portfolio limit.                        *)
RiskAccepts(quantity, exposure) ==
  /\ quantity <= MaxPositionSize
  /\ exposure + quantity <= MaxPortfolioExposure

(* The fill PaperBroker.execute builds for an order the policy accepts. *)
FillPrice(side, quote) == ApplySlippage(BasePrice(side, quote), side)

FillOf(side, quantity, quote) ==
  [ price    |-> FillPrice(side, quote),
    quantity |-> quantity,
    fee      |-> FeeOf(quantity, FillPrice(side, quote)),
    slippage |-> SlippageAmount(BasePrice(side, quote)) ]

============================================================================
