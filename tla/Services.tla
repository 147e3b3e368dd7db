------------------------------ MODULE Services ------------------------------
(***************************************************************************)
(* The decision formulas of domain/services.py, and the PositionSizer of   *)
(* domain/paper_broker.py.                                                 *)
(*                                                                         *)
(* Prices, costs and payouts are integers in 1/One of the payout of a      *)
(* contract; probabilities, stakes and scores are fractions.               *)
(***************************************************************************)
EXTENDS Fractions, Sequences, Functions

CONSTANTS
  One,
  KellyFraction, MaxFraction   \* fraction and max_fraction of fractional_kelly

ASSUME ServicesAssumption ==
  /\ One \in Nat \ {0}
  /\ KellyFraction \in Fraction /\ 0 < KellyFraction.num /\ KellyFraction.num <= KellyFraction.den
  /\ MaxFraction \in Fraction /\ 0 < MaxFraction.num /\ MaxFraction.num <= MaxFraction.den

(* implied_probability: prices are 0..One, the only ones it accepts.       *)
MarketProbability(price, overround) == Frac(price, overround)

(* expected_value: p * (payout - cost) - (1 - p) * cost.                   *)
ExpectedValue(p, cost, payout) ==
  Frac(p.num * (payout - cost) - (p.den - p.num) * cost, p.den * One)

BreakEvenProbability(cost, payout) == Frac(cost, payout)

(* edge_bps, in basis points.                                              *)
EdgeBps(model, market) ==
  Frac(10000 * (model.num * market.den - market.num * model.den), model.den * market.den)

(* The net odds of a contract, payout / stake - 1; none at a price of 0 or *)
(* of the payout, where the code divides by zero.                          *)
NetOdds(price) == Frac(One - price, price)

(* Mutant: q is taken for p. *)
FullKelly_WinOnly(p, odds) ==
  Frac(p.num * odds.num - p.num * odds.den, p.den * odds.num)

(* f = (p * b - q) / b                                                     *)
FullKelly(p, odds) ==
  Frac(p.num * odds.num - (p.den - p.num) * odds.den, p.den * odds.num)

(* Mutant: the cap is a floor. *)
FractionalKelly_Floor(p, odds) ==
  LET full == FullKelly(p, odds)
      sized == Times(KellyFraction, full)
  IN IF full.num <= 0 THEN Zero ELSE IF Leq(sized, MaxFraction) THEN MaxFraction ELSE sized

(* Mutant: the fraction divides. *)
FractionalKelly_Divided(p, odds) ==
  LET full == FullKelly(p, odds)
  IN IF full.num <= 0 THEN Zero
     ELSE Frac(full.num * KellyFraction.den, full.den * KellyFraction.num)

(* fractional_kelly: nothing without an edge, and never over MaxFraction.  *)
FractionalKelly(p, odds) ==
  LET full == FullKelly(p, odds)
      sized == Times(KellyFraction, full)
  IN IF full.num <= 0 THEN Zero ELSE IF Leq(sized, MaxFraction) THEN sized ELSE MaxFraction

(* PositionSizer.compute for its three strategies: a price of 0 raises.    *)
PositionSize(strategy, param, bankroll, price) ==
  CASE strategy = "fixed" -> param
    [] strategy = "fixed_dollar" -> Frac(param.num * One, param.den * price)
    [] strategy = "kelly" -> Frac(param.num * bankroll.num * One, param.den * bankroll.den * price)

(* brier_score: the mean of (f - o)^2 over the forecasts and their outcomes. *)
BrierScore(forecasts, outcomes) ==
  LET outcome(i) == Frac(IF outcomes[i] THEN 1 ELSE 0, 1)
      error(i) == Minus(forecasts[i], outcome(i))
      sum == FoldFunction(LAMBDA squared, acc : Reduced(Plus(squared, acc)), Zero,
                          [i \in DOMAIN forecasts |-> Times(error(i), error(i))])
  IN Times(sum, Frac(1, Len(forecasts)))

============================================================================
