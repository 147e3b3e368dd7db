---------------------------- MODULE SignalEngine ----------------------------
(***************************************************************************)
(* The evaluators of domain/signal_engine.py: pure functions from a model  *)
(* probability and a market probability to an edge and a verdict.          *)
(*                                                                         *)
(* Probabilities, fees, thresholds and interval widths are integers in     *)
(* 1/One of certainty; an adjusted edge is in 1/One of that.  The          *)
(* tolerance of ThresholdSignal (0.01 bps) is below that unit.             *)
(***************************************************************************)
EXTENDS Integers

CONSTANTS
  One,            \* certainty
  FeeRate,        \* of EVSignal
  Threshold,      \* threshold_bps of ThresholdSignal, ConfidenceWeightedSignal
  Evaluator       \* the evaluator DetectSignal is given

Evaluators == {"gap", "ev", "threshold", "confidence"}

ASSUME EngineAssumption ==
  /\ One \in Nat \ {0}
  /\ FeeRate \in Nat
  /\ Threshold \in Int
  /\ Evaluator \in Evaluators

(* SignalResult, without its rationale and its type. *)
Result == [ edge : Int, adjusted : Int, actionable : BOOLEAN ]

----------------------------------------------------------------------------
Edge(model, market) == model - market

(* ConfidenceWeightedSignal: 1 - interval_width, and not below 0.          *)
Confidence(width) == IF width > One THEN 0 ELSE One - width

Adjusted(model, market, width) ==
  Edge(model, market) * (IF Evaluator = "confidence" THEN Confidence(width) ELSE One)

Actionable(model, market, width) ==
  CASE Evaluator = "gap" -> Edge(model, market) > 0
    [] Evaluator = "ev" -> model - (market + FeeRate) > 0
    [] Evaluator = "threshold" ->
         Edge(model, market) > 0 /\ Edge(model, market) >= Threshold
    [] Evaluator = "confidence" ->
         /\ Adjusted(model, market, width) > 0
         /\ Adjusted(model, market, width) >= Threshold * One

(* evaluate(model_prob, market_prob, interval_width = width) *)
Evaluate(model, market, width) ==
  [ edge       |-> Edge(model, market),
    adjusted   |-> Adjusted(model, market, width),
    actionable |-> Actionable(model, market, width) ]

============================================================================
