------------------------- MODULE ProbabilityModels --------------------------
(***************************************************************************)
(* The models of domain/probability_models.py: what each returns for       *)
(* arguments its constructor accepts.  The Wilson interval of the base     *)
(* rate, a square root, is left out.                                       *)
(***************************************************************************)
EXTENDS Fractions

(* ImpliedProbabilityModel: refused when the price is below 0 or above the *)
(* overround.                                                              *)
ImpliedAccepts(price, overround) == 0 <= price /\ price <= overround

ImpliedProbability(price, overround) ==
  IF overround = 0 THEN Zero ELSE Frac(price, overround)

(* BaseRateModel, with Laplace smoothing.                                  *)
BaseRateAccepts(successes, total) == 0 <= successes /\ successes <= total /\ total > 0

(* Mutant: the total is one too many. *)
BaseRate_OffByOne(successes, total, smoothing) ==
  Frac(successes + smoothing, total + 2 * smoothing + 1)

BaseRate(successes, total, smoothing) ==
  Frac(successes + smoothing, total + 2 * smoothing)

(* AnalystOverride: any probability, taken as it is.                       *)
AnalystAccepts(probability) == 0 <= probability.num /\ probability.num <= probability.den

(* Mutant: impossible evidence divides by zero. *)
Posterior_NoSkip(prior, h, n) ==
  Frac(h * prior.num, h * prior.num + n * (prior.den - prior.num))

(* Mutant: the alternative is weighed by the prior, not its complement. *)
Posterior_NoComplement(prior, h, n) ==
  LET evidence == h * prior.num + n * prior.num
  IN IF evidence = 0 THEN prior ELSE Frac(h * prior.num, evidence)

(* Mutant: what cannot be has probability 0. *)
Posterior_Impossible(prior, h, n) ==
  LET evidence == h * prior.num + n * (prior.den - prior.num)
  IN IF evidence = 0 THEN Zero ELSE Frac(h * prior.num, evidence)

(* Mutant: the likelier hypothesis is taken for certain. *)
Posterior_Likelier(prior, h, n) ==
  IF h * prior.num = n * (prior.den - prior.num) THEN prior
  ELSE IF h * prior.num > n * (prior.den - prior.num) THEN Frac(1, 1) ELSE Zero

(* BayesianUpdater.update: h and n are the likelihoods under the           *)
(* hypothesis and its negation, in any common unit, which cancels.         *)
(* Evidence impossible under the prior leaves it as it is.                 *)
Posterior(prior, h, n) ==
  LET evidence == h * prior.num + n * (prior.den - prior.num)
  IN IF evidence = 0 THEN prior ELSE Frac(h * prior.num, evidence)

============================================================================
