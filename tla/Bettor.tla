------------------------------- MODULE Bettor -------------------------------
(***************************************************************************)
(* The research loop that the models and the decision services are for     *)
(* ("model, decide, evaluate"): a client takes a prior from one of the     *)
(* models of domain/probability_models.py, feeds evidence to a             *)
(* BayesianUpdater, sizes a bet with domain/services.py and PositionSizer, *)
(* and sees the market resolve.  No use case of the repository runs this   *)
(* loop; the client calls the functions in any order they allow.           *)
(***************************************************************************)
EXTENDS ProbabilityModels, Services, FiniteSets

CONSTANTS
  Overrounds,      \* sums of the outcome prices a book may have
  Smoothings,      \* the Laplace smoothings of BaseRateModel
  Opinions,        \* fractions an analyst may register
  MaxLikelihood,   \* likelihoods are 0..MaxLikelihood, in 1/MaxLikelihood
  MaxEvidence,     \* bound: updates of one BayesianUpdater
  MaxMarkets,      \* bound: markets the client bets on
  NoUpdater, NoBet

Likelihood == 0..MaxLikelihood
Price == 1..One - 1           \* a price of 0 or One has no odds

(* BayesianUpdater; joint is a history field: the product of the           *)
(* likelihoods it was given, under the hypothesis and under its negation.  *)
Updater == [ prior : Fraction, current : Fraction, history : Seq(Fraction),
             joint : [h : Nat, n : Nat] ]

(* A bet: what the client believed, the Kelly fraction and the quantity.   *)
Bet == [ belief : Fraction, price : Price, fraction : Fraction, quantity : Fraction ]

ASSUME BettorAssumption ==
  /\ Overrounds \subseteq Nat
  /\ Smoothings \subseteq Nat
  /\ Opinions \subseteq Fraction
  /\ MaxLikelihood \in Nat \ {0} /\ MaxEvidence \in Nat /\ MaxMarkets \in Nat
  /\ NoUpdater \notin Updater
  /\ NoBet \notin Bet

VARIABLES
  updater,    \* the BayesianUpdater of the market under study
  bet,        \* the bet on it
  bankroll,   \* the client's bankroll, a fraction of what it began with
  outcomes    \* Seq(BOOLEAN): how the markets of the past resolved

vars == <<updater, bet, bankroll, outcomes>>

Init ==
  /\ updater = NoUpdater
  /\ bet = NoBet
  /\ bankroll = Frac(1, 1)
  /\ outcomes = <<>>

----------------------------------------------------------------------------
(* BayesianUpdater(prior), which refuses what is no probability.           *)
Open(prior) ==
  /\ updater = NoUpdater
  /\ Len(outcomes) < MaxMarkets
  /\ IsProbability(prior)
  /\ updater' = [ prior |-> prior, current |-> prior, history |-> <<prior>>,
                  joint |-> [h |-> 1, n |-> 1] ]
  /\ UNCHANGED <<bet, bankroll, outcomes>>

OpenAtPrice(price, overround) ==
  /\ ImpliedAccepts(price, overround)
  /\ Open(ImpliedProbability(price, overround))

(* The base rate of the markets of the past.                               *)
Wins == Cardinality({ i \in DOMAIN outcomes : outcomes[i] })

OpenAtBaseRate(smoothing) ==
  /\ BaseRateAccepts(Wins, Len(outcomes))
  /\ Open(BaseRate(Wins, Len(outcomes), smoothing))

OpenAtOpinion(probability) ==
  /\ AnalystAccepts(probability)
  /\ Open(probability)

(* update(): the posterior becomes the current probability, and the        *)
(* history gains an entry even when the evidence is skipped.               *)
Learn(h, n) ==
  LET posterior == Posterior(updater.current, h, n) IN
  /\ updater # NoUpdater
  /\ Len(updater.history) <= MaxEvidence
  /\ updater' = [ prior |-> updater.prior, current |-> posterior,
                  history |-> Append(updater.history, posterior),
                  joint |-> [h |-> updater.joint.h * h, n |-> updater.joint.n * n] ]
  /\ UNCHANGED <<bet, bankroll, outcomes>>

(* fractional_kelly at the net odds of the price, and PositionSizer: by    *)
(* the fraction of the bankroll, or by the dollars it comes to.            *)
PlaceBet(price, strategy) ==
  LET fraction == FractionalKelly(updater.current, NetOdds(price))
      param == IF strategy = "kelly" THEN fraction ELSE Times(fraction, bankroll)
  IN
  /\ updater # NoUpdater
  /\ bet = NoBet
  /\ bet' = [ belief |-> updater.current, price |-> price, fraction |-> fraction,
              quantity |-> Reduced(PositionSize(strategy, param, bankroll, price)) ]
  /\ UNCHANGED <<updater, bankroll, outcomes>>

(* The market resolves: a contract pays One or nothing.                    *)
Cost(b) == Reduced(Times(b.quantity, Frac(b.price, One)))

Resolve(won) ==
  LET kept == Reduced(Minus(bankroll, Cost(bet))) IN
  /\ bet # NoBet
  /\ bankroll' = Reduced(IF won THEN Plus(kept, bet.quantity) ELSE kept)
  /\ outcomes' = Append(outcomes, won)
  /\ updater' = NoUpdater
  /\ bet' = NoBet

Next ==
  \/ \E price \in 0..One, overround \in Overrounds : OpenAtPrice(price, overround)
  \/ \E smoothing \in Smoothings : OpenAtBaseRate(smoothing)
  \/ \E probability \in Opinions : OpenAtOpinion(probability)
  \/ \E h, n \in Likelihood : Learn(h, n)
  \/ \E price \in Price, strategy \in {"kelly", "fixed_dollar"} : PlaceBet(price, strategy)
  \/ \E won \in BOOLEAN : Resolve(won)

Spec == Init /\ [][Next]_vars

----------------------------------------------------------------------------
(* Every variable has its type: above all, whatever the evidence, every    *)
(* probability the updater returned is one.                                *)
TypeOK ==
  /\ updater \in Updater \union {NoUpdater}
  /\ updater # NoUpdater =>
       IsProbability(updater.current) /\ \A i \in DOMAIN updater.history :
         IsProbability(updater.history[i])
  /\ bet \in Bet \union {NoBet}
  /\ bankroll \in Fraction
  /\ outcomes \in Seq(BOOLEAN)

(* Updating on one piece of evidence after the other comes to what one     *)
(* update on all of it together gives, so that its order does not matter   *)
(* (bayes.md); as long as the evidence as a whole is possible under the    *)
(* prior, since update() skips what is not when it comes to it.            *)
Possible(p, joint) == joint.h * p.num + joint.n * (p.den - p.num) > 0

BatchUpdate ==
  updater # NoUpdater /\ Possible(updater.prior, updater.joint) =>
    Same(updater.current, Posterior(updater.prior, updater.joint.h, updater.joint.n))

(* Once certain, the updater stays certain of the same thing, whatever     *)
(* evidence comes after: what contradicts it is skipped, never applied.    *)
CertaintyIsFinal ==
  updater # NoUpdater =>
    \A i, j \in DOMAIN updater.history :
      i <= j /\ IsCertain(updater.history[i]) =>
        Same(updater.history[j], updater.history[i])

(* The updater only becomes certain when it began so, or was given         *)
(* evidence that one of the hypotheses excludes.                           *)
CromwellsRule ==
  updater # NoUpdater /\ IsCertain(updater.current) =>
    IsCertain(updater.prior) \/ updater.joint.h = 0 \/ updater.joint.n = 0

(* The four services agree on what a good bet is: the client stakes        *)
(* something exactly when its expected value is positive, its belief above *)
(* break-even, and its edge over the market's implied probability positive.*)
BetsAreFavourable ==
  bet # NoBet =>
    LET staked == bet.fraction.num > 0
        market == MarketProbability(bet.price, One)
    IN /\ staked <=> ExpectedValue(bet.belief, bet.price, One).num > 0
       /\ staked <=> Less(BreakEvenProbability(bet.price, One), bet.belief)
       /\ staked <=> EdgeBps(bet.belief, market).num > 0

(* No stake is past the growth-optimal one, p * b * (1 - f) >= q * (1 + b * f), *)
(* nor past the cap, for any belief and price (kelly.md).                  *)
NeverOverbets ==
  bet # NoBet =>
    LET p == bet.belief
        b == NetOdds(bet.price)
        f == bet.fraction
    IN /\ Leq(f, MaxFraction)
       /\ f.num > 0 => p.num * b.num * (f.den - f.num)
                         >= (p.den - p.num) * (b.den * f.den + b.num * f.num)

(* The client can lose every bet and still have something to bet with.     *)
NeverRuined == bankroll.num > 0

(* With hindsight, no constant forecast of the markets resolved so far has *)
(* a better Brier score than their unsmoothed base rate, as a proper       *)
(* scoring rule has it (brier_score.md).                                   *)
BaseRateIsBestForecast ==
  LET score(p) == BrierScore([i \in DOMAIN outcomes |-> p], outcomes)
  IN outcomes # <<>> =>
       \A i \in 0..One : Leq(score(BaseRate(Wins, Len(outcomes), 0)), score(Frac(i, One)))

============================================================================
