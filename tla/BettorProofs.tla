---------------------------- MODULE BettorProofs ----------------------------
(***************************************************************************)
(* What Bettor promises for every book, analyst, record of outcomes,       *)
(* evidence and price: the theorems about sequential updating rest on      *)
(* UpdaterInv, whose OddsForm is Bayes' theorem without its division, and  *)
(* those about bets on BetInv and on the lemmas about fractional_kelly,    *)
(* those about money on MoneyInv and on what is proved of Gcd: that a      *)
(* fraction stays the same when it is reduced.  Last come the Brier score  *)
(* of a constant forecast, in closed form, and where it is least.          *)
(***************************************************************************)
EXTENDS Bettor, DataTheorems

(* What is known of the updater: its probabilities are probabilities, the  *)
(* last of its history is the current one, and the odds it came to are the *)
(* odds it began with times the likelihoods of all the evidence.           *)
OddsForm(u) ==
  u.current.num * (u.joint.n * (u.prior.den - u.prior.num))
    = (u.current.den - u.current.num) * (u.joint.h * u.prior.num)

Probabilities(u) ==
  /\ IsProbability(u.prior) /\ IsProbability(u.current)
  /\ \A i \in DOMAIN u.history : IsProbability(u.history[i])

CertaintyKept(u) ==
  \A i, j \in DOMAIN u.history : i <= j =>
    /\ u.history[i].num = 0 => u.history[j].num = 0
    /\ u.history[i].num = u.history[i].den => u.history[j].num = u.history[j].den

HistoryEnds(u) ==
  Len(u.history) > 0 /\ u.history[Len(u.history)] = u.current

UpdaterInv ==
  updater # NoUpdater =>
    /\ updater \in Updater
    /\ Probabilities(updater)
    /\ OddsForm(updater)
    /\ HistoryEnds(updater)
    /\ CertaintyKept(updater)

(* What is known of the bet: it is the fractional Kelly bet of a belief    *)
(* that is a probability, at a price that has odds.                        *)
BetInv ==
  bet # NoBet =>
    /\ IsProbability(bet.belief)
    /\ bet.price \in Price
    /\ bet.fraction = FractionalKelly(bet.belief, NetOdds(bet.price))

IInv == UpdaterInv /\ BetInv

----------------------------------------------------------------------------
(* A posterior is a probability.                                           *)
LEMMA PosteriorIsProbability ==
  ASSUME NEW p, IsProbability(p), NEW h \in Nat, NEW n \in Nat
  PROVE  IsProbability(Posterior(p, h, n))
<1> DEFINE favour == h * p.num
           against == n * (p.den - p.num)
<1>1. p.num \in Int /\ p.den \in Nat \ {0} /\ 0 <= p.num /\ p.num <= p.den
  BY DEF IsProbability, Fraction
<1>2. favour \in Nat /\ against \in Nat
  BY <1>1
<1>3. CASE favour + against = 0
  BY <1>3 DEF Posterior
<1>4. CASE favour + against # 0
  <2> HIDE DEF favour, against
  <2>1. Posterior(p, h, n) = Frac(favour, favour + against)
    BY <1>4 DEF Posterior, favour, against
  <2>2. QED
    BY <1>2, <1>4, <2>1 DEF IsProbability, Fraction, Frac
<1>5. QED
  BY <1>3, <1>4

(* Whoever is certain is not moved by any evidence.                        *)
LEMMA PosteriorKeepsCertainty ==
  ASSUME NEW p, IsProbability(p), NEW h \in Nat, NEW n \in Nat
  PROVE  /\ p.num = 0 => Posterior(p, h, n).num = 0
         /\ p.num = p.den => Posterior(p, h, n).num = Posterior(p, h, n).den
<1>1. p.num \in Int /\ p.den \in Nat \ {0}
  BY DEF IsProbability, Fraction
<1>2. p.num = 0 => h * p.num = 0
  BY <1>1
<1>3. p.num = p.den => n * (p.den - p.num) = 0
  BY <1>1
<1>4. h * p.num \in Int /\ n * (p.den - p.num) \in Int
  BY <1>1
<1>5. QED
  BY <1>2, <1>3, <1>4 DEF Posterior, Frac

(* The odds form survives an update: when the evidence is possible since   *)
(* both sides gain the factor h * n, and when it is not since both are 0.  *)
LEMMA OddsStep ==
  ASSUME NEW c \in Nat, NEW d \in Nat \ {0}, c <= d,
         NEW x \in Nat, NEW y \in Nat, NEW h \in Nat, NEW n \in Nat,
         c * x = (d - c) * y
  PROVE  /\ (h * c) * (n * x) = (n * (d - c)) * (h * y)
         /\ h * c + n * (d - c) = 0 => c * (n * x) = (d - c) * (h * y)
<1>1. (h * c) * (n * x) = (h * n) * (c * x)
  OBVIOUS
<1>2. (n * (d - c)) * (h * y) = (h * n) * ((d - c) * y)
  OBVIOUS
<1>3. ASSUME h * c + n * (d - c) = 0
      PROVE  c * (n * x) = (d - c) * (h * y)
  <2>1. h * c = 0 /\ n * (d - c) = 0
    <3>1. h * c \in Nat /\ n * (d - c) \in Nat
      OBVIOUS
    <3>2. QED
      BY <1>3, <3>1
  <2>2. (h = 0 \/ c = 0) /\ (n = 0 \/ d - c = 0)
    BY <2>1
  <2>3. CASE h = 0 /\ n = 0
    BY <2>3
  <2>4. CASE c = 0
    <3>1. d * y = 0
      BY <2>4
    <3>2. y = 0
      BY <3>1
    <3>3. QED
      BY <2>4, <3>2
  <2>5. CASE d - c = 0
    <3>1. c # 0 /\ c * x = 0
      BY <2>5
    <3>2. x = 0
      BY <3>1
    <3>3. QED
      BY <2>5, <3>2
  <2>6. QED
    BY <2>2, <2>3, <2>4, <2>5
<1>4. QED
  BY <1>1, <1>2, <1>3

----------------------------------------------------------------------------
(* The proofs by induction.  An updater that is opened has no evidence yet.*)
LEMMA OpenKeeps ==
  ASSUME NEW prior, Open(prior), IInv
  PROVE  IInv'
<1>1. IsProbability(prior) /\ prior \in Fraction
  BY DEF Open, IsProbability
<1>2. BetInv'
  BY DEF Open, IInv, BetInv
<1>3. /\ updater'.prior = prior /\ updater'.current = prior
      /\ updater'.history = <<prior>>
      /\ updater'.joint = [h |-> 1, n |-> 1]
      /\ updater' \in Updater
  BY <1>1 DEF Open, Updater
<1>4. OddsForm(updater)'
  BY <1>1, <1>3 DEF OddsForm, Fraction
<1>5. Probabilities(updater)' /\ HistoryEnds(updater)' /\ CertaintyKept(updater)'
  BY <1>1, <1>3 DEF Probabilities, HistoryEnds, CertaintyKept
<1>6. QED
  BY <1>2, <1>3, <1>4, <1>5 DEF IInv, UpdaterInv

(* Evidence keeps the odds form.                                           *)
LEMMA LearnKeeps ==
  ASSUME NEW h \in Likelihood, NEW n \in Likelihood, Learn(h, n), IInv
  PROVE  IInv'
<1> DEFINE u == updater
           post == Posterior(u.current, h, n)
<1>1. h \in Nat /\ n \in Nat
  BY BettorAssumption DEF Likelihood
<1>2. /\ u \in Updater /\ Probabilities(u) /\ OddsForm(u)
      /\ HistoryEnds(u) /\ CertaintyKept(u)
  BY DEF Learn, IInv, UpdaterInv
<1>3. IsProbability(post) /\ post \in Fraction
  BY <1>1, <1>2, PosteriorIsProbability DEF Probabilities, IsProbability
<1>4. /\ updater'.prior = u.prior /\ updater'.current = post
      /\ updater'.history = Append(u.history, post)
      /\ updater'.joint = [h |-> u.joint.h * h, n |-> u.joint.n * n]
  BY DEF Learn
<1>5. updater' \in Updater
  BY <1>1, <1>2, <1>3 DEF Learn, Updater
<1>6. /\ u.history \in Seq(Fraction)
      /\ Len(updater'.history) = Len(u.history) + 1
      /\ DOMAIN updater'.history = 1..Len(u.history) + 1
      /\ \A i \in 1..Len(u.history) : updater'.history[i] = u.history[i]
      /\ updater'.history[Len(u.history) + 1] = post
  <2> HIDE DEF post
  <2>1. u.history \in Seq(Fraction)
    BY <1>2 DEF Updater
  <2>2. QED
    BY <1>3, <1>4, <2>1
<1>7. Probabilities(updater)'
  <2> HIDE DEF post
  <2>1. \A i \in 1..Len(u.history) + 1 : IsProbability(updater'.history[i])
    <3>1. TAKE i \in 1..Len(u.history) + 1
    <3>2. CASE i = Len(u.history) + 1
      BY <3>2, <1>3, <1>6
    <3>3. CASE i \in 1..Len(u.history)
      BY <3>3, <1>2, <1>6 DEF Probabilities
    <3>4. QED
      BY <3>2, <3>3, <1>6
  <2>2. QED
    BY <1>2, <1>3, <1>4, <1>6, <2>1 DEF Probabilities
<1>8. HistoryEnds(updater)'
  BY <1>4, <1>6 DEF HistoryEnds
<1>9. OddsForm(updater)'
  <2> DEFINE c == u.current.num
             d == u.current.den
             x == u.joint.n * (u.prior.den - u.prior.num)
             y == u.joint.h * u.prior.num
  <2>1. /\ c \in Nat /\ d \in Nat \ {0} /\ c <= d
        /\ u.joint.h \in Nat /\ u.joint.n \in Nat
        /\ u.prior.num \in Nat /\ u.prior.den \in Nat \ {0}
        /\ u.prior.num <= u.prior.den
    BY <1>2 DEF Probabilities, IsProbability, Fraction, Updater
  <2>2. x \in Nat /\ y \in Nat
    BY <2>1
  <2>3. c * x = (d - c) * y
    BY <1>2 DEF OddsForm
  <2>4. /\ (u.joint.n * n) * (u.prior.den - u.prior.num) = n * x
        /\ (u.joint.h * h) * u.prior.num = h * y
    BY <1>1, <2>1
  <2>5. /\ (h * c) * (n * x) = (n * (d - c)) * (h * y)
        /\ h * c + n * (d - c) = 0 => c * (n * x) = (d - c) * (h * y)
    <3> HIDE DEF c, d, x, y
    <3>1. QED
      BY <1>1, <2>1, <2>2, <2>3, OddsStep
  <2>6. post = IF h * c + n * (d - c) = 0 THEN u.current
               ELSE Frac(h * c, h * c + n * (d - c))
    BY DEF Posterior
  <2>7. SUFFICES post.num * (n * x) = (post.den - post.num) * (h * y)
    BY <1>4, <2>4 DEF OddsForm
  <2>8. CASE h * c + n * (d - c) = 0
    BY <2>5, <2>6, <2>8
  <2>9. CASE h * c + n * (d - c) # 0
    <3>1. post.num = h * c /\ post.den = h * c + n * (d - c)
      BY <2>6, <2>9 DEF Frac
    <3>2. h * c \in Int /\ n * (d - c) \in Int
      BY <1>1, <2>1
    <3>3. post.den - post.num = n * (d - c)
      <4> HIDE DEF post, c, d
      <4>1. QED BY <3>1, <3>2
    <3>4. QED
      BY <2>5, <3>1, <3>3
  <2>10. QED
    BY <2>8, <2>9
<1>10. CertaintyKept(updater)'
  <2> HIDE DEF post
  <2>1. SUFFICES ASSUME NEW i \in 1..Len(u.history) + 1, NEW j \in 1..Len(u.history) + 1,
                        i <= j
                 PROVE  /\ updater'.history[i].num = 0 => updater'.history[j].num = 0
                        /\ updater'.history[i].num = updater'.history[i].den
                             => updater'.history[j].num = updater'.history[j].den
    BY <1>6 DEF CertaintyKept
  <2>2. CASE j \in 1..Len(u.history)
    <3>1. i \in 1..Len(u.history)
      BY <2>1, <2>2
    <3>2. i \in DOMAIN u.history /\ j \in DOMAIN u.history
      BY <2>2, <3>1, <1>6
    <3>3. /\ u.history[i].num = 0 => u.history[j].num = 0
          /\ u.history[i].num = u.history[i].den => u.history[j].num = u.history[j].den
      BY <2>1, <3>2, <1>2 DEF CertaintyKept
    <3>4. updater'.history[i] = u.history[i] /\ updater'.history[j] = u.history[j]
      BY <2>2, <3>1, <1>6
    <3>5. QED
      BY <3>3, <3>4
  <2>3. CASE j = Len(u.history) + 1 /\ i = j
    BY <2>3
  <2>4. CASE j = Len(u.history) + 1 /\ i # j
    <3>1. i \in 1..Len(u.history) /\ Len(u.history) \in 1..Len(u.history)
      BY <2>1, <2>4, <1>6
    <3>2. /\ u.history[i].num = 0 => u.current.num = 0
          /\ u.history[i].num = u.history[i].den => u.current.num = u.current.den
      BY <3>1, <1>2, <1>6 DEF CertaintyKept, HistoryEnds
    <3>3. /\ u.current.num = 0 => post.num = 0
          /\ u.current.num = u.current.den => post.num = post.den
      BY <1>1, <1>2, PosteriorKeepsCertainty DEF post, Probabilities
    <3>4. QED
      BY <2>4, <3>1, <3>2, <3>3, <1>6
  <2>5. QED
    BY <2>2, <2>3, <2>4, <1>6
<1>11. BetInv'
  BY DEF Learn, IInv, BetInv
<1>12. QED
  BY <1>5, <1>7, <1>8, <1>9, <1>10, <1>11 DEF IInv, UpdaterInv

(* fractional_kelly: with an edge it is positive, at most Kelly's, at most *)
(* the cap, and a proper fraction less than all; without one it is zero.   *)
LEMMA KellyBounds ==
  ASSUME NEW p, IsProbability(p), NEW odds \in Fraction, odds.num > 0
  PROVE  LET f == FractionalKelly(p, odds)
             full == FullKelly(p, odds)
         IN /\ f \in Fraction /\ f.num >= 0
            /\ f.num > 0 <=> full.num > 0
            /\ f.num > 0 => Leq(f, full)
            /\ KellyFraction.num < KellyFraction.den => f.num < f.den
            /\ Leq(f, MaxFraction)
<1> DEFINE f == FractionalKelly(p, odds)
           full == FullKelly(p, odds)
           sized == Times(KellyFraction, full)
           Kn == KellyFraction.num
           Kd == KellyFraction.den
           Mn == MaxFraction.num
           Md == MaxFraction.den
           Fn == full.num
           Fd == full.den
<1>1. /\ p.num \in Nat /\ p.den \in Nat \ {0} /\ p.num <= p.den
      /\ odds.num \in Nat \ {0} /\ odds.den \in Nat \ {0}
  BY DEF IsProbability, Fraction
<1>2. /\ Kn \in Nat \ {0} /\ Kd \in Nat \ {0} /\ Kn <= Kd
      /\ Mn \in Nat \ {0} /\ Md \in Nat \ {0} /\ Mn <= Md
  BY ServicesAssumption DEF Fraction
<1>3. Fn \in Int /\ Fd \in Nat \ {0} /\ Fn <= Fd
  <2>1. /\ Fn = p.num * odds.num - (p.den - p.num) * odds.den
        /\ Fd = p.den * odds.num
    BY DEF FullKelly, Frac
  <2>2. /\ p.num * odds.num \in Nat /\ p.den * odds.num \in Nat \ {0}
        /\ (p.den - p.num) * odds.den \in Nat
        /\ p.num * odds.num <= p.den * odds.num
    BY <1>1
  <2>3. QED
    BY <2>1, <2>2
<1>4. sized.num = Kn * Fn /\ sized.den = Kd * Fd
  BY DEF Times, Frac
<1>5. CASE Fn <= 0
  <2>1. f = Zero
    BY <1>5 DEF FractionalKelly
  <2>2. QED
    BY <1>2, <1>3, <1>5, <2>1 DEF Zero, Frac, Fraction, Leq
<1>6. CASE Fn > 0 /\ Leq(sized, MaxFraction)
  <2>1. f = sized
    BY <1>3, <1>6 DEF FractionalKelly
  <2>2. sized = Frac(Kn * Fn, Kd * Fd)
    BY DEF Times
  <2> HIDE DEF f, full, sized, Kn, Kd, Fn, Fd
  <2>3. Kn * Fn \in Nat \ {0} /\ Kd * Fd \in Nat \ {0}
    BY <1>2, <1>3, <1>6
  <2>4. Kn < Kd => Kn * Fn < Kd * Fd
    <3>1. Kn < Kd => Kn * Fn < Kd * Fn
      BY <1>2, <1>3, <1>6
    <3>2. Kd * Fn <= Kd * Fd
      BY <1>2, <1>3
    <3>3. QED
      BY <1>2, <1>3, <3>1, <3>2
  <2>5. (Kn * Fn) * Fd <= Fn * (Kd * Fd)
    <3>1. Fn * Fd \in Nat
      BY <1>3, <1>6
    <3>2. Kn * (Fn * Fd) <= Kd * (Fn * Fd)
      BY <1>2, <3>1
    <3>3. (Kn * Fn) * Fd = Kn * (Fn * Fd) /\ Fn * (Kd * Fd) = Kd * (Fn * Fd)
      BY <1>2, <1>3
    <3>4. QED
      BY <3>2, <3>3
  <2>6. Leq(sized, full)
    BY <1>4, <2>5 DEF Leq, Fn, Fd
  <2>7. sized \in Fraction /\ sized.num > 0 /\ (Kn < Kd => sized.num < sized.den)
    BY <2>2, <2>3, <2>4 DEF Fraction, Frac
  <2>8. QED
    BY <1>6, <2>1, <2>6, <2>7 DEF f, full, Fn, Kn, Kd, Fraction
<1>7. CASE Fn > 0 /\ ~ Leq(sized, MaxFraction)
  <2>1. f = MaxFraction
    BY <1>3, <1>7 DEF FractionalKelly
  <2>2. ~ ((Kn * Fn) * Md <= Mn * (Kd * Fd))
    BY <1>4, <1>7 DEF Leq
  <2> HIDE DEF f, full, sized, Kn, Kd, Fn, Fd, Mn, Md
  <2>3. /\ Fn * Md \in Nat \ {0} /\ Mn * Fd \in Nat \ {0}
    BY <1>2, <1>3, <1>7
  <2>4. Kd * (Mn * Fd) < Kn * (Fn * Md)
    <3>1. (Kn * Fn) * Md = Kn * (Fn * Md) /\ Mn * (Kd * Fd) = Kd * (Mn * Fd)
      BY <1>2, <1>3
    <3>2. Kn * (Fn * Md) \in Int /\ Kd * (Mn * Fd) \in Int
      BY <1>2, <2>3
    <3>3. QED
      BY <2>2, <3>1, <3>2
  <2>5. Kn * (Fn * Md) <= Kd * (Fn * Md)
    BY <1>2, <2>3
  <2>6. Kd * (Mn * Fd) < Kd * (Fn * Md)
    BY <1>2, <2>3, <2>4, <2>5
  <2>7. Mn * Fd < Fn * Md
    BY <1>2, <2>3, <2>6
  <2>8. Mn < Md
    <3>1. Fn * Md <= Fd * Md
      BY <1>2, <1>3
    <3>2. Mn * Fd < Fd * Md
      BY <1>2, <1>3, <2>3, <2>7, <3>1
    <3>3. QED
      BY <1>2, <1>3, <3>2
  <2>9. Leq(MaxFraction, full) /\ Leq(MaxFraction, MaxFraction)
    BY <1>2, <2>3, <2>7 DEF Leq, Fn, Fd, Mn, Md
  <2>10. QED
    BY <1>2, <1>7, <2>1, <2>8, <2>9, ServicesAssumption DEF f, full, Fn, Mn, Md
<1>8. QED
  BY <1>3, <1>5, <1>6, <1>7

(* The net odds of a price are positive.                                   *)
LEMMA NetOddsOfPrice ==
  ASSUME NEW price \in Price
  PROVE  /\ NetOdds(price) \in Fraction /\ NetOdds(price).num > 0
         /\ NetOdds(price).num = One - price /\ NetOdds(price).den = price
         /\ price \in Nat \ {0} /\ price < One
BY ServicesAssumption DEF NetOdds, Frac, Fraction, Price

(* A bet is made from what the updater says when it is placed.             *)
LEMMA PlaceBetKeeps ==
  ASSUME NEW price \in Price, NEW strategy, PlaceBet(price, strategy), IInv
  PROVE  IInv'
<1>1. UpdaterInv'
  BY DEF PlaceBet, IInv, UpdaterInv
<1>2. IsProbability(updater.current)
  BY DEF PlaceBet, IInv, UpdaterInv, Probabilities
<1>3. /\ bet'.belief = updater.current /\ bet'.price = price
      /\ bet'.fraction = FractionalKelly(updater.current, NetOdds(price))
  BY DEF PlaceBet
<1>4. BetInv'
  BY <1>2, <1>3 DEF BetInv
<1>5. QED
  BY <1>1, <1>4 DEF IInv

(* Every reachable state satisfies the inductive invariant.                *)
THEOREM Inductive == Spec => []IInv
<1>1. Init => IInv
  BY DEF Init, IInv, UpdaterInv, BetInv
<1>2. IInv /\ [Next]_vars => IInv'
  <2> SUFFICES ASSUME IInv, [Next]_vars
               PROVE  IInv'
    OBVIOUS
  <2>1. ASSUME NEW price \in 0..One, NEW overround \in Overrounds,
               OpenAtPrice(price, overround)
        PROVE  IInv'
    BY <2>1, OpenKeeps DEF OpenAtPrice
  <2>2. ASSUME NEW smoothing \in Smoothings, OpenAtBaseRate(smoothing)
        PROVE  IInv'
    BY <2>2, OpenKeeps DEF OpenAtBaseRate
  <2>3. ASSUME NEW probability \in Opinions, OpenAtOpinion(probability)
        PROVE  IInv'
    BY <2>3, OpenKeeps DEF OpenAtOpinion
  <2>4. ASSUME NEW h \in Likelihood, NEW n \in Likelihood, Learn(h, n)
        PROVE  IInv'
    BY <2>4, LearnKeeps
  <2>5. ASSUME NEW price \in Price, NEW strategy \in {"kelly", "fixed_dollar"},
               PlaceBet(price, strategy)
        PROVE  IInv'
    BY <2>5, PlaceBetKeeps
  <2>6. ASSUME NEW won \in BOOLEAN, Resolve(won)
        PROVE  IInv'
    BY <2>6 DEF Resolve, IInv, UpdaterInv, BetInv
  <2>7. CASE UNCHANGED vars
    BY <2>7 DEF vars, IInv, UpdaterInv, BetInv
  <2>8. QED
    BY <2>1, <2>2, <2>3, <2>4, <2>5, <2>6, <2>7 DEF Next
<1>3. QED
  BY <1>1, <1>2, PTL DEF Spec

----------------------------------------------------------------------------
(* Whatever evidence came, and in whichever pieces, the updater is where   *)
(* one update on all of it would have taken it, if it was possible at all. *)
THEOREM OrderDoesNotMatter == Spec => []BatchUpdate
<1>1. IInv => BatchUpdate
  <2>1. SUFFICES ASSUME IInv, updater # NoUpdater,
                        Possible(updater.prior, updater.joint)
                 PROVE  Same(updater.current,
                             Posterior(updater.prior, updater.joint.h, updater.joint.n))
    BY DEF BatchUpdate
  <2> DEFINE c == updater.current.num
             d == updater.current.den
             x == updater.joint.n * (updater.prior.den - updater.prior.num)
             y == updater.joint.h * updater.prior.num
  <2>2. /\ c \in Nat /\ d \in Nat \ {0}
        /\ updater.joint.h \in Nat /\ updater.joint.n \in Nat
        /\ updater.prior.num \in Nat /\ updater.prior.den \in Nat \ {0}
        /\ updater.prior.num <= updater.prior.den
    BY <2>1 DEF IInv, UpdaterInv, Probabilities, IsProbability, Fraction, Updater
  <2>3. x \in Nat /\ y \in Nat
    <3>1. \A a, b \in Nat : a * b \in Nat
      OBVIOUS
    <3>2. updater.prior.den - updater.prior.num \in Nat
      BY <2>2
    <3>3. QED
      BY <2>2, <3>1, <3>2
  <2>4. c * x = (d - c) * y
    BY <2>1 DEF IInv, UpdaterInv, OddsForm
  <2>5. y + x > 0
    BY <2>1 DEF Possible
  <2>6. Posterior(updater.prior, updater.joint.h, updater.joint.n) = Frac(y, y + x)
    BY <2>3, <2>5 DEF Posterior
  <2> HIDE DEF x, y
  <2>7. c * (y + x) = y * d
    <3>1. (d - c) * y = d * y - c * y /\ c * (y + x) = c * y + c * x
      BY <2>2, <2>3
    <3>2. QED
      BY <2>2, <2>3, <2>4, <3>1
  <2>8. QED
    BY <2>6, <2>7 DEF Same, Frac
<1>2. QED
  BY <1>1, Inductive, PTL

(* Certainty, once reached, is kept.                                       *)
THEOREM CertaintyKeptForever == Spec => []CertaintyIsFinal
<1>1. IInv => CertaintyIsFinal
  <2>1. SUFFICES ASSUME IInv, updater # NoUpdater,
                        NEW i \in DOMAIN updater.history,
                        NEW j \in DOMAIN updater.history,
                        i <= j, IsCertain(updater.history[i])
                 PROVE  Same(updater.history[j], updater.history[i])
    BY DEF CertaintyIsFinal
  <2> DEFINE a == updater.history[i]
             b == updater.history[j]
  <2>2. a \in Fraction /\ b \in Fraction
    BY <2>1 DEF IInv, UpdaterInv, Probabilities, IsProbability
  <2>3. /\ a.num = 0 => b.num = 0
        /\ a.num = a.den => b.num = b.den
    BY <2>1 DEF IInv, UpdaterInv, CertaintyKept
  <2>4. CASE a.num = 0
    BY <2>2, <2>3, <2>4 DEF Same, Fraction
  <2>5. CASE a.num = a.den
    BY <2>2, <2>3, <2>5 DEF Same, Fraction
  <2>6. QED
    BY <2>1, <2>4, <2>5 DEF IsCertain
<1>2. QED
  BY <1>1, Inductive, PTL

(* No evidence makes certain unless one hypothesis excludes it.            *)
THEOREM NoUnearnedCertainty == Spec => []CromwellsRule
<1>1. IInv => CromwellsRule
  <2>1. SUFFICES ASSUME IInv, updater # NoUpdater, IsCertain(updater.current)
                 PROVE  IsCertain(updater.prior) \/ updater.joint.h = 0
                          \/ updater.joint.n = 0
    BY DEF CromwellsRule
  <2> DEFINE c == updater.current.num
             d == updater.current.den
             P == updater.prior.num
             Q == updater.prior.den - updater.prior.num
             h == updater.joint.h
             n == updater.joint.n
  <2>2. /\ c \in Nat /\ d \in Nat \ {0} /\ h \in Nat /\ n \in Nat
        /\ P \in Nat /\ Q \in Nat
    BY <2>1 DEF IInv, UpdaterInv, Probabilities, IsProbability, Fraction, Updater
  <2>3. c * (n * Q) = (d - c) * (h * P)
    BY <2>1 DEF IInv, UpdaterInv, OddsForm
  <2>4. c = 0 \/ c = d
    BY <2>1 DEF IsCertain
  <2>5. (P = 0 \/ Q = 0) => IsCertain(updater.prior)
    <3>1. updater.prior.den \in Nat /\ updater.prior.num \in Int
      BY <2>1 DEF IInv, UpdaterInv, Probabilities, IsProbability, Fraction
    <3>2. QED
      BY <3>1 DEF IsCertain
  <2> HIDE DEF c, d, P, Q, h, n
  <2>6. CASE c = 0
    <3>1. d * (h * P) = 0
      BY <2>2, <2>3, <2>6
    <3>2. h = 0 \/ P = 0
      BY <2>2, <3>1
    <3>3. QED
      BY <2>5, <3>2 DEF h
  <2>7. CASE c = d
    <3>1. d * (n * Q) = 0
      BY <2>2, <2>3, <2>7
    <3>2. n = 0 \/ Q = 0
      BY <2>2, <3>1
    <3>3. QED
      BY <2>5, <3>2 DEF n
  <2>8. QED
    BY <2>4, <2>6, <2>7
<1>2. QED
  BY <1>1, Inductive, PTL

(* expected_value, break_even_probability, edge_bps and fractional_kelly   *)
(* never disagree about a bet.                                             *)
THEOREM ServicesAgree == Spec => []BetsAreFavourable
<1>1. IInv => BetsAreFavourable
  <2>1. SUFFICES ASSUME IInv, bet # NoBet
                 PROVE  BetsAreFavourable
    BY DEF BetsAreFavourable
  <2> DEFINE p == bet.belief
             price == bet.price
             edge == p.num * One - price * p.den
  <2>2. /\ p.num \in Nat /\ p.den \in Nat \ {0} /\ price \in Price
        /\ IsProbability(p) /\ bet.fraction = FractionalKelly(p, NetOdds(price))
    BY <2>1 DEF IInv, BetInv, IsProbability, Fraction
  <2>3. /\ price \in Nat \ {0} /\ price < One /\ One \in Nat \ {0}
    BY <2>2, NetOddsOfPrice, ServicesAssumption
  <2>4. p.num * (One - price) - (p.den - p.num) * price = edge
    BY <2>2, <2>3
  <2>5. bet.fraction.num > 0 <=> edge > 0
    <3> DEFINE odds == NetOdds(price)
    <3>1. /\ odds \in Fraction /\ odds.num > 0
          /\ odds.num = One - price /\ odds.den = price
      BY <2>2, NetOddsOfPrice
    <3>2. bet.fraction.num > 0 <=> FullKelly(p, odds).num > 0
      BY <2>2, <3>1, KellyBounds
    <3>3. FullKelly(p, odds).num = p.num * odds.num - (p.den - p.num) * odds.den
      BY DEF FullKelly, Frac
    <3>4. QED
      BY <2>4, <3>1, <3>2, <3>3
  <2>6. ExpectedValue(p, price, One).num = edge
    BY <2>4 DEF ExpectedValue, Frac
  <2>7. Less(BreakEvenProbability(price, One), p) <=> edge > 0
    <3>1. p.num * One \in Int /\ price * p.den \in Int
      BY <2>2, <2>3
    <3>2. QED
      BY <3>1 DEF Less, BreakEvenProbability, Frac
  <2>8. EdgeBps(p, MarketProbability(price, One)).num > 0 <=> edge > 0
    <3>1. EdgeBps(p, MarketProbability(price, One)).num = 10000 * edge
      BY DEF EdgeBps, MarketProbability, Frac
    <3>2. edge \in Int
      BY <2>2, <2>3
    <3> HIDE DEF edge
    <3>3. QED
      BY <3>1, <3>2
  <2>9. QED
    BY <2>5, <2>6, <2>7, <2>8 DEF BetsAreFavourable
<1>2. QED
  BY <1>1, Inductive, PTL

(* No stake is past the growth-optimal one, nor past the cap.              *)
THEOREM StakesAreBounded == Spec => []NeverOverbets
<1>1. IInv => NeverOverbets
  <2>1. SUFFICES ASSUME IInv, bet # NoBet
                 PROVE  NeverOverbets
    BY DEF NeverOverbets
  <2> DEFINE p == bet.belief
             b == NetOdds(bet.price)
             f == bet.fraction
             full == FullKelly(p, b)
  <2>2. /\ p.num \in Nat /\ p.den \in Nat \ {0} /\ p.num <= p.den
        /\ IsProbability(p) /\ bet.price \in Price /\ f = FractionalKelly(p, b)
    BY <2>1 DEF IInv, BetInv, IsProbability, Fraction
  <2>3. b \in Fraction /\ b.num > 0
    BY <2>2, NetOddsOfPrice
  <2>4. f \in Fraction /\ Leq(f, MaxFraction) /\ (f.num > 0 => Leq(f, full))
    BY <2>2, <2>3, KellyBounds
  <2>5. /\ full.num = p.num * b.num - (p.den - p.num) * b.den
        /\ full.den = p.den * b.num
    BY DEF FullKelly, Frac
  <2>6. /\ f.num \in Int /\ f.den \in Int /\ b.num \in Int /\ b.den \in Int
        /\ p.num \in Int /\ p.den \in Int
    BY <2>2, <2>3, <2>4 DEF Fraction
  <2> HIDE DEF p, b, f
  <2>7. ASSUME f.num > 0
        PROVE  p.num * b.num * (f.den - f.num)
                 >= (p.den - p.num) * (b.den * f.den + b.num * f.num)
    <3>1. f.num * (p.den * b.num)
            <= (p.num * b.num - (p.den - p.num) * b.den) * f.den
      BY <2>4, <2>5, <2>7 DEF Leq
    <3>2. p.num * b.num * (f.den - f.num)
            - (p.den - p.num) * (b.den * f.den + b.num * f.num)
          = (p.num * b.num - (p.den - p.num) * b.den) * f.den
            - f.num * (p.den * b.num)
      BY <2>6
    <3>3. QED
      BY <2>6, <3>1, <3>2
  <2>8. QED
    BY <2>4, <2>7 DEF NeverOverbets, p, b, f
<1>2. QED
  BY <1>1, Inductive, PTL

(* Under any fraction of Kelly but the whole, a lost bet never takes the   *)
(* whole bankroll.                                                         *)
THEOREM NeverStakesAll ==
  ASSUME KellyFraction.num < KellyFraction.den
  PROVE  Spec => [](bet # NoBet => bet.fraction.num < bet.fraction.den)
<1>1. IInv => (bet # NoBet => bet.fraction.num < bet.fraction.den)
  BY NetOddsOfPrice, KellyBounds DEF IInv, BetInv
<1>2. QED
  BY <1>1, Inductive, PTL

(* Euclid's algorithm.  Its recursive definition has a solution, which is  *)
(* the greatest of the common divisors.                                    *)
Divides(d, m) == \E k \in Nat : m = d * k

Common(m, n) == { d \in 1..n : Divides(d, m) /\ Divides(d, n) }

Greatest(S) == CHOOSE d \in S : \A e \in S : e <= d

Euclid(g) ==
  g = [ pair \in Nat \X Nat |->
          IF pair[2] = 0 THEN pair[1] ELSE g[<<pair[2], pair[1] % pair[2]>>] ]

(* Division with a remainder.                                              *)
LEMMA Remainder ==
  ASSUME NEW m \in Nat, NEW n \in Nat \ {0}
  PROVE  /\ m \div n \in Nat /\ m % n \in Nat /\ m % n < n
         /\ m = (n * (m \div n)) + (m % n)
OBVIOUS

(* A divisor of two numbers divides what the one leaves of the other, and  *)
(* the other way round.                                                    *)
LEMMA DividesRemainder ==
  ASSUME NEW m \in Nat, NEW n \in Nat \ {0}, NEW d \in Nat \ {0}, Divides(d, n)
  PROVE  Divides(d, m) <=> Divides(d, m % n)
<1>1. PICK q \in Nat, r \in Nat : q = m \div n /\ r = m % n /\ m = n * q + r
  BY Remainder
<1>2. PICK k \in Nat : n = d * k
  BY DEF Divides
<1>3. m = d * (k * q) + r
  <2>1. n * q = d * (k * q)
    BY <1>2
  <2>2. QED
    BY <1>1, <2>1
<1>4. ASSUME NEW l \in Nat, r = d * l
      PROVE  m = d * (k * q + l)
  <2>1. d * (k * q + l) = d * (k * q) + d * l
    OBVIOUS
  <2>2. QED
    BY <1>3, <1>4, <2>1
<1>5. ASSUME NEW l \in Nat, m = d * l
      PROVE  r = d * (l - k * q) /\ l - k * q \in Nat
  <2>1. d * (l - k * q) = d * l - d * (k * q)
    OBVIOUS
  <2>2. PICK x \in Int : x = l - k * q
    OBVIOUS
  <2>3. d * (k * q) \in Int
    OBVIOUS
  <2>4. r = d * x
    BY <1>3, <1>5, <2>1, <2>2, <2>3
  <2>5. x >= 0
    <3>1. x < 0 => d * x < 0
      BY <2>2
    <3>2. QED
      BY <2>2, <2>4, <3>1
  <2>6. QED
    BY <2>2, <2>4, <2>5
<1>6. k * q \in Nat
  OBVIOUS
<1>7. \A l \in Nat : k * q + l \in Nat
  BY <1>6
<1>8. QED
  BY <1>1, <1>4, <1>5, <1>7 DEF Divides

(* A divisor of a positive number is no greater than it.                   *)
LEMMA DividesBounds ==
  ASSUME NEW m \in Nat \ {0}, NEW d \in Nat, Divides(d, m)
  PROVE  d \in 1..m
<1>1. PICK k \in Nat : m = d * k
  BY DEF Divides
<1>2. k # 0 /\ d # 0
  BY <1>1
<1>3. d * 1 <= d * k
  BY <1>2, TimesKeepsOrder
<1>4. QED
  BY <1>1, <1>2, <1>3

(* Every number divides itself and nothing.                                *)
LEMMA DividesSelf == \A d \in Nat : Divides(d, d) /\ Divides(d, 0)
<1>1. \A d \in Nat : d = d * 1 /\ 0 = d * 0
  OBVIOUS
<1>2. QED
  BY <1>1 DEF Divides

(* The definition of Gcd has a solution, so it is one.                     *)
LEMMA GcdIsEuclid == Euclid(Gcd)
<1> DEFINE value(m, n) == IF n = 0 THEN m ELSE Greatest(Common(m, n))
           g == [ pair \in Nat \X Nat |-> value(pair[1], pair[2]) ]
<1>1. ASSUME NEW m \in Nat, NEW n \in Nat \ {0}
      PROVE  value(m, n) = value(n, m % n)
  <2>1. m % n \in Nat /\ m % n < n
    BY Remainder
  <2>2. CASE m % n = 0
    <3>1. n \in Common(m, n)
      BY <2>2, DividesRemainder, DividesSelf DEF Common
    <3>2. \A d \in Common(m, n) : d <= n
      BY DEF Common
    <3>3. \A d \in Common(m, n) : (\A e \in Common(m, n) : e <= d) => d = n
      BY <3>1, <3>2 DEF Common
    <3>4. Greatest(Common(m, n)) = n
      BY <3>1, <3>2, <3>3 DEF Greatest
    <3>5. QED
      BY <2>2, <3>4
  <2>3. CASE m % n # 0
    <3>1. \A d \in 1..n : Divides(d, n) => (Divides(d, m) <=> Divides(d, m % n))
      BY DividesRemainder
    <3>2. \A d \in 1..n : Divides(d, m % n) => d \in 1..(m % n)
      BY <2>1, <2>3, DividesBounds
    <3>3. 1..(m % n) \subseteq 1..n
      BY <2>1
    <3>4. Common(m, n) = Common(n, m % n)
      BY <3>1, <3>2, <3>3 DEF Common
    <3>5. QED
      BY <2>3, <3>4, Zenon
  <2>4. QED
    BY <2>2, <2>3
<1>2. ASSUME NEW pair \in Nat \X Nat
      PROVE  g[pair] = IF pair[2] = 0 THEN pair[1] ELSE g[<<pair[2], pair[1] % pair[2]>>]
  <2>1. PICK m \in Nat, n \in Nat : pair = <<m, n>>
    OBVIOUS
  <2> HIDE DEF value
  <2>2. g[pair] = value(m, n)
    BY <2>1
  <2>3. CASE n = 0
    BY <2>1, <2>2, <2>3 DEF value
  <2>4. CASE n # 0
    <3>1. m % n \in Nat
      BY <2>4, Remainder
    <3>2. g[<<n, m % n>>] = value(n, m % n)
      BY <3>1
    <3>3. value(m, n) = value(n, m % n)
      BY <1>1, <2>4
    <3>4. QED
      BY <2>1, <2>2, <2>4, <3>2, <3>3
  <2>5. QED
    BY <2>3, <2>4
<1> HIDE DEF value
<1>3. Euclid(g)
  BY <1>2 DEF Euclid
<1>4. QED
  BY <1>3 DEF Gcd, Euclid

(* What Gcd gives divides both.                                            *)
LEMMA GcdDivides ==
  ASSUME NEW m \in Nat, NEW n \in Nat \ {0}
  PROVE  /\ Gcd[<<m, n>>] \in Nat \ {0}
         /\ Divides(Gcd[<<m, n>>], m) /\ Divides(Gcd[<<m, n>>], n)
<1> DEFINE Right(a, b) == /\ Gcd[<<a, b>>] \in Nat \ {0}
                          /\ Divides(Gcd[<<a, b>>], a) /\ Divides(Gcd[<<a, b>>], b)
           Wrong == { b \in Nat \ {0} : \E a \in Nat : ~ Right(a, b) }
<1>1. SUFFICES ASSUME Wrong # {} PROVE FALSE
  OBVIOUS
<1>2. PICK b \in Wrong : \A c \in Wrong : b <= c
  <2>1. Wrong \in SUBSET Nat
    OBVIOUS
  <2> HIDE DEF Wrong
  <2>2. QED
    BY <1>1, <2>1, HasLeast
<1>3. PICK a \in Nat : ~ Right(a, b)
  OBVIOUS
<1>4. b \in Nat \ {0} /\ a % b \in Nat /\ a % b < b
  BY Remainder
<1>5. /\ Gcd[<<a, b>>] = Gcd[<<b, a % b>>]
      /\ Gcd[<<b, 0>>] = b
  BY <1>4, GcdIsEuclid DEF Euclid
<1>6. CASE a % b = 0
  <2>1. Gcd[<<a, b>>] = b
    BY <1>5, <1>6
  <2>2. Divides(b, b) /\ Divides(b, a)
    BY <1>4, <1>6, DividesRemainder, DividesSelf
  <2>3. QED
    BY <1>3, <1>4, <2>1, <2>2
<1>7. CASE a % b # 0
  <2>1. a % b \notin Wrong
    <3>1. PICK r \in Nat : r = a % b /\ r < b
      BY <1>4
    <3> HIDE DEF Wrong
    <3>2. r \notin Wrong
      BY <1>2, <1>4, <3>1
    <3>3. QED
      BY <3>1, <3>2
  <2>2. Right(b, a % b)
    BY <1>4, <1>7, <2>1
  <2>3. PICK d \in Nat \ {0} : d = Gcd[<<a, b>>] /\ Divides(d, b) /\ Divides(d, a % b)
    BY <1>5, <2>2
  <2>4. Divides(d, a)
    BY <1>4, <2>3, DividesRemainder
  <2>5. QED
    BY <1>3, <2>3, <2>4
<1>8. QED
  BY <1>6, <1>7

(* Reduced keeps the value of a fraction.                                  *)
LEMMA ReducedIsSame ==
  ASSUME NEW p \in Fraction
  PROVE  /\ Reduced(p) \in Fraction /\ Same(Reduced(p), p)
         /\ Reduced(p).num > 0 <=> p.num > 0
         /\ Reduced(p).num >= 0 <=> p.num >= 0
<1> DEFINE m == IF p.num < 0 THEN -p.num ELSE p.num
<1>1. p.num \in Int /\ p.den \in Nat \ {0} /\ m \in Nat
  BY DEF Fraction
<1>2. PICK d \in Nat \ {0} : d = Gcd[<<m, p.den>>] /\ Divides(d, m) /\ Divides(d, p.den)
  <2> HIDE DEF m
  <2>1. QED
    BY <1>1, GcdDivides
<1>3. PICK k \in Nat : m = d * k
  BY <1>2 DEF Divides
<1>4. PICK l \in Nat : p.den = d * l
  BY <1>2 DEF Divides
<1>5. l # 0
  BY <1>1, <1>4
<1>6. PICK j \in Int : p.num = d * j
  <2>1. CASE p.num < 0
    <3>1. \A x \in Int, y \in Int : -x = y => x = -y
      OBVIOUS
    <3>2. p.num = -(d * k)
      BY <1>1, <1>3, <2>1, <3>1
    <3>3. -(d * k) = d * (-k) /\ -k \in Int
      OBVIOUS
    <3>4. QED
      BY <3>2, <3>3
  <2>2. CASE ~ (p.num < 0)
    BY <1>3, <2>2
  <2>3. QED
    BY <2>1, <2>2
<1>7. \A i \in Int : (d * i) \div d = i
  OBVIOUS
<1>8. Reduced(p) = Frac(p.num \div d, p.den \div d)
  BY <1>2 DEF Reduced
<1>9. Reduced(p) = Frac(j, l)
  BY <1>4, <1>6, <1>7, <1>8
<1>10. j * (d * l) = (d * j) * l
  OBVIOUS
<1>11. (d * j > 0 <=> j > 0) /\ (d * j >= 0 <=> j >= 0)
  OBVIOUS
<1>12. QED
  BY <1>4, <1>5, <1>6, <1>9, <1>10, <1>11 DEF Frac, Fraction, Same

----------------------------------------------------------------------------
(* The client's money: a bet holds the contracts that the fraction of the  *)
(* bankroll buys, under either strategy of the PositionSizer.              *)
Staked(b, wealth) ==
  Frac(b.fraction.num * wealth.num * One, b.fraction.den * wealth.den * b.price)

MoneyInv ==
  /\ bankroll \in Fraction
  /\ outcomes \in Seq(BOOLEAN)
  /\ bet # NoBet => bet \in Bet /\ bet.quantity = Reduced(Staked(bet, bankroll))

(* The price of what is staked is a fraction.                              *)
LEMMA StakeTyped ==
  ASSUME NEW f \in Fraction, NEW b \in Fraction, NEW price \in Price
  PROVE  Frac(f.num * b.num * One, f.den * b.den * price) \in Fraction
<1>1. /\ f.num \in Int /\ f.den \in Nat \ {0} /\ b.num \in Int /\ b.den \in Nat \ {0}
      /\ price \in Nat \ {0} /\ One \in Int
  BY NetOddsOfPrice, ServicesAssumption DEF Fraction
<1>2. f.num * b.num * One \in Int /\ f.den * b.den \in Nat \ {0}
  BY <1>1
<1>3. f.den * b.den * price \in Nat \ {0}
  BY <1>1, <1>2
<1>4. QED
  BY <1>2, <1>3 DEF Frac, Fraction

(* Both strategies buy the same.                                           *)
LEMMA StrategiesAgree ==
  ASSUME NEW f, NEW b, NEW price, NEW strategy \in {"kelly", "fixed_dollar"}
  PROVE  PositionSize(strategy, IF strategy = "kelly" THEN f ELSE Times(f, b), b, price)
           = Frac(f.num * b.num * One, f.den * b.den * price)
<1>1. CASE strategy = "kelly"
  BY <1>1 DEF PositionSize
<1>2. CASE strategy = "fixed_dollar"
  BY <1>2 DEF PositionSize, Times, Frac
<1>3. QED
  BY <1>1, <1>2

(* A resolved bet leaves what was not staked, and pays what it holds.      *)
LEMMA ResolveTyped ==
  ASSUME NEW won \in BOOLEAN, Resolve(won), MoneyInv
  PROVE  /\ Cost(bet) \in Fraction /\ Minus(bankroll, Cost(bet)) \in Fraction
         /\ Reduced(Minus(bankroll, Cost(bet))) \in Fraction
         /\ Plus(Reduced(Minus(bankroll, Cost(bet))), bet.quantity) \in Fraction
         /\ bankroll' \in Fraction
<1>1. bet \in Bet /\ bankroll \in Fraction
  BY DEF Resolve, MoneyInv
<1>2. bet.quantity \in Fraction /\ bet.price \in Price
  BY <1>1 DEF Bet
<1>3. \A a, b \in Fraction : Plus(a, b) \in Fraction /\ Minus(a, b) \in Fraction /\ Times(a, b) \in Fraction
  <2>1. TAKE a, b \in Fraction
  <2>2. PICK w \in Int, x \in Nat \ {0}, y \in Int, z \in Nat \ {0} :
          w = a.num /\ x = a.den /\ y = b.num /\ z = b.den
    BY DEF Fraction
  <2>3. x * z \in Nat \ {0} /\ w * z + y * x \in Int /\ w * z - y * x \in Int /\ w * y \in Int
    OBVIOUS
  <2>4. /\ Plus(a, b) = Frac(w * z + y * x, x * z) /\ Minus(a, b) = Frac(w * z - y * x, x * z)
        /\ Times(a, b) = Frac(w * y, x * z)
    BY <2>2 DEF Plus, Minus, Times
  <2>5. QED
    BY <2>3, <2>4 DEF Frac, Fraction
<1>4. Frac(bet.price, One) \in Fraction
  BY <1>2, NetOddsOfPrice, ServicesAssumption DEF Frac, Fraction
<1>5. Cost(bet) \in Fraction
  BY <1>2, <1>3, <1>4, ReducedIsSame DEF Cost
<1>6. Minus(bankroll, Cost(bet)) \in Fraction
  BY <1>1, <1>3, <1>5
<1>7. Reduced(Minus(bankroll, Cost(bet))) \in Fraction
  BY <1>6, ReducedIsSame
<1>8. Plus(Reduced(Minus(bankroll, Cost(bet))), bet.quantity) \in Fraction
  BY <1>2, <1>3, <1>7
<1>9. bankroll' \in Fraction
  BY <1>7, <1>8, ReducedIsSame DEF Resolve
<1>10. QED
  BY <1>5, <1>6, <1>7, <1>8, <1>9

(* Every step keeps the account of the money.                              *)
LEMMA MoneyHolds == Spec => []MoneyInv
<1>1. Init => MoneyInv
  BY DEF Init, MoneyInv, Frac, Fraction
<1>2. IInv /\ MoneyInv /\ [Next]_vars => MoneyInv'
  <2> SUFFICES ASSUME IInv, MoneyInv, [Next]_vars
               PROVE  MoneyInv'
    OBVIOUS
  <2>1. ASSUME UNCHANGED <<bet, bankroll, outcomes>>
        PROVE  MoneyInv'
    BY <2>1 DEF MoneyInv
  <2>2. ASSUME NEW price \in Price, NEW strategy \in {"kelly", "fixed_dollar"},
               PlaceBet(price, strategy)
        PROVE  MoneyInv'
    <3>1. PICK f : f = FractionalKelly(updater.current, NetOdds(price))
      OBVIOUS
    <3>2. IsProbability(updater.current) /\ updater.current \in Fraction
      BY <2>2 DEF PlaceBet, IInv, UpdaterInv, Probabilities, IsProbability
    <3>3. f \in Fraction
      BY <3>1, <3>2, NetOddsOfPrice, KellyBounds
    <3>4. PICK q : q = Frac(f.num * bankroll.num * One, f.den * bankroll.den * price)
      OBVIOUS
    <3>5. bankroll \in Fraction /\ q \in Fraction
      BY <3>3, <3>4, StakeTyped DEF MoneyInv
    <3>6. bet' = [ belief |-> updater.current, price |-> price, fraction |-> f,
                   quantity |-> Reduced(q) ]
      BY <2>2, <3>1, <3>4, StrategiesAgree DEF PlaceBet
    <3>7. Reduced(q) \in Fraction
      BY <3>5, ReducedIsSame
    <3>8. bet' \in Bet
      BY <3>2, <3>3, <3>6, <3>7 DEF Bet
    <3>9. bet'.quantity = Reduced(Staked(bet', bankroll))
      BY <3>4, <3>6 DEF Staked
    <3>10. QED
      BY <2>2, <3>8, <3>9 DEF PlaceBet, MoneyInv
  <2>3. ASSUME NEW won \in BOOLEAN, Resolve(won)
        PROVE  MoneyInv'
    <3>1. bankroll' \in Fraction
      BY <2>3, ResolveTyped
    <3>2. outcomes' \in Seq(BOOLEAN)
      BY <2>3 DEF Resolve, MoneyInv
    <3>3. QED
      BY <2>3, <3>1, <3>2 DEF Resolve, MoneyInv
  <2>4. \/ UNCHANGED <<bet, bankroll, outcomes>>
        \/ \E price \in Price, strategy \in {"kelly", "fixed_dollar"} : PlaceBet(price, strategy)
        \/ \E won \in BOOLEAN : Resolve(won)
    BY DEF Next, vars, OpenAtPrice, OpenAtBaseRate, OpenAtOpinion, Open, Learn
  <2>5. QED
    BY <2>1, <2>2, <2>3, <2>4
<1>3. QED
  BY <1>1, <1>2, Inductive, PTL DEF Spec

(* Types hold for any book, analyst, evidence and record of outcomes.      *)
THEOREM TypeCorrect == Spec => []TypeOK
<1>1. IInv /\ MoneyInv => TypeOK
  BY DEF IInv, UpdaterInv, Probabilities, MoneyInv, TypeOK
<1>2. QED
  BY <1>1, Inductive, MoneyHolds, PTL

----------------------------------------------------------------------------
(* What is left of a positive bankroll b when a fraction f < 1 of it is    *)
(* staked, if the stake q is what f buys and c what q costs.               *)
LEMMA SomethingIsLeft ==
  ASSUME NEW fn \in Nat, NEW fd \in Nat \ {0}, fn < fd,
         NEW bn \in Nat \ {0}, NEW bd \in Nat \ {0},
         NEW price \in Nat \ {0}, NEW one \in Nat \ {0},
         NEW qn \in Int, NEW qd \in Nat \ {0},
         qn * (fd * bd * price) = (fn * bn * one) * qd,
         NEW cn \in Int, NEW cd \in Nat \ {0},
         cn * (qd * one) = (qn * price) * cd
  PROVE  qn >= 0 /\ bn * cd - cn * bd > 0
<1>1. qn >= 0
  <2>1. PICK x \in Nat \ {0} : x = fd * bd * price
    <3>1. fd * bd \in Nat \ {0}
      OBVIOUS
    <3>2. fd * bd * price \in Nat \ {0}
      BY <3>1
    <3>3. QED
      BY <3>2
  <2>2. PICK y \in Nat : y = (fn * bn * one) * qd
    <3>1. fn * bn \in Nat
      OBVIOUS
    <3>2. fn * bn * one \in Nat
      BY <3>1
    <3>3. (fn * bn * one) * qd \in Nat
      BY <3>2
    <3>4. QED
      BY <3>3
  <2>3. qn * x = y
    BY <2>1, <2>2
  <2>4. qn < 0 => qn * x < 0
    OBVIOUS
  <2>5. QED
    BY <2>2, <2>3, <2>4
<1>2. cn * (fd * bd) = (fn * bn) * cd
  <2>1. PICK z \in Nat \ {0} : z = qd * one
    <3>1. qd * one \in Nat \ {0}
      OBVIOUS
    <3>2. QED
      BY <3>1
  <2>2. (cn * (fd * bd)) * z = (cn * (qd * one)) * (fd * bd)
    BY <2>1
  <2>3. (cn * (qd * one)) * (fd * bd) = ((qn * price) * cd) * (fd * bd)
    OBVIOUS
  <2>4. ((qn * price) * cd) * (fd * bd) = (qn * (fd * bd * price)) * cd
    OBVIOUS
  <2>5. (qn * (fd * bd * price)) * cd = ((fn * bn * one) * qd) * cd
    OBVIOUS
  <2>6. ((fn * bn * one) * qd) * cd = ((fn * bn) * cd) * z
    BY <2>1
  <2>7. PICK x \in Int, y \in Int : x = cn * (fd * bd) /\ y = (fn * bn) * cd
    OBVIOUS
  <2>8. x * z = y * z
    BY <2>2, <2>3, <2>4, <2>5, <2>6, <2>7
  <2>9. x = y
    BY <2>8
  <2>10. QED
    BY <2>7, <2>9
<1>3. (bn * cd - cn * bd) * fd = (bn * cd) * (fd - fn)
  <2>1. (bn * cd - cn * bd) * fd = (bn * cd) * fd - cn * (fd * bd)
    OBVIOUS
  <2>2. (bn * cd) * (fd - fn) = (bn * cd) * fd - (fn * bn) * cd
    OBVIOUS
  <2>3. QED
    BY <1>2, <2>1, <2>2
<1>4. (bn * cd) * (fd - fn) > 0
  <2>1. bn * cd \in Nat \ {0} /\ fd - fn \in Nat \ {0}
    OBVIOUS
  <2>2. \A x, y \in Nat \ {0} : x * y > 0
    OBVIOUS
  <2>3. QED
    BY <2>1, <2>2
<1>5. bn * cd - cn * bd > 0
  <2>1. PICK x \in Int : x = bn * cd - cn * bd
    OBVIOUS
  <2>2. x * fd > 0
    BY <1>3, <1>4, <2>1
  <2>3. x <= 0 => x * fd <= 0
    OBVIOUS
  <2>4. QED
    BY <2>1, <2>2, <2>3
<1>6. QED
  BY <1>1, <1>5

(* A fraction of Kelly, or a cap, below the whole keeps every stake so.    *)
LEMMA StakeBelowAll ==
  ASSUME KellyFraction.num < KellyFraction.den \/ MaxFraction.num < MaxFraction.den,
         NEW p, IsProbability(p), NEW price \in Price
  PROVE  LET f == FractionalKelly(p, NetOdds(price))
         IN f.num \in Nat /\ f.den \in Nat \ {0} /\ f.num < f.den
<1>1. PICK f : f = FractionalKelly(p, NetOdds(price))
  OBVIOUS
<1>2. /\ f \in Fraction /\ f.num >= 0 /\ Leq(f, MaxFraction)
      /\ KellyFraction.num < KellyFraction.den => f.num < f.den
  BY <1>1, NetOddsOfPrice, KellyBounds
<1>3. PICK a \in Nat, b \in Nat \ {0} : a = f.num /\ b = f.den
  BY <1>2 DEF Fraction
<1>4. PICK m \in Nat \ {0}, n \in Nat \ {0} : m = MaxFraction.num /\ n = MaxFraction.den
  BY ServicesAssumption DEF Fraction
<1>5. m < n => a < b
  <2>1. a * n <= m * b
    BY <1>2, <1>3, <1>4 DEF Leq
  <2>2. SUFFICES ASSUME m < n, b <= a PROVE FALSE
    OBVIOUS
  <2>3. b * n <= a * n
    BY <2>2, TimesKeepsOrder
  <2>4. m * b < n * b
    BY <2>2
  <2>5. b * n \in Int /\ a * n \in Int /\ m * b \in Int /\ n * b = b * n
    OBVIOUS
  <2>6. QED
    BY <2>1, <2>3, <2>4, <2>5
<1>6. QED
  BY <1>1, <1>2, <1>3, <1>4, <1>5

(* The client is never ruined, however long the losses last, unless it     *)
(* stakes full Kelly with no cap: certain then, it stakes everything.      *)
THEOREM ClientSurvives ==
  ASSUME KellyFraction.num < KellyFraction.den \/ MaxFraction.num < MaxFraction.den
  PROVE  Spec => []NeverRuined
<1>1. Init => NeverRuined
  BY DEF Init, NeverRuined, Frac
<1>2. IInv /\ MoneyInv /\ NeverRuined /\ [Next]_vars => NeverRuined'
  <2> SUFFICES ASSUME IInv, MoneyInv, NeverRuined, [Next]_vars
               PROVE  NeverRuined'
    OBVIOUS
  <2>1. ASSUME NEW won \in BOOLEAN, Resolve(won)
        PROVE  NeverRuined'
    <3>1. PICK f : f = bet.fraction
      OBVIOUS
    <3>2. /\ bet \in Bet /\ bet # NoBet /\ bankroll \in Fraction /\ bankroll.num > 0
          /\ bet.quantity = Reduced(Staked(bet, bankroll))
      BY <2>1 DEF Resolve, MoneyInv, NeverRuined
    <3>3. f.num \in Nat /\ f.den \in Nat \ {0} /\ f.num < f.den /\ f \in Fraction
      BY <3>1, <3>2, StakeBelowAll DEF IInv, BetInv, Bet
    <3>4. PICK price \in Nat \ {0} : price = bet.price
      BY <3>2, NetOddsOfPrice DEF Bet
    <3>5. PICK bn \in Nat \ {0}, bd \in Nat \ {0} : bn = bankroll.num /\ bd = bankroll.den
      BY <3>2 DEF Fraction
    <3>6. Staked(bet, bankroll) = Frac(f.num * bn * One, f.den * bd * price)
      BY <3>1, <3>4, <3>5 DEF Staked
    <3>7. Staked(bet, bankroll) \in Fraction
      BY <3>1, <3>2, <3>3, StakeTyped DEF Staked, Bet
    <3>8. PICK qn \in Int, qd \in Nat \ {0} : qn = bet.quantity.num /\ qd = bet.quantity.den
      BY <3>2 DEF Bet, Fraction
    <3>9. qn * (f.den * bd * price) = (f.num * bn * One) * qd
      <4>1. Same(bet.quantity, Staked(bet, bankroll))
        BY <3>2, <3>7, ReducedIsSame
      <4>2. QED
        BY <3>6, <3>8, <4>1 DEF Same, Frac
    <3>10. PICK c \in Fraction : c = Cost(bet) /\ Minus(bankroll, c) \in Fraction
      BY <2>1, ResolveTyped
    <3>11. PICK cn \in Int, cd \in Nat \ {0} : cn = c.num /\ cd = c.den
      BY DEF Fraction
    <3>12. cn * (qd * One) = (qn * price) * cd
      <4>1. Times(bet.quantity, Frac(bet.price, One)) = Frac(qn * price, qd * One)
        BY <3>4, <3>8 DEF Times, Frac
      <4>2. qd * One \in Nat \ {0} /\ qn * price \in Int
        BY ServicesAssumption
      <4>3. Frac(qn * price, qd * One) \in Fraction
        BY <4>2 DEF Frac, Fraction
      <4>4. Same(c, Frac(qn * price, qd * One))
        BY <3>10, <4>1, <4>3, ReducedIsSame DEF Cost
      <4>5. QED
        BY <3>11, <4>4 DEF Same, Frac
    <3>13. qn >= 0 /\ bn * cd - cn * bd > 0
      BY SMTT(40), <3>3, <3>9, <3>12, SomethingIsLeft, ServicesAssumption
    <3>14. PICK kept \in Fraction : kept = Reduced(Minus(bankroll, c))
      BY <3>10, ReducedIsSame
    <3>15. kept.num > 0
      <4>1. Minus(bankroll, c).num = bn * cd - cn * bd
        BY <3>5, <3>11 DEF Minus, Frac
      <4>2. QED
        BY <3>10, <3>13, <3>14, <4>1, ReducedIsSame
    <3>16. /\ Plus(kept, bet.quantity) \in Fraction
           /\ bankroll' = Reduced(IF won THEN Plus(kept, bet.quantity) ELSE kept)
      BY <2>1, <3>10, <3>14, ResolveTyped DEF Resolve
    <3>17. Plus(kept, bet.quantity).num > 0
      <4>1. PICK kn \in Nat \ {0}, kd \in Nat \ {0} : kn = kept.num /\ kd = kept.den
        BY <3>15 DEF Fraction
      <4>2. Plus(kept, bet.quantity).num = kn * qd + qn * kd
        BY <3>8, <4>1 DEF Plus, Frac
      <4>3. kn * qd > 0 /\ qn * kd >= 0 /\ kn * qd \in Int /\ qn * kd \in Int
        BY <3>13
      <4>4. QED
        BY <4>2, <4>3
    <3>18. bankroll'.num > 0
      BY <3>15, <3>16, <3>17, ReducedIsSame
    <3>19. QED
      BY <3>18 DEF NeverRuined
  <2>2. UNCHANGED bankroll \/ \E won \in BOOLEAN : Resolve(won)
    BY DEF Next, vars, OpenAtPrice, OpenAtBaseRate, OpenAtOpinion, Open, Learn, PlaceBet
  <2>3. QED
    BY <2>1, <2>2 DEF NeverRuined
<1>3. QED
  BY <1>1, <1>2, Inductive, MoneyHolds, PTL DEF Spec

----------------------------------------------------------------------------
(* The fold of brier_score: fractions added up and reduced as they come.   *)
AddsUp(g, f) ==
  g = [ s \in SUBSET DOMAIN f |->
          IF s = {} THEN Zero ELSE Reduced(Plus(f[Some(s)], g[s \ {Some(s)}])) ]

(* Fractions add up to fractions.                                          *)
LEMMA FractionsPlus ==
  \A a, b \in Fraction : Plus(a, b) \in Fraction /\ Reduced(Plus(a, b)) \in Fraction
<1>1. TAKE a, b \in Fraction
<1>2. PICK w \in Int, x \in Nat \ {0}, y \in Int, z \in Nat \ {0} :
        w = a.num /\ x = a.den /\ y = b.num /\ z = b.den
  BY DEF Fraction
<1>3. x * z \in Nat \ {0} /\ w * z + y * x \in Int
  OBVIOUS
<1>4. Plus(a, b) = Frac(w * z + y * x, x * z)
  BY <1>2 DEF Plus
<1>5. Plus(a, b) \in Fraction
  BY <1>3, <1>4 DEF Frac, Fraction
<1>6. QED
  BY <1>5, ReducedIsSame

(* The fold's recursive definition has a solution.                         *)
LEMMA AdditionExists ==
  ASSUME NEW S, IsFiniteSet(S), NEW f \in [S -> Fraction]
  PROVE  \E g : AddsUp(g, f)
<1>1. PICK step : step = [ p \in S \X Fraction |-> Reduced(Plus(f[p[1]], p[2])) ]
  OBVIOUS
<1>2. /\ step \in [S \X Fraction -> Fraction]
      /\ \A x \in S, y \in Fraction : step[<<x, y>>] = Reduced(Plus(f[x], y))
  BY <1>1, FractionsPlus
<1>3. Zero \in Fraction
  BY DEF Zero, Frac, Fraction
<1>4. PICK g \in [SUBSET S -> Fraction] : FoldOf(g, Zero, step, S)
  BY <1>2, <1>3, FoldExists
<1>5. ASSUME NEW s \in SUBSET S
      PROVE  g[s] = IF s = {} THEN Zero ELSE Reduced(Plus(f[Some(s)], g[s \ {Some(s)}]))
  <2>1. s # {} => Some(s) \in S /\ g[s \ {Some(s)}] \in Fraction
    BY SomeIsIn
  <2>2. QED
    BY <1>2, <1>4, <2>1 DEF FoldOf
<1>6. AddsUp(g, f)
  BY <1>5 DEF AddsUp
<1>7. QED
  BY <1>6

(* An addition of reduced fractions, of the same denominator d.            *)
LEMMA AddSame ==
  ASSUME NEW d \in Nat \ {0}, NEW w \in Int, NEW t \in Int,
         NEW q \in Fraction, Same(q, Frac(t, d))
  PROVE  Same(Reduced(Plus(Frac(w, d), q)), Frac(w + t, d))
<1>1. PICK x \in Int, y \in Nat \ {0} : x = q.num /\ y = q.den
  BY DEF Fraction
<1>2. x * d = t * y
  BY <1>1 DEF Same, Frac
<1>3. Plus(Frac(w, d), q) = Frac(w * y + x * d, d * y)
  BY <1>1 DEF Plus, Frac
<1>4. d * y \in Nat \ {0} /\ w * y + x * d \in Int
  OBVIOUS
<1>5. PICK r \in Fraction : r = Reduced(Plus(Frac(w, d), q)) /\ Same(r, Frac(w * y + x * d, d * y))
  <2>1. Frac(w * y + x * d, d * y) \in Fraction
    BY <1>4 DEF Frac, Fraction
  <2>2. QED
    BY <1>3, <2>1, ReducedIsSame
<1>6. PICK m \in Int, n \in Nat \ {0} : m = r.num /\ n = r.den
  BY DEF Fraction
<1>7. m * (d * y) = (w * y + x * d) * n
  BY <1>5, <1>6 DEF Same, Frac
<1>8. (m * d) * y = ((w + t) * n) * y
  <2>1. (m * d) * y = m * (d * y)
    OBVIOUS
  <2>2. (w * y + x * d) * n = (w * y + t * y) * n
    BY <1>2
  <2>3. (w * y + t * y) * n = ((w + t) * n) * y
    OBVIOUS
  <2>4. QED
    BY <1>7, <2>1, <2>2, <2>3
<1>9. m * d = (w + t) * n
  <2>1. PICK a \in Int, b \in Int : a = m * d /\ b = (w + t) * n
    OBVIOUS
  <2>2. a * y = b * y
    BY <1>8, <2>1
  <2>3. a = b
    BY <2>2
  <2>4. QED
    BY <2>1, <2>3
<1>10. QED
  BY <1>5, <1>6, <1>9 DEF Same, Frac

(* Adding up u / d for the elements of A and v / d for the others.         *)
LEMMA AddsUpTwo ==
  ASSUME NEW S, IsFiniteSet(S), NEW A, A \subseteq S, NEW u \in Int, NEW v \in Int, NEW d \in Nat \ {0},
         NEW f, f = [ i \in S |-> Frac(IF i \in A THEN u ELSE v, d) ],
         NEW g, AddsUp(g, f)
  PROVE  /\ Cardinality(A) \in Nat /\ Cardinality(S \ A) \in Nat
         /\ g[S] \in Fraction
         /\ Same(g[S], Frac(Cardinality(A) * u + Cardinality(S \ A) * v, d))
<1> DEFINE Right(s) == /\ g[s] \in Fraction
                       /\ Same(g[s], Frac(Cardinality(s \cap A) * u + Cardinality(s \ A) * v, d))
           P == { n \in Nat : \A s \in SUBSET S : Cardinality(s) = n => Right(s) }
<1>0. \A s \in SUBSET S : /\ Cardinality(s) \in Nat /\ IsFiniteSet(s)
                          /\ IsFiniteSet(s \cap A) /\ Cardinality(s \cap A) \in Nat
                          /\ IsFiniteSet(s \ A) /\ Cardinality(s \ A) \in Nat
  <2>1. TAKE s \in SUBSET S
  <2>2. s \cap A \in SUBSET S /\ s \ A \in SUBSET S
    OBVIOUS
  <2>3. IsFiniteSet(s) /\ IsFiniteSet(s \cap A) /\ IsFiniteSet(s \ A)
    BY <2>2, FS_Subset
  <2>4. QED
    BY <2>3, FS_CardinalityType
<1>1. \A s \in SUBSET S : g[s] = IF s = {} THEN Zero
                                 ELSE Reduced(Plus(f[Some(s)], g[s \ {Some(s)}]))
  BY DEF AddsUp
<1>2. 0 \in P
  <2>1. ASSUME NEW s \in SUBSET S, Cardinality(s) = 0 PROVE Right(s)
    <3>1. s = {} /\ s \cap A = {} /\ s \ A = {}
      BY <1>0, <2>1, FS_EmptySet
    <3>2. Cardinality(s \cap A) = 0 /\ Cardinality(s \ A) = 0
      BY <3>1, FS_EmptySet
    <3>3. g[s] = Zero
      BY <1>1, <3>1
    <3>4. 0 * u + 0 * v = 0 /\ 0 * d = 0 * 1
      OBVIOUS
    <3>5. QED
      BY <3>2, <3>3, <3>4 DEF Zero, Frac, Fraction, Same
  <2> HIDE DEF Right
  <2>2. QED
    BY <2>1
<1>3. ASSUME NEW n \in P PROVE n + 1 \in P
  <2>1. SUFFICES ASSUME NEW s \in SUBSET S, Cardinality(s) = n + 1
                 PROVE  Right(s)
    OBVIOUS
  <2>2. s # {}
    BY <2>1, FS_EmptySet
  <2>3. PICK x : x = Some(s) /\ x \in s
    BY <2>2, SomeIsIn
  <2>4. PICK rest \in SUBSET S : rest = s \ {x} /\ Cardinality(rest) = n
    <3>1. Cardinality(s \ {x}) = Cardinality(s) - 1 /\ s \ {x} \in SUBSET S
      BY <2>3, TakeSome
    <3>2. QED
      BY <2>1, <3>1
  <2>5. PICK q \in Fraction, j \in Nat, k \in Nat :
          /\ q = g[rest] /\ j = Cardinality(rest \cap A) /\ k = Cardinality(rest \ A)
          /\ Same(q, Frac(j * u + k * v, d))
    BY <1>0, <2>4
  <2>6. PICK w \in Int : w = (IF x \in A THEN u ELSE v) /\ f[x] = Frac(w, d)
    BY <2>3
  <2>7. g[s] = Reduced(Plus(Frac(w, d), q))
    BY <1>1, <2>2, <2>3, <2>4, <2>5, <2>6
  <2>8. PICK t \in Int : t = j * u + k * v
    OBVIOUS
  <2>9. Same(g[s], Frac(w + t, d))
    BY <2>5, <2>7, <2>8, AddSame
  <2>10. g[s] \in Fraction
    <3>1. Frac(w, d) \in Fraction
      BY DEF Frac, Fraction
    <3>2. QED
      BY <2>7, <3>1, FractionsPlus
  <2>11. w + t = Cardinality(s \cap A) * u + Cardinality(s \ A) * v
    <3>1. CASE x \in A
      <4>1. s \cap A = (rest \cap A) \union {x} /\ s \ A = rest \ A /\ x \notin rest \cap A
        BY <2>3, <2>4, <3>1
      <4>2. Cardinality(s \cap A) = j + 1 /\ Cardinality(s \ A) = k
        BY <1>0, <2>4, <2>5, <4>1, FS_AddElement
      <4>3. (j + 1) * u + k * v = u + (j * u + k * v)
        OBVIOUS
      <4>4. QED
        BY <2>6, <2>8, <3>1, <4>2, <4>3
    <3>2. CASE x \notin A
      <4>1. s \ A = (rest \ A) \union {x} /\ s \cap A = rest \cap A /\ x \notin rest \ A
        BY <2>3, <2>4, <3>2
      <4>2. Cardinality(s \ A) = k + 1 /\ Cardinality(s \cap A) = j
        BY <1>0, <2>4, <2>5, <4>1, FS_AddElement
      <4>3. j * u + (k + 1) * v = v + (j * u + k * v)
        OBVIOUS
      <4>4. QED
        BY <2>6, <2>8, <3>2, <4>2, <4>3
    <3>3. QED
      BY <3>1, <3>2
  <2>12. QED
    BY <2>9, <2>10, <2>11
<1>4. P = Nat
  <2> HIDE DEF P
  <2>1. P \in SUBSET Nat
    BY DEF P
  <2>2. QED
    BY <1>2, <1>3, <2>1, NaturalInduction
<1>5. Right(S)
  BY <1>0, <1>4
<1>6. S \cap A = A
  OBVIOUS
<1>7. Cardinality(S \cap A) = Cardinality(A)
  BY <1>6, Zenon
<1>8. QED
  BY <1>0, <1>5, <1>7

(* How many markets of a record were won, and the score of one forecast    *)
(* made for each of them.                                                  *)
WonIn(outs) == Cardinality({ i \in DOMAIN outs : outs[i] })

ScoreOf(outs, a, b) == BrierScore([ i \in DOMAIN outs |-> Frac(a, b) ], outs)

(* The Brier score of a forecast a / b made for each of w + l markets, of  *)
(* which w were won, is (w * (b - a)^2 + l * a^2) / ((w + l) * b^2).       *)
ScoreIs(score, w, l, a, b) ==
  /\ score \in Fraction
  /\ score.num * ((w + l) * (b * b)) = (w * ((b - a) * (b - a)) + l * (a * a)) * score.den

(* brier_score of such a record is what the formula says.                  *)
LEMMA BrierOfConstant ==
  ASSUME NEW outs \in Seq(BOOLEAN), outs # <<>>,
         NEW a \in Int, NEW b \in Nat \ {0},
         NEW w, w = WonIn(outs), NEW l, l = Len(outs) - w,
         NEW score, score = ScoreOf(outs, a, b)
  PROVE  /\ w \in Nat /\ l \in Nat /\ Len(outs) = w + l /\ w + l # 0
         /\ ScoreIs(score, w, l, a, b)
<1> DEFINE S == DOMAIN outs
           A == { i \in DOMAIN outs : outs[i] }
           forecasts == [ i \in DOMAIN outs |-> Frac(a, b) ]
           u == (b - a) * (b - a)
           v == a * a
           d == b * b
           outcome(i) == Frac(IF outs[i] THEN 1 ELSE 0, 1)
           error(i) == Minus(forecasts[i], outcome(i))
           f == [ i \in DOMAIN forecasts |-> Times(error(i), error(i)) ]
           sum == CHOOSE g : AddsUp(g, f)
<1>0. w = Cardinality(A) /\ score = BrierScore(forecasts, outs)
  BY DEF WonIn, ScoreOf
<1>1. Len(outs) \in Nat \ {0} /\ S = 1..Len(outs) /\ IsFiniteSet(S) /\ Cardinality(S) = Len(outs)
  <2>1. Len(outs) \in Nat \ {0} /\ S = 1..Len(outs)
    OBVIOUS
  <2>2. QED
    BY <2>1, FS_Interval
<1>2. A \subseteq S /\ IsFiniteSet(A) /\ IsFiniteSet(S \ A)
      /\ w \in Nat /\ Cardinality(S \ A) \in Nat /\ Cardinality(S \ A) = l
  <2>1. A \subseteq S /\ S \ A \subseteq S /\ S \cap A = A
    OBVIOUS
  <2>2. IsFiniteSet(A) /\ IsFiniteSet(S \ A)
    BY <1>1, <2>1, FS_Subset
  <2>3. w \in Nat /\ Cardinality(S \ A) \in Nat
    BY <1>0, <2>2, FS_CardinalityType
  <2>4. Cardinality(S \ A) = Cardinality(S) - Cardinality(S \cap A)
    BY <1>1, FS_Difference
  <2>5. Cardinality(S \cap A) = w
    BY <1>0, <2>1, Zenon
  <2>6. QED
    BY <1>1, <2>1, <2>2, <2>3, <2>4, <2>5
<1>n. l \in Nat /\ Len(outs) = w + l
  BY <1>1, <1>2
<1>3. u \in Int /\ v \in Int /\ d \in Nat \ {0}
  OBVIOUS
<1>4. ASSUME NEW i \in S PROVE Times(error(i), error(i)) = Frac(IF i \in A THEN u ELSE v, d)
  <2>1. forecasts[i] = Frac(a, b)
    OBVIOUS
  <2>2. CASE outs[i]
    <3>1. error(i) = Frac(a * 1 - 1 * b, b * 1)
      BY <2>1, <2>2 DEF Minus, Frac
    <3>2. a * 1 - 1 * b = a - b /\ b * 1 = b /\ (a - b) * (a - b) = (b - a) * (b - a)
      OBVIOUS
    <3>3. error(i) = Frac(a - b, b)
      BY <3>1, <3>2
    <3> HIDE DEF error
    <3>4. Times(error(i), error(i)) = Frac((a - b) * (a - b), b * b)
      BY <3>3 DEF Times, Frac
    <3>5. QED
      BY <2>2, <3>2, <3>4
  <2>3. CASE ~ outs[i]
    <3>1. error(i) = Frac(a * 1 - 0 * b, b * 1)
      BY <2>1, <2>3 DEF Minus, Frac
    <3>2. a * 1 - 0 * b = a /\ b * 1 = b
      OBVIOUS
    <3>3. error(i) = Frac(a, b)
      BY <3>1, <3>2
    <3> HIDE DEF error
    <3>4. Times(error(i), error(i)) = Frac(a * a, b * b)
      BY <3>3 DEF Times, Frac
    <3>5. QED
      BY <2>3, <3>4
  <2>4. QED
    BY <2>2, <2>3
<1>5. f = [ i \in S |-> Frac(IF i \in A THEN u ELSE v, d) ]
  <2> HIDE DEF u, v, d, A
  <2>1. DOMAIN forecasts = S
    OBVIOUS
  <2> HIDE DEF error
  <2>2. QED
    BY <1>4, <2>1
<1>6. f \in [S -> Fraction] /\ DOMAIN f = S
  <2> HIDE DEF u, v, d, f, S, A
  <2>1. \A i \in S : Frac(IF i \in A THEN u ELSE v, d) \in Fraction
    BY <1>3 DEF Frac, Fraction
  <2>2. QED
    BY <1>5, <2>1
<1>7. AddsUp(sum, f)
  <2> HIDE DEF f, S
  <2>1. \E g : AddsUp(g, f)
    BY <1>1, <1>6, AdditionExists
  <2>2. QED
    BY <2>1
<1>8. score = Times(sum[DOMAIN f], Frac(1, Len(forecasts)))
  BY <1>0 DEF BrierScore, FoldFunction, FoldFunctionOnSet, MapThenFoldSet, AddsUp, Some
<1> HIDE DEF f, sum, u, v, d, S, A
<1>9. PICK q \in Fraction : q = sum[S] /\ Same(q, Frac(w * u + l * v, d))
  <2>1. Cardinality(A) = w
    BY <1>0
  <2>2. QED
    BY <1>1, <1>2, <1>3, <1>5, <1>7, <2>1, AddsUpTwo
<1>10. PICK x \in Int, y \in Nat \ {0} : x = q.num /\ y = q.den
  BY DEF Fraction
<1>11. Len(forecasts) = Len(outs)
  <2>1. forecasts = [ i \in 1..Len(outs) |-> Frac(a, b) ]
    BY <1>1 DEF S
  <2>2. QED
    BY <1>1, <2>1
<1>12. PICK n \in Nat \ {0} : n = w + l /\ n = Len(outs)
  BY <1>1, <1>n
<1>13. score = Frac(x * 1, y * n)
  BY <1>6, <1>8, <1>9, <1>10, <1>11, <1>12 DEF Times, Frac
<1>14. x * d = (w * u + l * v) * y
  BY <1>9, <1>10 DEF Same, Frac
<1>15. y * n \in Nat \ {0} /\ x * 1 = x
  OBVIOUS
<1>16. score \in Fraction /\ score.num = x /\ score.den = y * n
  BY <1>13, <1>15 DEF Frac, Fraction
<1>17. PICK t \in Int : t = w * u + l * v
  <2>1. \A i, j, k, m \in Int : i * j + k * m \in Int
    OBVIOUS
  <2>2. w \in Int /\ l \in Int
    BY <1>2, <1>n
  <2>3. w * u + l * v \in Int
    BY <1>3, <2>1, <2>2
  <2>4. QED
    BY <2>3
<1>18. x * (n * d) = t * (y * n)
  <2>1. x * (n * d) = (x * d) * n
    BY <1>3
  <2>2. (t * y) * n = t * (y * n)
    OBVIOUS
  <2>3. QED
    BY <1>14, <1>17, <2>1, <2>2
<1>19. QED
  BY <1>1, <1>2, <1>n, <1>12, <1>16, <1>17, <1>18 DEF d, u, v, ScoreIs

(* The mean minimises the squared error:                                   *)
(* (w * c^2 + l * a^2) * (w + l) - w * l * (a + c)^2 = (w * c - l * a)^2.  *)
LEMMA MeanIsBest ==
  ASSUME NEW w \in Nat, NEW l \in Nat, NEW a \in Int, NEW c \in Int
  PROVE  (w * l) * ((a + c) * (a + c)) <= (w * (c * c) + l * (a * a)) * (w + l)
<1>1. (w * (c * c) + l * (a * a)) * (w + l) - (w * l) * ((a + c) * (a + c))
        = (w * c - l * a) * (w * c - l * a)
  OBVIOUS
<1>2. \A x \in Int : x * x >= 0
  OBVIOUS
<1>3. w * c - l * a \in Int
  OBVIOUS
<1>4. (w * c - l * a) * (w * c - l * a) >= 0
  BY <1>2, <1>3
<1>5. PICK x \in Int, y \in Int : x = (w * (c * c) + l * (a * a)) * (w + l)
                                  /\ y = (w * l) * ((a + c) * (a + c))
  OBVIOUS
<1>6. x - y >= 0
  BY <1>1, <1>4, <1>5
<1>7. y <= x
  BY <1>6
<1>8. QED
  BY <1>5, <1>7

(* Scores x / y of mean squared errors t / d that are so ordered are so.   *)
LEMMA ScoresOrdered ==
  ASSUME NEW x0 \in Int, NEW y0 \in Nat \ {0}, NEW t0 \in Int, NEW d0 \in Nat \ {0},
         x0 * d0 = t0 * y0,
         NEW x1 \in Int, NEW y1 \in Nat \ {0}, NEW t1 \in Int, NEW d1 \in Nat \ {0},
         x1 * d1 = t1 * y1,
         t0 * d1 <= t1 * d0
  PROVE  x0 * y1 <= x1 * y0
<1>1. PICK y \in Nat \ {0} : y = y0 * y1
  OBVIOUS
<1>2. PICK d \in Nat \ {0} : d = d0 * d1
  OBVIOUS
<1>3. PICK a \in Int, b \in Int : a = t0 * d1 /\ b = t1 * d0 /\ a <= b
  OBVIOUS
<1>4. a * y <= b * y
  BY <1>3, TimesKeepsOrder
<1>5. (x0 * y1) * d = a * y
  <2>1. (x0 * y1) * d = (x0 * d0) * (y1 * d1)
    BY <1>2
  <2>2. (t0 * y0) * (y1 * d1) = a * y
    BY <1>1, <1>3
  <2>3. QED
    BY <2>1, <2>2
<1>6. (x1 * y0) * d = b * y
  <2>1. (x1 * y0) * d = (x1 * d1) * (y0 * d0)
    BY <1>2
  <2>2. (t1 * y1) * (y0 * d0) = b * y
    BY <1>1, <1>3
  <2>3. QED
    BY <2>1, <2>2
<1>7. PICK m \in Int, n \in Int : m = x0 * y1 /\ n = x1 * y0
  OBVIOUS
<1>8. m * d <= n * d
  BY <1>4, <1>5, <1>6, <1>7
<1>9. m <= n
  <2>1. n < m => n * d < m * d
    BY <1>2
  <2>2. m * d \in Int /\ n * d \in Int
    OBVIOUS
  <2>3. QED
    BY <1>8, <2>1, <2>2
<1>10. QED
  BY <1>7, <1>9

(* The base rate of a record is the best constant forecast of it.          *)
LEMMA BaseRateWins ==
  ASSUME NEW outs \in Seq(BOOLEAN), outs # <<>>,
         NEW wins, wins = WonIn(outs),
         NEW a \in Int, NEW b \in Nat \ {0},
         NEW base, base = [ i \in DOMAIN outs |-> BaseRate(wins, Len(outs), 0) ],
         NEW other, other = [ i \in DOMAIN outs |-> Frac(a, b) ]
  PROVE  Leq(BrierScore(base, outs), BrierScore(other, outs))
<1>1. PICK losses : losses = Len(outs) - wins
  OBVIOUS
<1>2. PICK s : s = BrierScore(other, outs) /\ s = ScoreOf(outs, a, b)
  BY DEF ScoreOf
<1>0. /\ wins \in Nat /\ losses \in Nat /\ Len(outs) = wins + losses /\ wins + losses # 0
      /\ ScoreIs(s, wins, losses, a, b)
  BY <1>1, <1>2, BrierOfConstant
<1>z. PICK w \in Nat, l \in Nat : w = wins /\ l = losses
  BY <1>0, Zenon
<1>3. /\ Len(outs) = w + l /\ w + l # 0
      /\ s \in Fraction
      /\ s.num * ((w + l) * (b * b)) = (w * ((b - a) * (b - a)) + l * (a * a)) * s.den
  <2>1. Len(outs) = w + l /\ w + l # 0 /\ ScoreIs(s, w, l, a, b)
    BY <1>0, <1>z, Zenon
  <2>2. QED
    BY <2>1 DEF ScoreIs
<1>4. PICK n \in Nat \ {0} : n = w + l
  <2>1. w + l \in Nat \ {0}
    <3>1. w + l # 0
      BY <1>3
    <3>2. QED
      BY <3>1
  <2>2. QED
    BY <2>1
<1>5. base = [ i \in DOMAIN outs |-> Frac(w, n) ]
  <2>1. w + 0 = w /\ n + 2 * 0 = n
    OBVIOUS
  <2>2. Len(outs) = n
    BY <1>3, <1>4, Zenon
  <2>3. BaseRate(wins, Len(outs), 0) = Frac(w, n)
    BY <1>z, <2>1, <2>2 DEF BaseRate
  <2>4. QED
    BY <2>3
<1>6. PICK r : r = BrierScore(base, outs) /\ r = ScoreOf(outs, w, n)
  BY <1>5 DEF ScoreOf
<1>7. /\ r \in Fraction
      /\ r.num * ((w + l) * (n * n)) = (w * ((n - w) * (n - w)) + l * (w * w)) * r.den
  <2>1. w = WonIn(outs) /\ l = Len(outs) - w
    BY <1>1, <1>z
  <2>2. w \in Int
    OBVIOUS
  <2>3. ScoreIs(r, w, l, w, n)
    BY <1>6, <2>1, <2>2, BrierOfConstant
  <2>4. QED
    BY <2>3 DEF ScoreIs
<1>8. PICK x0 \in Int, y0 \in Nat \ {0} : x0 = r.num /\ y0 = r.den
  BY <1>7 DEF Fraction
<1>9. PICK x1 \in Int, y1 \in Nat \ {0} : x1 = s.num /\ y1 = s.den
  BY <1>3 DEF Fraction
<1>10. PICK c \in Int : c = b - a
  OBVIOUS
<1>11. PICK t0 \in Int : t0 = (w * l) * n
  OBVIOUS
<1>12. w * ((n - w) * (n - w)) + l * (w * w) = t0
  <2>1. n - w = l
    BY <1>4
  <2>2. w * (l * l) + l * (w * w) = (w * l) * (w + l)
    OBVIOUS
  <2>3. QED
    BY <1>4, <1>11, <2>1, <2>2
<1>13. PICK t1 \in Int : t1 = w * (c * c) + l * (a * a)
  OBVIOUS
<1>14. PICK d0 \in Nat \ {0}, d1 \in Nat \ {0} : d0 = n * (n * n) /\ d1 = n * (b * b)
  <2>1. \A i, j \in Nat \ {0} : i * j \in Nat \ {0}
    OBVIOUS
  <2>2. n * (n * n) \in Nat \ {0} /\ n * (b * b) \in Nat \ {0}
    BY <2>1
  <2>3. QED
    BY <2>2
<1>15. x0 * d0 = t0 * y0
  BY <1>4, <1>7, <1>8, <1>12, <1>14
<1>16. x1 * d1 = t1 * y1
  BY <1>3, <1>4, <1>9, <1>10, <1>13, <1>14
<1>17. t0 * d1 <= t1 * d0
  <2>1. (w * l) * ((a + c) * (a + c)) <= t1 * (w + l)
    BY <1>13, MeanIsBest
  <2>2. a + c = b
    BY <1>10
  <2>3. PICK p \in Int, q \in Int : p = (w * l) * (b * b) /\ q = t1 * n /\ p <= q
    <3>1. (w * l) * (b * b) \in Int /\ t1 * n \in Int
      OBVIOUS
    <3>2. QED
      BY <1>4, <2>1, <2>2, <3>1
  <2>4. n * n \in Nat
    OBVIOUS
  <2>5. p * (n * n) <= q * (n * n)
    BY <2>3, <2>4, TimesKeepsOrder
  <2>6. t0 * d1 = p * (n * n)
    <3>1. PICK m \in Int : m = w * l
      OBVIOUS
    <3>2. (m * n) * (n * (b * b)) = (m * (b * b)) * (n * n)
      OBVIOUS
    <3>3. QED
      BY <1>11, <1>14, <2>3, <3>1, <3>2
  <2>7. t1 * d0 = q * (n * n)
    <3>1. t1 * (n * (n * n)) = (t1 * n) * (n * n)
      OBVIOUS
    <3>2. QED
      BY <1>14, <2>3, <3>1
  <2>8. QED
    BY <2>5, <2>6, <2>7
<1>18. x0 * y1 <= x1 * y0
  BY <1>15, <1>16, <1>17, ScoresOrdered
<1>19. QED
  BY <1>2, <1>5, <1>6, <1>8, <1>9, <1>18 DEF Leq

(* The base rate model is calibrated to its record as no constant is.      *)
THEOREM BaseRateIsOptimal == Spec => []BaseRateIsBestForecast
<1>1. MoneyInv => BaseRateIsBestForecast
  <2>1. SUFFICES ASSUME MoneyInv, outcomes # <<>>, NEW i \in 0..One
                 PROVE  Leq(BrierScore([ k \in DOMAIN outcomes |-> BaseRate(Wins, Len(outcomes), 0) ],
                                       outcomes),
                            BrierScore([ k \in DOMAIN outcomes |-> Frac(i, One) ], outcomes))
    BY DEF BaseRateIsBestForecast
  <2>2. outcomes \in Seq(BOOLEAN)
    BY <2>1 DEF MoneyInv
  <2>3. PICK w : w = Wins
    OBVIOUS
  <2>4. w = WonIn(outcomes)
    BY <2>3 DEF Wins, WonIn
  <2>5. PICK base : base = [ k \in DOMAIN outcomes |-> BaseRate(w, Len(outcomes), 0) ]
    OBVIOUS
  <2>6. PICK other : other = [ k \in DOMAIN outcomes |-> Frac(i, One) ]
    OBVIOUS
  <2>7. i \in Int /\ One \in Nat \ {0}
    BY ServicesAssumption
  <2>8. Leq(BrierScore(base, outcomes), BrierScore(other, outcomes))
    BY <2>1, <2>2, <2>4, <2>5, <2>6, <2>7, BaseRateWins
  <2>9. QED
    BY <2>3, <2>5, <2>6, <2>8
<1>2. QED
  BY <1>1, MoneyHolds, PTL

============================================================================
