------------------------------ MODULE MCBettor ------------------------------
(* An instance of Bettor for TLC: half Kelly, capped at 1/3 of the bankroll. *)
EXTENDS Bettor

Half == Frac(1, 2)
AThird == Frac(1, 3)

(* Impossible, certain, two in between, and one the code refuses. *)
SomeOpinions == {Frac(0, 1), Frac(1, 1), Frac(1, 2), Frac(2, 3), Frac(3, 2)}
=============================================================================
