--------------------------- MODULE MCPaperTrading ---------------------------
(* Instances of PaperTrading for TLC. *)
EXTENDS PaperTrading, TLC

CONSTANTS w1, w2, p1, p2, m1, m2

(* A quote is [bid, ask] in ticks; the second one is the dearer. *)
Quote1 == {[bid |-> 1, ask |-> 2]}
Quote2 == {[bid |-> 1, ask |-> 2], [bid |-> 2, ask |-> 3]}

(* The quantity of a request is any float: a negative one too. *)
SignedQuantities == {-1, 1, 2}

Symmetric == Permutations(Workers) \union Permutations(Portfolios)
             \union Permutations(Markets)
=============================================================================
