---------------------------- MODULE MCBacktester ---------------------------
(* Instances of Backtester for TLC. *)
EXTENDS Backtester

(* A losing and a winning quote: bought at the dear one and sold at the    *)
(* cheap one, a unit loses; the other way round it gains.  The mid-price   *)
(* of the dear one is certainty.                                           *)
CheapAndDear == { [bid |-> 1, ask |-> 2], [bid |-> 5, ask |-> 5] }
============================================================================
