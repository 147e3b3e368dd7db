---------------------------- MODULE MCIngestion ----------------------------
(* Instances of Ingestion for TLC. *)
EXTENDS Ingestion, TLC

CONSTANTS a, b, e, f, q

Symmetric == Permutations(SourceMarkets) \union Permutations(SourceEvents)

(* A clock that stands still, advances or steps back. *)
AnyTicks == {-1, 0, 1}
============================================================================
