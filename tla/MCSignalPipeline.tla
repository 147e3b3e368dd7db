-------------------------- MODULE MCSignalPipeline --------------------------
(* Instances of SignalPipeline for TLC. *)
EXTENDS SignalPipeline, TLC

CONSTANTS w1, w2, m1, m2

Symmetric == Permutations(Workers) \union Permutations(Markets)
=============================================================================
