-------------------------- MODULE MCGeneticSearch --------------------------
(* An instance of GeneticSearch for TLC. *)
EXTENDS GeneticSearch

CONSTANTS k1, k2, k3, k4

\* One pipeline is another with a pass repeated.
OneRepeat == [k \in Keys |-> IF k = k4 THEN k3 ELSE k]
=============================================================================
