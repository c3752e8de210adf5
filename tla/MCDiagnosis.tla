---------------------------- MODULE MCDiagnosis ----------------------------
(* Two commands, which may have started in the same second on one source,  *)
(* and ratios on both sides of 0.98, 1.02 and 1.05.                        *)
EXTENDS Diagnosis, TLC

CONSTANTS r1, r2, i1, i2

TwoRuns   == {r1, r2}
TwoStamps == {i1, i2}
AllRatios == {97, 101, 103, 110}

Symmetry == Permutations(TwoRuns) \cup Permutations(TwoStamps)
=============================================================================
