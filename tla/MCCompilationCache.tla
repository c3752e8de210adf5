------------------------ MODULE MCCompilationCache ------------------------
(* Instances of CompilationCache for TLC. *)
EXTENDS CompilationCache, TLC

CONSTANTS w1, w2, w3, s1, s2

\* Two threads of one search, or two searches with one thread each.
Threads   == [w \in Workers |-> s1]
Processes == [w \in Workers |-> IF w = w1 THEN s1 ELSE s2]
KeySymmetry  == Permutations(Keys)
=============================================================================
