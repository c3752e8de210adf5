---------------------------- MODULE MCEvaluation ----------------------------
(* Instances of Evaluation for TLC. *)
EXTENDS Evaluation, TLC

CONSTANTS w1, w2, w3, s1, s2, good, bad

\* One search with several threads, or two searches with one thread each.
OneSearch == [w \in Workers |-> s1]
Processes == [w \in Workers |-> IF w = w1 THEN s1 ELSE s2]

\* One pipeline keeps the program's meaning, another is miscompiled.
OneOutput == [b \in {"llvm17"} |-> [k \in Keys |-> IF k = bad THEN "wrong" ELSE "right"]]
OneConfig == {[build |-> "llvm17", expected |-> "right"]}

\* The baseline of the second configuration got arguments, or was cut off.
TwoBaselines == OneConfig \cup {[build |-> "llvm17", expected |-> "wrong"]}

\* An upgrade repairs one pipeline and breaks the other.
TwoOutputs == [b \in {"llvm17", "llvm18"} |-> [k \in Keys |->
                IF (k = bad) = (b = "llvm17") THEN "crash" ELSE "right"]]
TwoBuilds  == OneConfig \cup {[build |-> "llvm18", expected |-> "right"]}

\* The threads of one search are alike.
Threads == Permutations(Workers)
=============================================================================
