--------------------------- MODULE PipelinesProofs ---------------------------
(***************************************************************************)
(* Proofs about Pipelines, for any passes: what the loops over a pipeline  *)
(* return, what pruning leaves of it, what opt is called with, and how     *)
(* long a child is.  Each loop is a fold (SequenceLemmas), which gives its *)
(* value at the empty pipeline and after one more pass; the rest is        *)
(* induction on pipelines.                                                 *)
(***************************************************************************)
EXTENDS Pipelines, SequenceLemmas

----------------------------------------------------------------------------
(* The loops.                                                              *)

\* The loops of prune_redundant_passes and of Filter, on names in canonical form.
Unrepeated(s) == Sieve(s, LAMBDA kept, p : Repeated(kept, p) /\ p \in Idempotent)
Valid(s)      == Sieve(s, LAMBDA kept, p : p \notin Known)

\* Unrepeated starts empty and drops an idempotent pass right after itself.
LEMMA UnrepeatedLoop ==
    ASSUME NEW A
    PROVE  /\ Unrepeated(<<>>) = <<>>
           /\ \A s \in Seq(A) : Unrepeated(s) \in Seq(A)
           /\ \A s \in Seq(A), x \in A : Unrepeated(Append(s, x)) = IF Repeated(Unrepeated(s), x) /\ x \in Idempotent THEN Unrepeated(s) ELSE Append(Unrepeated(s), x)
<1> DEFINE V == Seq(A)
<1> DEFINE step == [y \in V \X A |-> IF Repeated(y[1], y[2]) /\ y[2] \in Idempotent THEN y[1] ELSE Append(y[1], y[2])]
<1>1. <<>> \in V
  OBVIOUS
<1>2. step \in [V \X A -> V]
  OBVIOUS
<1>3. \A v \in V, x \in A : step[<<v, x>>] = IF Repeated(v, x) /\ x \in Idempotent THEN v ELSE Append(v, x)
  OBVIOUS
<1> HIDE DEF V, step
<1>4. PICK F : F \in Folds(A, V, <<>>, step)
  BY <1>1, <1>2, Fold
<1>5. ASSUME NEW s \in Seq(A) PROVE Unrepeated(s) = F[s]
  <2> DEFINE At(h, i) == IF i = 0 THEN <<>> ELSE IF Repeated(h[i - 1], s[i]) /\ s[i] \in Idempotent THEN h[i - 1] ELSE Append(h[i - 1], s[i])
  <2> DEFINE f == CHOOSE f : f = [i \in 0..Len(s) |-> At(f, i)]
  <2>1. Unrepeated(s) = f[Len(s)]
    BY DEF Unrepeated, Sieve, Through
  <2>2. ASSUME NEW h, NEW i \in 1..Len(s), h[i - 1] \in V
        PROVE  At(h, i) = step[<<h[i - 1], s[i]>>]
    <3>1. s[i] \in A /\ i # 0
      OBVIOUS
    <3>. QED
      BY <1>3, <2>2, <3>1
  <2>0. \A h : At(h, 0) = <<>>
    OBVIOUS
  <2> HIDE DEF At, f
  <2>3. PICK g \in Passed(A, V, <<>>, step, s) : TRUE
    BY <1>4 DEF Folds
  <2>4. g = [i \in 0..Len(s) |-> At(g, i)]
    <3>1. g \in [0..Len(s) -> V] /\ g[0] = <<>> /\ \A i \in 1..Len(s) : g[i] = step[<<g[i - 1], s[i]>>]
      BY DEF Passed
    <3>2. g[0] = At(g, 0)
      BY <2>0, <3>1
    <3>3. ASSUME NEW i \in 1..Len(s) PROVE g[i] = At(g, i)
      <4>1. g[i - 1] \in V
        BY <3>1
      <4>. QED
        BY <2>2, <3>1, <4>1
    <3>4. Len(s) \in Nat
      OBVIOUS
    <3>. QED
      BY <3>1, <3>2, <3>3, <3>4
  <2>5. f = [i \in 0..Len(s) |-> At(f, i)]
    BY <2>4 DEF f
  <2>6. Looping(V, <<>>, step, s, f)
    BY <2>0, <2>2, <2>5 DEF Looping
  <2>7. Ends(f, s, F)
    BY <1>1, <1>2, <1>4, <2>6, Looped
  <2>. QED
    BY <2>1, <2>7 DEF Ends
<1>6. /\ F[<<>>] = <<>> /\ F \in [Seq(A) -> V]
      /\ \A s \in Seq(A), x \in A : F[Append(s, x)] = step[<<F[s], x>>]
  BY <1>4 DEF Folds
<1>7. ASSUME NEW s \in Seq(A), NEW x \in A PROVE Unrepeated(Append(s, x)) = IF Repeated(Unrepeated(s), x) /\ x \in Idempotent THEN Unrepeated(s) ELSE Append(Unrepeated(s), x)
  <2>1. Append(s, x) \in Seq(A) /\ F[s] \in V
    BY <1>6
  <2>2. F[Append(s, x)] = step[<<F[s], x>>] /\ step[<<F[s], x>>] = IF Repeated(F[s], x) /\ x \in Idempotent THEN F[s] ELSE Append(F[s], x)
    BY <1>3, <1>6, <2>1
  <2>. QED
    BY <1>5, <2>1, <2>2
<1>8. <<>> \in Seq(A)
  OBVIOUS
<1>. QED
  BY <1>5, <1>6, <1>7, <1>8 DEF V

\* Collapse drops any pass right after itself.
LEMMA CollapseLoop ==
    ASSUME NEW A
    PROVE  /\ Collapse(<<>>) = <<>>
           /\ \A s \in Seq(A) : Collapse(s) \in Seq(A)
           /\ \A s \in Seq(A), x \in A : Collapse(Append(s, x)) = IF Repeated(Collapse(s), x) THEN Collapse(s) ELSE Append(Collapse(s), x)
<1> DEFINE V == Seq(A)
<1> DEFINE step == [y \in V \X A |-> IF Repeated(y[1], y[2]) THEN y[1] ELSE Append(y[1], y[2])]
<1>1. <<>> \in V
  OBVIOUS
<1>2. step \in [V \X A -> V]
  OBVIOUS
<1>3. \A v \in V, x \in A : step[<<v, x>>] = IF Repeated(v, x) THEN v ELSE Append(v, x)
  OBVIOUS
<1> HIDE DEF V, step
<1>4. PICK F : F \in Folds(A, V, <<>>, step)
  BY <1>1, <1>2, Fold
<1>5. ASSUME NEW s \in Seq(A) PROVE Collapse(s) = F[s]
  <2> DEFINE At(h, i) == IF i = 0 THEN <<>> ELSE IF Repeated(h[i - 1], s[i]) THEN h[i - 1] ELSE Append(h[i - 1], s[i])
  <2> DEFINE f == CHOOSE f : f = [i \in 0..Len(s) |-> At(f, i)]
  <2>1. Collapse(s) = f[Len(s)]
    BY DEF Collapse, Sieve, Through
  <2>2. ASSUME NEW h, NEW i \in 1..Len(s), h[i - 1] \in V
        PROVE  At(h, i) = step[<<h[i - 1], s[i]>>]
    <3>1. s[i] \in A /\ i # 0
      OBVIOUS
    <3>. QED
      BY <1>3, <2>2, <3>1
  <2>0. \A h : At(h, 0) = <<>>
    OBVIOUS
  <2> HIDE DEF At, f
  <2>3. PICK g \in Passed(A, V, <<>>, step, s) : TRUE
    BY <1>4 DEF Folds
  <2>4. g = [i \in 0..Len(s) |-> At(g, i)]
    <3>1. g \in [0..Len(s) -> V] /\ g[0] = <<>> /\ \A i \in 1..Len(s) : g[i] = step[<<g[i - 1], s[i]>>]
      BY DEF Passed
    <3>2. g[0] = At(g, 0)
      BY <2>0, <3>1
    <3>3. ASSUME NEW i \in 1..Len(s) PROVE g[i] = At(g, i)
      <4>1. g[i - 1] \in V
        BY <3>1
      <4>. QED
        BY <2>2, <3>1, <4>1
    <3>4. Len(s) \in Nat
      OBVIOUS
    <3>. QED
      BY <3>1, <3>2, <3>3, <3>4
  <2>5. f = [i \in 0..Len(s) |-> At(f, i)]
    BY <2>4 DEF f
  <2>6. Looping(V, <<>>, step, s, f)
    BY <2>0, <2>2, <2>5 DEF Looping
  <2>7. Ends(f, s, F)
    BY <1>1, <1>2, <1>4, <2>6, Looped
  <2>. QED
    BY <2>1, <2>7 DEF Ends
<1>6. /\ F[<<>>] = <<>> /\ F \in [Seq(A) -> V]
      /\ \A s \in Seq(A), x \in A : F[Append(s, x)] = step[<<F[s], x>>]
  BY <1>4 DEF Folds
<1>7. ASSUME NEW s \in Seq(A), NEW x \in A PROVE Collapse(Append(s, x)) = IF Repeated(Collapse(s), x) THEN Collapse(s) ELSE Append(Collapse(s), x)
  <2>1. Append(s, x) \in Seq(A) /\ F[s] \in V
    BY <1>6
  <2>2. F[Append(s, x)] = step[<<F[s], x>>] /\ step[<<F[s], x>>] = IF Repeated(F[s], x) THEN F[s] ELSE Append(F[s], x)
    BY <1>3, <1>6, <2>1
  <2>. QED
    BY <1>5, <2>1, <2>2
<1>8. <<>> \in Seq(A)
  OBVIOUS
<1>. QED
  BY <1>5, <1>6, <1>7, <1>8 DEF V

\* Valid drops what the validator does not know.
LEMMA ValidLoop ==
    ASSUME NEW A
    PROVE  /\ Valid(<<>>) = <<>>
           /\ \A s \in Seq(A) : Valid(s) \in Seq(A)
           /\ \A s \in Seq(A), x \in A : Valid(Append(s, x)) = IF x \notin Known THEN Valid(s) ELSE Append(Valid(s), x)
<1> DEFINE V == Seq(A)
<1> DEFINE step == [y \in V \X A |-> IF y[2] \notin Known THEN y[1] ELSE Append(y[1], y[2])]
<1>1. <<>> \in V
  OBVIOUS
<1>2. step \in [V \X A -> V]
  OBVIOUS
<1>3. \A v \in V, x \in A : step[<<v, x>>] = IF x \notin Known THEN v ELSE Append(v, x)
  OBVIOUS
<1> HIDE DEF V, step
<1>4. PICK F : F \in Folds(A, V, <<>>, step)
  BY <1>1, <1>2, Fold
<1>5. ASSUME NEW s \in Seq(A) PROVE Valid(s) = F[s]
  <2> DEFINE At(h, i) == IF i = 0 THEN <<>> ELSE IF s[i] \notin Known THEN h[i - 1] ELSE Append(h[i - 1], s[i])
  <2> DEFINE f == CHOOSE f : f = [i \in 0..Len(s) |-> At(f, i)]
  <2>1. Valid(s) = f[Len(s)]
    BY DEF Valid, Sieve, Through
  <2>2. ASSUME NEW h, NEW i \in 1..Len(s), h[i - 1] \in V
        PROVE  At(h, i) = step[<<h[i - 1], s[i]>>]
    <3>1. s[i] \in A /\ i # 0
      OBVIOUS
    <3>. QED
      BY <1>3, <2>2, <3>1
  <2>0. \A h : At(h, 0) = <<>>
    OBVIOUS
  <2> HIDE DEF At, f
  <2>3. PICK g \in Passed(A, V, <<>>, step, s) : TRUE
    BY <1>4 DEF Folds
  <2>4. g = [i \in 0..Len(s) |-> At(g, i)]
    <3>1. g \in [0..Len(s) -> V] /\ g[0] = <<>> /\ \A i \in 1..Len(s) : g[i] = step[<<g[i - 1], s[i]>>]
      BY DEF Passed
    <3>2. g[0] = At(g, 0)
      BY <2>0, <3>1
    <3>3. ASSUME NEW i \in 1..Len(s) PROVE g[i] = At(g, i)
      <4>1. g[i - 1] \in V
        BY <3>1
      <4>. QED
        BY <2>2, <3>1, <4>1
    <3>4. Len(s) \in Nat
      OBVIOUS
    <3>. QED
      BY <3>1, <3>2, <3>3, <3>4
  <2>5. f = [i \in 0..Len(s) |-> At(f, i)]
    BY <2>4 DEF f
  <2>6. Looping(V, <<>>, step, s, f)
    BY <2>0, <2>2, <2>5 DEF Looping
  <2>7. Ends(f, s, F)
    BY <1>1, <1>2, <1>4, <2>6, Looped
  <2>. QED
    BY <2>1, <2>7 DEF Ends
<1>6. /\ F[<<>>] = <<>> /\ F \in [Seq(A) -> V]
      /\ \A s \in Seq(A), x \in A : F[Append(s, x)] = step[<<F[s], x>>]
  BY <1>4 DEF Folds
<1>7. ASSUME NEW s \in Seq(A), NEW x \in A PROVE Valid(Append(s, x)) = IF x \notin Known THEN Valid(s) ELSE Append(Valid(s), x)
  <2>1. Append(s, x) \in Seq(A) /\ F[s] \in V
    BY <1>6
  <2>2. F[Append(s, x)] = step[<<F[s], x>>] /\ step[<<F[s], x>>] = IF x \notin Known THEN F[s] ELSE Append(F[s], x)
    BY <1>3, <1>6, <2>1
  <2>. QED
    BY <1>5, <2>1, <2>2
<1>8. <<>> \in Seq(A)
  OBVIOUS
<1>. QED
  BY <1>5, <1>6, <1>7, <1>8 DEF V

\* Every pass is taken for an analysis, or for one of modules or functions.
LEMMA ClassFacts ==
    \A p \in Passes : Class[p] \in {"analysis", "module", "function"}
  BY PassAssumption, Zenon DEF Class, Nests

\* Groups of passes over A, and those that opt accepts.
PartOf(A) == [adaptor : {"module", "function"}, passes : Seq(A)]
WholeOf(A) == {part \in PartOf(A) :
             part.passes # <<>> /\ \A j \in DOMAIN part.passes : Class[part.passes[j]] = part.adaptor}

Whole == WholeOf(Passes)

\* The states of construct_npm_pipeline_string, with passes of A.
AdaptedOf(A) == [parts : Seq(WholeOf(A)), waiting : Seq({p \in A : Class[p] = "function"})]
Adapted == AdaptedOf(Passes)
Begun   == [parts |-> <<>>, waiting |-> <<>>]
Adapting(s) == Through(Adapt, Begun, s)

\* Whatever is grouped, is grouped with its like.
LEMMA AdaptedTypeOf ==
    ASSUME NEW A, A \subseteq Passes
    PROVE  /\ Begun \in AdaptedOf(A)
           /\ \A a \in AdaptedOf(A) : Flush(a) \in Seq(WholeOf(A))
           /\ \A a \in AdaptedOf(A), p \in A : Adapt(a, p) \in AdaptedOf(A)
<1>1. Begun \in AdaptedOf(A)
  BY DEF Begun, AdaptedOf
<1>2. ASSUME NEW a \in AdaptedOf(A) PROVE Flush(a) \in Seq(WholeOf(A))
  <2>1. CASE a.waiting = <<>>
    BY <2>1 DEF AdaptedOf, Flush
  <2>2. CASE a.waiting # <<>>
    <3>1. Group(a.waiting) \in WholeOf(A)
      BY <2>2 DEF AdaptedOf, Group, WholeOf, PartOf
    <3>. QED
      BY <2>2, <3>1 DEF AdaptedOf, Flush
  <2>. QED
    BY <2>1, <2>2
<1>3. ASSUME NEW a \in AdaptedOf(A), NEW p \in A PROVE Adapt(a, p) \in AdaptedOf(A)
  <2>1. CASE Class[p] = "analysis"
    BY <2>1 DEF Adapt
  <2>2. CASE Class[p] = "module"
    <3>1. Alone(p) \in WholeOf(A)
      BY <2>2 DEF Alone, WholeOf, PartOf
    <3>2. Adapt(a, p) = [parts |-> Append(Flush(a), Alone(p)), waiting |-> <<>>]
      BY <2>2 DEF Adapt
    <3>. QED
      BY <1>2, <3>1, <3>2 DEF AdaptedOf
  <2>3. CASE Class[p] = "function"
    <3>1. Adapt(a, p) = [parts |-> a.parts, waiting |-> Append(a.waiting, p)]
      BY <2>3 DEF Adapt, AdaptedOf
    <3>. QED
      BY <2>3, <3>1 DEF AdaptedOf
  <2>. QED
    BY <2>1, <2>2, <2>3, ClassFacts
<1>. QED
  BY <1>1, <1>2, <1>3

\* The loop of construct_npm_pipeline_string.
LEMMA AdaptLoopOf ==
    ASSUME NEW A, A \subseteq Passes
    PROVE  /\ Adapting(<<>>) = Begun
           /\ \A s \in Seq(A) : Adapting(s) \in AdaptedOf(A)
           /\ \A s \in Seq(A), x \in A : Adapting(Append(s, x)) = Adapt(Adapting(s), x)
<1> DEFINE V == AdaptedOf(A)
<1> DEFINE step == [y \in V \X A |-> Adapt(y[1], y[2])]
<1>1. Begun \in V
  BY AdaptedTypeOf
<1>2. step \in [V \X A -> V]
  BY AdaptedTypeOf
<1>3. \A v \in V, x \in A : step[<<v, x>>] = Adapt(v, x)
  OBVIOUS
<1> HIDE DEF V, step
<1>4. PICK F : F \in Folds(A, V, Begun, step)
  BY <1>1, <1>2, Fold
<1>5. ASSUME NEW s \in Seq(A) PROVE Adapting(s) = F[s]
  <2> DEFINE At(h, i) == IF i = 0 THEN Begun ELSE Adapt(h[i - 1], s[i])
  <2> DEFINE f == CHOOSE f : f = [i \in 0..Len(s) |-> At(f, i)]
  <2>1. Adapting(s) = f[Len(s)]
    BY DEF Adapting, Through
  <2>2. ASSUME NEW h, NEW i \in 1..Len(s), h[i - 1] \in V
        PROVE  At(h, i) = step[<<h[i - 1], s[i]>>]
    <3>1. s[i] \in A /\ i # 0
      OBVIOUS
    <3>. QED
      BY <1>3, <2>2, <3>1
  <2>0. \A h : At(h, 0) = Begun
    OBVIOUS
  <2> HIDE DEF At, f
  <2>3. PICK g \in Passed(A, V, Begun, step, s) : TRUE
    BY <1>4 DEF Folds
  <2>4. g = [i \in 0..Len(s) |-> At(g, i)]
    <3>1. g \in [0..Len(s) -> V] /\ g[0] = Begun /\ \A i \in 1..Len(s) : g[i] = step[<<g[i - 1], s[i]>>]
      BY DEF Passed
    <3>2. g[0] = At(g, 0)
      BY <2>0, <3>1
    <3>3. ASSUME NEW i \in 1..Len(s) PROVE g[i] = At(g, i)
      <4>1. g[i - 1] \in V
        BY <3>1
      <4>. QED
        BY <2>2, <3>1, <4>1
    <3>4. Len(s) \in Nat
      OBVIOUS
    <3>. QED
      BY <3>1, <3>2, <3>3, <3>4
  <2>5. f = [i \in 0..Len(s) |-> At(f, i)]
    BY <2>4 DEF f
  <2>6. Looping(V, Begun, step, s, f)
    <3>0. Len(s) \in Nat
      OBVIOUS
    <3>1. f[0] = At(f, 0) /\ \A i \in 1..Len(s) : f[i] = At(f, i)
      BY <2>5, <3>0
    <3>2. ASSUME NEW i \in 1..Len(s), f[i - 1] \in V PROVE f[i] = step[<<f[i - 1], s[i]>>]
      BY <2>2, <3>1, <3>2, Zenon
    <3>. QED
      BY <2>0, <3>1, <3>2, Zenon DEF Looping
  <2>7. Ends(f, s, F)
    BY <1>1, <1>2, <1>4, <2>6, Looped
  <2>. QED
    BY <2>1, <2>7 DEF Ends
<1>6. /\ F[<<>>] = Begun /\ F \in [Seq(A) -> V]
      /\ \A s \in Seq(A), x \in A : F[Append(s, x)] = step[<<F[s], x>>]
  BY <1>4 DEF Folds
<1>7. ASSUME NEW s \in Seq(A), NEW x \in A PROVE Adapting(Append(s, x)) = Adapt(Adapting(s), x)
  <2>1. Append(s, x) \in Seq(A) /\ F[s] \in V
    BY <1>6
  <2>2. F[Append(s, x)] = step[<<F[s], x>>] /\ step[<<F[s], x>>] = Adapt(F[s], x)
    BY <1>3, <1>6, <2>1
  <2>. QED
    BY <1>5, <2>1, <2>2
<1>8. <<>> \in Seq(A)
  OBVIOUS
<1>. QED
  BY <1>5, <1>6, <1>7, <1>8 DEF V

\* The same for all passes.
LEMMA AdaptedType ==
    /\ Begun \in Adapted
    /\ \A a \in Adapted : Flush(a) \in Seq(Whole)
    /\ \A a \in Adapted, p \in Passes : Adapt(a, p) \in Adapted
  BY AdaptedTypeOf, Zenon DEF Adapted, Whole
LEMMA AdaptLoop ==
    /\ Adapting(<<>>) = Begun
    /\ \A s \in Seq(Passes) : Adapting(s) \in Adapted
    /\ \A s \in Seq(Passes), x \in Passes : Adapting(Append(s, x)) = Adapt(Adapting(s), x)
  BY AdaptLoopOf, Zenon DEF Adapted

\* Word puts the groups one after another.
LEMMA WordLoop ==
    ASSUME NEW A
    PROVE  /\ Word(<<>>) = <<>>
           /\ \A s \in Seq(PartOf(A)) : Word(s) \in Seq(A)
           /\ \A s \in Seq(PartOf(A)), x \in PartOf(A) : Word(Append(s, x)) = Word(s) \o x.passes
<1> DEFINE V == Seq(A)
<1> DEFINE step == [y \in V \X PartOf(A) |-> y[1] \o y[2].passes]
<1>1. <<>> \in V
  BY DEF PartOf
<1>2. step \in [V \X PartOf(A) -> V]
  BY DEF PartOf
<1>3. \A v \in V, x \in PartOf(A) : step[<<v, x>>] = v \o x.passes
  OBVIOUS
<1> HIDE DEF V, step
<1>4. PICK F : F \in Folds(PartOf(A), V, <<>>, step)
  BY <1>1, <1>2, Fold
<1>5. ASSUME NEW s \in Seq(PartOf(A)) PROVE Word(s) = F[s]
  <2> DEFINE At(h, i) == IF i = 0 THEN <<>> ELSE h[i - 1] \o s[i].passes
  <2> DEFINE f == CHOOSE f : f = [i \in 0..Len(s) |-> At(f, i)]
  <2>1. Word(s) = f[Len(s)]
    BY DEF Word, Through
  <2>2. ASSUME NEW h, NEW i \in 1..Len(s), h[i - 1] \in V
        PROVE  At(h, i) = step[<<h[i - 1], s[i]>>]
    <3>1. s[i] \in PartOf(A) /\ i # 0
      OBVIOUS
    <3>. QED
      BY <1>3, <2>2, <3>1
  <2>0. \A h : At(h, 0) = <<>>
    OBVIOUS
  <2> HIDE DEF At, f
  <2>3. PICK g \in Passed(PartOf(A), V, <<>>, step, s) : TRUE
    BY <1>4 DEF Folds
  <2>4. g = [i \in 0..Len(s) |-> At(g, i)]
    <3>1. g \in [0..Len(s) -> V] /\ g[0] = <<>> /\ \A i \in 1..Len(s) : g[i] = step[<<g[i - 1], s[i]>>]
      BY DEF Passed
    <3>2. g[0] = At(g, 0)
      BY <2>0, <3>1
    <3>3. ASSUME NEW i \in 1..Len(s) PROVE g[i] = At(g, i)
      <4>1. g[i - 1] \in V
        BY <3>1
      <4>. QED
        BY <2>2, <3>1, <4>1
    <3>4. Len(s) \in Nat
      OBVIOUS
    <3>. QED
      BY <3>1, <3>2, <3>3, <3>4
  <2>5. f = [i \in 0..Len(s) |-> At(f, i)]
    BY <2>4 DEF f
  <2>6. Looping(V, <<>>, step, s, f)
    BY <2>0, <2>2, <2>5 DEF Looping
  <2>7. Ends(f, s, F)
    BY <1>1, <1>2, <1>4, <2>6, Looped
  <2>. QED
    BY <2>1, <2>7 DEF Ends
<1>6. /\ F[<<>>] = <<>> /\ F \in [Seq(PartOf(A)) -> V]
      /\ \A s \in Seq(PartOf(A)), x \in PartOf(A) : F[Append(s, x)] = step[<<F[s], x>>]
  BY <1>4 DEF Folds
<1>7. ASSUME NEW s \in Seq(PartOf(A)), NEW x \in PartOf(A) PROVE Word(Append(s, x)) = Word(s) \o x.passes
  <2>1. Append(s, x) \in Seq(PartOf(A)) /\ F[s] \in V
    BY <1>6
  <2>2. F[Append(s, x)] = step[<<F[s], x>>] /\ step[<<F[s], x>>] = F[s] \o x.passes
    BY <1>3, <1>6, <2>1
  <2>. QED
    BY <1>5, <2>1, <2>2
<1>8. <<>> \in Seq(PartOf(A))
  OBVIOUS
<1>. QED
  BY <1>5, <1>6, <1>7, <1>8 DEF V

\* What a pipeline makes: its passes without the analyses.
Working ==
    CHOOSE F : F \in Folds(Passes, Seq(Passes), <<>>,
        [y \in Seq(Passes) \X Passes |->
            IF Class[y[2]] = "analysis" THEN y[1] ELSE Append(y[1], y[2])])

\* What Working computes, element by element.
LEMMA WorkingLoop ==
    /\ Working \in [Seq(Passes) -> Seq(Passes)]
    /\ Working[<<>>] = <<>>
    /\ \A s \in Seq(Passes), p \in Passes :
          Working[Append(s, p)] = IF Class[p] = "analysis" THEN Working[s] ELSE Append(Working[s], p)
<1> DEFINE V == Seq(Passes)
<1> DEFINE step == [y \in V \X Passes |-> IF Class[y[2]] = "analysis" THEN y[1] ELSE Append(y[1], y[2])]
<1>1. <<>> \in V
  OBVIOUS
<1>2. step \in [V \X Passes -> V]
  OBVIOUS
<1>3. \A v \in V, p \in Passes :
          step[<<v, p>>] = IF Class[p] = "analysis" THEN v ELSE Append(v, p)
  OBVIOUS
<1>4. Working = CHOOSE F : F \in Folds(Passes, V, <<>>, step)
  BY DEF Working
<1> HIDE DEF V, step
<1>5. Working \in Folds(Passes, V, <<>>, step)
  BY <1>1, <1>2, <1>4, Fold
<1>6. /\ Working \in [Seq(Passes) -> V] /\ Working[<<>>] = <<>>
      /\ \A s \in Seq(Passes), p \in Passes : Working[Append(s, p)] = step[<<Working[s], p>>]
  BY <1>5 DEF Folds
<1>. QED
  BY <1>3, <1>6 DEF V

----------------------------------------------------------------------------
(* What is left of a pipeline by its pruning.                              *)

\* Something is left of what is not empty, and it ends with the same pass.
LEMMA UnrepeatedLast ==
    ASSUME NEW A, NEW s \in Seq(A), s # <<>>
    PROVE  Unrepeated(s) # <<>> /\ Last(Unrepeated(s)) = Last(s)
<1>1. PICK t \in Seq(A), x \in A : s = Append(t, x)
  BY Fronted
<1>2. Unrepeated(t) \in Seq(A) /\ Unrepeated(s) =
        IF Repeated(Unrepeated(t), x) /\ x \in Idempotent THEN Unrepeated(t) ELSE Append(Unrepeated(t), x)
  BY <1>1, UnrepeatedLoop
<1>3. Last(s) = x
  BY <1>1 DEF Last
<1>4. CASE Repeated(Unrepeated(t), x)
  BY <1>2, <1>3, <1>4 DEF Repeated, Last
<1>5. CASE ~Repeated(Unrepeated(t), x)
  BY <1>2, <1>3, <1>5 DEF Last
<1>. QED
  BY <1>4, <1>5

\* Reduced, which compares neighbours in w itself, is the same loop.
LEMMA ReducedIsUnrepeated ==
    ASSUME NEW A, NEW w \in Seq(A) PROVE Reduced(w) = Unrepeated(w)
<1> DEFINE At(h, i) == IF i = 0 THEN <<>>
                       ELSE IF i > 1 /\ w[i] = w[i - 1] /\ w[i] \in Idempotent THEN h[i - 1]
                       ELSE Append(h[i - 1], w[i])
<1> DEFINE f == CHOOSE f : f = [i \in 0..Len(w) |-> At(f, i)]
<1> DEFINE prefix(i) == SubSeq(w, 1, i)
<1> DEFINE g == [i \in 0..Len(w) |-> Unrepeated(prefix(i))]
<1>1. Reduced(w) = f[Len(w)]
  BY DEF Reduced
<1>2. /\ Len(w) \in Nat /\ prefix(0) = <<>> /\ prefix(Len(w)) = w
      /\ \A i \in 0..Len(w) : prefix(i) \in Seq(A)
      /\ \A i \in 1..Len(w) : /\ prefix(i) = Append(prefix(i - 1), w[i]) /\ w[i] \in A
                              /\ i > 1 => prefix(i - 1) # <<>> /\ Last(prefix(i - 1)) = w[i - 1]
  BY DEF Last
<1>3. g[0] = <<>>
  <2>1. g[0] = Unrepeated(prefix(0))
    BY <1>2
  <2>2. Unrepeated(<<>>) = <<>>
    BY UnrepeatedLoop, Zenon
  <2>. QED
    BY <1>2, <2>1, <2>2
<1>4. ASSUME NEW i \in 1..Len(w) PROVE g[i] = At(g, i)
  <2>1. prefix(i - 1) \in Seq(A) /\ prefix(i) = Append(prefix(i - 1), w[i]) /\ w[i] \in A
    BY <1>2
  <2>2. g[i] = Unrepeated(prefix(i)) /\ g[i - 1] = Unrepeated(prefix(i - 1))
    BY <1>2
  <2> HIDE DEF g, prefix
  <2>3. g[i] = IF Repeated(g[i - 1], w[i]) /\ w[i] \in Idempotent THEN g[i - 1] ELSE Append(g[i - 1], w[i])
    BY <2>1, <2>2, UnrepeatedLoop
  <2>4. CASE i = 1
    <3>1. ~Repeated(g[i - 1], w[i])
      BY <1>3, <2>4 DEF Repeated
    <3>. QED
      BY <2>3, <2>4, <3>1
  <2>5. CASE i > 1
    <3>1. prefix(i - 1) # <<>> /\ Last(prefix(i - 1)) = w[i - 1]
      BY <1>2, <2>5
    <3>2. g[i - 1] # <<>> /\ Last(g[i - 1]) = w[i - 1]
      BY <2>1, <2>2, <3>1, UnrepeatedLast
    <3>3. Repeated(g[i - 1], w[i]) <=> w[i] = w[i - 1]
      BY <3>2 DEF Repeated
    <3>. QED
      BY <2>3, <2>5, <3>3
  <2>. QED
    BY <2>4, <2>5
<1>5. At(g, 0) = <<>> /\ At(f, 0) = <<>>
  OBVIOUS
<1>6. ASSUME NEW i \in 1..Len(w), f[i - 1] = g[i - 1] PROVE At(f, i) = At(g, i)
  BY <1>6
<1>7. DOMAIN g = 0..Len(w) /\ g = [i \in 0..Len(w) |-> g[i]]
  OBVIOUS
<1> HIDE DEF At, f, g
<1>8. \A i \in 0..Len(w) : g[i] = At(g, i)
  BY <1>2, <1>3, <1>4, <1>5
<1>9. g = [i \in 0..Len(w) |-> At(g, i)]
  BY <1>7, <1>8
<1>10. f = [i \in 0..Len(w) |-> At(f, i)]
  BY <1>9 DEF f
<1>11. f[0] = At(f, 0) /\ \A i \in 1..Len(w) : f[i] = At(f, i)
  <2>1. \A i \in 0..Len(w) : f[i] = At(f, i)
    BY <1>10
  <2>. QED
    BY <1>2, <2>1
<1>12. Together(Len(w), f, g)
  BY <1>3, <1>4, <1>5, <1>6, <1>11 DEF Together
<1>13. f[Len(w)] = g[Len(w)]
  <2>1. \A i \in 0..Len(w) : f[i] = g[i]
    BY <1>2, <1>12, Agree
  <2>. QED
    BY <1>2, <2>1
<1>14. g[Len(w)] = Unrepeated(w)
  <2>1. g[Len(w)] = Unrepeated(prefix(Len(w)))
    BY <1>2 DEF g
  <2>. QED
    BY <1>2, <2>1
<1>. QED
  BY <1>1, <1>13, <1>14

\* If the last pass is no analysis, it is the last of those that work.
LEMMA WorkingLast ==
    ASSUME NEW s \in Seq(Passes), s # <<>>, Class[Last(s)] # "analysis"
    PROVE  Working[s] # <<>> /\ Last(Working[s]) = Last(s)
<1>1. PICK t \in Seq(Passes), x \in Passes : s = Append(t, x)
  BY Fronted
<1>2. Last(s) = x
  BY <1>1 DEF Last
<1>3. Working[t] \in Seq(Passes) /\ Working[s] = Append(Working[t], x)
  BY <1>1, <1>2, WorkingLoop
<1>4. \A v \in Seq(Passes) : Append(v, x) # <<>> /\ Last(Append(v, x)) = x
  BY DEF Last
<1>. QED
  BY <1>2, <1>3, <1>4

\* Pruning changes nothing of what a pipeline does, if idempotent passes are:
\* whether the repeated pass is an analysis or not.
THEOREM PruningKeepsMeaning ==
    \A s \in Seq(Passes) : Unrepeated(Working[Unrepeated(s)]) = Unrepeated(Working[s])
<1> DEFINE Same == {s \in Seq(Passes) : Unrepeated(Working[Unrepeated(s)]) = Unrepeated(Working[s])}
<1>1. <<>> \in Same
  <2>1. Unrepeated(<<>>) = <<>>
    BY UnrepeatedLoop, Zenon
  <2>2. Working[<<>>] = <<>> /\ <<>> \in Seq(Passes)
    BY WorkingLoop
  <2>3. Unrepeated(Working[Unrepeated(<<>>)]) = Unrepeated(Working[<<>>])
    BY <2>1, <2>2
  <2>. QED
    BY <2>2, <2>3
<1>2. ASSUME NEW s \in Seq(Passes), NEW p \in Passes, s \in Same PROVE Append(s, p) \in Same
  <2> DEFINE u == Unrepeated(s)
  <2>1. u \in Seq(Passes) /\ Working[u] \in Seq(Passes) /\ Working[s] \in Seq(Passes)
    BY UnrepeatedLoop, WorkingLoop
  <2>2. Unrepeated(Working[u]) = Unrepeated(Working[s])
    BY <1>2
  <2>3. \A w \in Seq(Passes) : Unrepeated(Append(w, p)) =
          IF Repeated(Unrepeated(w), p) /\ p \in Idempotent THEN Unrepeated(w) ELSE Append(Unrepeated(w), p)
    BY UnrepeatedLoop
  <2>4. \A w \in Seq(Passes) : Working[Append(w, p)] =
          IF Class[p] = "analysis" THEN Working[w] ELSE Append(Working[w], p)
    BY WorkingLoop
  <2>5. Append(s, p) \in Seq(Passes)
    OBVIOUS
  <2>6. SUFFICES Unrepeated(Working[Unrepeated(Append(s, p))]) = Unrepeated(Working[Append(s, p)])
    BY <2>5
  <2>7. CASE Repeated(u, p) /\ p \in Idempotent
    <3>1. Unrepeated(Append(s, p)) = u
      BY <2>3, <2>7
    <3>2. CASE Class[p] = "analysis"
      BY <2>2, <2>4, <3>1, <3>2
    <3>3. CASE Class[p] # "analysis"
      <4>1. u # <<>> /\ Last(u) = p
        BY <2>7 DEF Repeated
      <4>2. Working[u] # <<>> /\ Last(Working[u]) = p
        BY <2>1, <3>3, <4>1, WorkingLast
      <4>3. Unrepeated(Working[u]) # <<>> /\ Last(Unrepeated(Working[u])) = p
        BY <2>1, <4>2, UnrepeatedLast
      <4>4. Repeated(Unrepeated(Working[s]), p)
        BY <2>2, <4>3 DEF Repeated
      <4>5. Unrepeated(Append(Working[s], p)) = Unrepeated(Working[s])
        BY <2>1, <2>3, <2>7, <4>4
      <4>. QED
        BY <2>2, <2>4, <3>1, <3>3, <4>5
    <3>. QED
      BY <3>2, <3>3
  <2>8. CASE ~(Repeated(u, p) /\ p \in Idempotent)
    <3>1. Unrepeated(Append(s, p)) = Append(u, p)
      BY <2>3, <2>8
    <3>2. CASE Class[p] = "analysis"
      BY <2>1, <2>2, <2>4, <3>1, <3>2
    <3>3. CASE Class[p] # "analysis"
      <4>1. Working[Append(u, p)] = Append(Working[u], p) /\ Working[Append(s, p)] = Append(Working[s], p)
        BY <2>1, <2>4, <3>3
      <4>2. Unrepeated(Append(Working[u], p)) = Unrepeated(Append(Working[s], p))
        BY <2>1, <2>2, <2>3
      <4>. QED
        BY <3>1, <4>1, <4>2
    <3>. QED
      BY <3>2, <3>3
  <2>. QED
    BY <2>7, <2>8
<1>3. Seq(Passes) \subseteq Same
  <2> HIDE DEF Same
  <2>. QED
    BY <1>1, <1>2, SeqInductive
<1>. QED
  BY <1>3

----------------------------------------------------------------------------
(* What opt is called with.                                                *)

\* Groups that opt accepts are groups of passes.
LEMMA WholeParts == Whole \subseteq PartOf(Passes) /\ Seq(Whole) \subseteq Seq(PartOf(Passes))
<1>1. Whole \subseteq PartOf(Passes)
  BY DEF Whole, WholeOf
<1>. QED
  BY <1>1

\* Flush appends the passes that wait.
LEMMA FlushedWord ==
    ASSUME NEW a \in Adapted PROVE Word(Flush(a)) = Word(a.parts) \o a.waiting
<1>1. a.parts \in Seq(PartOf(Passes)) /\ a.waiting \in Seq(Passes)
  BY WholeParts DEF Adapted, AdaptedOf, Whole
<1>2. Word(a.parts) \in Seq(Passes)
  BY <1>1, WordLoop
<1>3. CASE a.waiting = <<>>
  BY <1>2, <1>3 DEF Flush
<1>4. CASE a.waiting # <<>>
  <2>1. Group(a.waiting) \in PartOf(Passes) /\ Group(a.waiting).passes = a.waiting
    BY <1>1 DEF Group, PartOf
  <2>. QED
    BY <1>1, <1>4, <2>1, WordLoop DEF Flush
<1>. QED
  BY <1>3, <1>4

\* The groups so far and the passes that wait are what works, in its order.
LEMMA AdaptingWord ==
    \A s \in Seq(Passes) : Word(Adapting(s).parts) \o Adapting(s).waiting = Working[s]
<1> DEFINE Told == {s \in Seq(Passes) : Word(Adapting(s).parts) \o Adapting(s).waiting = Working[s]}
<1>1. <<>> \in Told
  <2>1. Adapting(<<>>) = Begun /\ Working[<<>>] = <<>>
    BY AdaptLoop, WorkingLoop
  <2>2. Word(<<>>) = <<>>
    BY WordLoop, Zenon
  <2>3. Adapting(<<>>).parts = <<>> /\ Adapting(<<>>).waiting = <<>>
    BY <2>1 DEF Begun
  <2>4. Word(Adapting(<<>>).parts) \o Adapting(<<>>).waiting = Working[<<>>] /\ <<>> \in Seq(Passes)
    BY <2>1, <2>2, <2>3
  <2>. QED
    BY <2>4
<1>2. ASSUME NEW s \in Seq(Passes), NEW p \in Passes, s \in Told PROVE Append(s, p) \in Told
  <2> DEFINE a == Adapting(s)
  <2>1. a \in Adapted /\ Adapting(Append(s, p)) = Adapt(a, p)
    BY AdaptLoop
  <2>2. Word(Flush(a)) = Working[s] /\ Working[s] \in Seq(Passes)
    BY <1>2, <2>1, FlushedWord, WorkingLoop
  <2>3. Working[Append(s, p)] = IF Class[p] = "analysis" THEN Working[s] ELSE Append(Working[s], p)
    BY WorkingLoop
  <2> HIDE DEF a
  <2>4. Word(Adapt(a, p).parts) \o Adapt(a, p).waiting = Working[Append(s, p)]
    <3>1. CASE Class[p] = "analysis"
      <4>1. Adapt(a, p) = a
        BY <3>1 DEF Adapt
      <4>. QED
        BY <1>2, <2>3, <3>1, <4>1 DEF a
    <3>2. CASE Class[p] = "module"
      <4>1. Adapt(a, p) = [parts |-> Append(Flush(a), Alone(p)), waiting |-> <<>>]
        BY <3>2 DEF Adapt
      <4>2. Flush(a) \in Seq(PartOf(Passes))
        BY <2>1, AdaptedType, WholeParts
      <4>5. Alone(p) \in PartOf(Passes) /\ Alone(p).passes = <<p>>
        BY DEF Alone, PartOf
      <4>3. Word(Append(Flush(a), Alone(p))) = Working[s] \o <<p>>
        <5>1. Word(Append(Flush(a), Alone(p))) = Word(Flush(a)) \o Alone(p).passes
          BY <4>2, <4>5, WordLoop
        <5>. QED
          BY <2>2, <4>5, <5>1
      <4>4. (Working[s] \o <<p>>) \o <<>> = Append(Working[s], p)
        BY <2>2
      <4>. QED
        BY <2>3, <3>2, <4>1, <4>3, <4>4
    <3>3. CASE Class[p] = "function"
      <4>1. Adapt(a, p).parts = a.parts /\ Adapt(a, p).waiting = Append(a.waiting, p)
        BY <2>1, <3>3 DEF Adapt, Adapted, AdaptedOf
      <4>2. Word(a.parts) \in Seq(Passes) /\ a.waiting \in Seq(Passes)
        BY <2>1, WholeParts, WordLoop DEF Adapted, AdaptedOf, Whole
      <4>3. Word(a.parts) \o Append(a.waiting, p) = Append(Word(a.parts) \o a.waiting, p)
        <5> DEFINE u == Word(a.parts)  v == a.waiting
        <5>1. u \in Seq(Passes) /\ v \in Seq(Passes)
          BY <4>2
        <5> HIDE DEF u, v
        <5>2. u \o Append(v, p) = Append(u \o v, p)
          BY <5>1, ConcatAppend, SMT
        <5>. QED
          BY <5>2 DEF u, v
      <4>4. Word(a.parts) \o a.waiting = Working[s]
        BY <1>2 DEF a
      <4>. QED
        BY <2>3, <3>3, <4>1, <4>3, <4>4
    <3>. QED
      BY <3>1, <3>2, <3>3, ClassFacts
  <2>5. Append(s, p) \in Seq(Passes)
    OBVIOUS
  <2>. QED
    BY <2>1, <2>4, <2>5
<1>3. Seq(Passes) \subseteq Told
  <2> HIDE DEF Told
  <2>. QED
    BY <1>1, <1>2, SeqInductive
<1>. QED
  BY <1>3

\* The argument of opt makes what the pipeline makes; one that makes nothing
\* becomes default<O2>.
LEMMA ArgumentWord ==
    ASSUME NEW s \in Seq(Passes)
    PROVE  Word(OptString(s)) = IF Working[s] = <<>> THEN <<"default<O2>">> ELSE Working[s]
<1> DEFINE a == Adapting(s)
<1>1. a \in Adapted /\ Flush(a) \in Seq(Whole) /\ Word(Flush(a)) = Working[s]
  BY AdaptLoop, AdaptedType, AdaptingWord, FlushedWord
<1>2. OptString(s) = IF Flush(a) = <<>> THEN DefaultO2 ELSE Flush(a)
  BY DEF OptString, Adapting, Begun
<1> HIDE DEF a
<1>3. Word(<<>>) = <<>>
  BY WordLoop, Zenon
<1>4. CASE Flush(a) = <<>>
  <2> DEFINE O == {"default<O2>"}
  <2> DEFINE d == [adaptor |-> "module", passes |-> <<"default<O2>">>]
  <2>1. d \in PartOf(O) /\ DefaultO2 = Append(<<>>, d) /\ <<>> \in Seq(PartOf(O))
    BY DEF PartOf, DefaultO2
  <2>2. Word(Append(<<>>, d)) = Word(<<>>) \o d.passes
    <3> HIDE DEF O, d
    <3>. QED
      BY <2>1, WordLoop
  <2>3. <<>> \o <<"default<O2>">> = <<"default<O2>">>
    OBVIOUS
  <2>. QED
    BY <1>1, <1>2, <1>3, <1>4, <2>1, <2>2, <2>3
<1>5. CASE Flush(a) # <<>>
  <2>1. PICK t \in Seq(Whole), part \in Whole : Flush(a) = Append(t, part)
    BY <1>1, <1>5, Fronted
  <2>2. t \in Seq(PartOf(Passes)) /\ part \in PartOf(Passes)
    BY WholeParts
  <2>3. Word(Flush(a)) = Word(t) \o part.passes /\ Word(t) \in Seq(Passes)
    BY <2>1, <2>2, WordLoop
  <2>4. part.passes \in Seq(Passes) /\ part.passes # <<>>
    BY DEF Whole, WholeOf, PartOf
  <2>5. Word(Flush(a)) # <<>>
    BY <2>3, <2>4
  <2>. QED
    BY <1>1, <1>2, <1>5, <2>5
<1>. QED
  BY <1>4, <1>5

\* A pass that the registry lists, or takes rightly for one of functions, can be
\* nested where it is put.
LEMMA WholeNests ==
    ASSUME NEW part \in WholeOf(Classified)
    PROVE  part.passes # <<>>
           /\ \A j \in DOMAIN part.passes : Kind[part.passes[j]] \in Nests[part.adaptor]
<1>1. ASSUME NEW p \in Classified, Class[p] \in {"module", "function"}
      PROVE  Kind[p] \in Nests[Class[p]]
  <2>1. p \in Passes
    BY DEF Classified
  <2>2. CASE p \in DOMAIN Table
    <3>1. Class[p] = Table[p]
      BY <2>1, <2>2 DEF Class
    <3>2. Table[p] = "analysis" \/ Kind[p] \in Nests[Table[p]]
      BY <2>2, PassAssumption, Zenon
    <3>. QED
      BY <1>1, <3>1, <3>2
  <2>3. CASE p \notin DOMAIN Table
    <3>1. Class[p] = "function" /\ Kind[p] \in Nests["function"]
      BY <2>1, <2>3 DEF Class, Classified
    <3>. QED
      BY <3>1
  <2>. QED
    BY <2>2, <2>3
<1>2. ASSUME NEW j \in DOMAIN part.passes
      PROVE  Kind[part.passes[j]] \in Nests[part.adaptor]
  <2>1. part.passes[j] \in Classified /\ part.adaptor \in {"module", "function"}
        /\ Class[part.passes[j]] = part.adaptor
    BY DEF WholeOf, PartOf
  <2>. QED
    BY <1>1, <2>1, Zenon
<1>. QED
  BY <1>2 DEF WholeOf

\* opt can parse what it is called with, unless a pass of modules or loops is not
\* in the registry's table, which then takes it for a pass of functions.
THEOREM ArgumentParses ==
    ASSUME NEW s \in Seq(Classified) PROVE Parses(OptString(s))
<1> DEFINE parts == Flush(Adapting(s))
<1>1. parts \in Seq(WholeOf(Classified))
  <2>1. Classified \subseteq Passes
    BY DEF Classified
  <2>. QED
    BY <2>1, AdaptLoopOf, AdaptedTypeOf, Zenon
<1>2. OptString(s) = IF parts = <<>> THEN DefaultO2 ELSE parts
  BY DEF OptString, Adapting, Begun
<1> HIDE DEF parts
<1>3. \A i \in DOMAIN parts : parts[i] \in WholeOf(Classified)
  BY <1>1
<1>. QED
  BY <1>2, <1>3, WholeNests, Zenon DEF Parses

----------------------------------------------------------------------------
(* What is evaluated of a pipeline.                                        *)

\* Names in canonical form.
CanonicalNames == {p \in Passes : Alias[p] = p}

\* Canonical renames every pass and keeps their number.
LEMMA CanonicalType ==
    ASSUME NEW s \in Seq(Passes)
    PROVE  Canonical(s) \in Seq(CanonicalNames) /\ Len(Canonical(s)) = Len(s)
<1>1. \A i \in DOMAIN s : Alias[s[i]] \in CanonicalNames
  BY PassAssumption DEF CanonicalNames
<1>2. Canonical(s) \in [1..Len(s) -> CanonicalNames] /\ Len(s) \in Nat
  BY <1>1 DEF Canonical
<1>. QED
  BY <1>2

\* Canonical names stay as they are.
LEMMA CanonicalFixed ==
    ASSUME NEW s \in Seq(CanonicalNames) PROVE Canonical(s) = s /\ s \in Seq(Passes)
<1>1. \A i \in DOMAIN s : Alias[s[i]] = s[i]
  BY DEF CanonicalNames
<1>2. CanonicalNames \subseteq Passes
  BY DEF CanonicalNames
<1>. QED
  BY <1>1, <1>2 DEF Canonical

\* A pipeline of two passes or more is pruned to canonical names, of which it
\* keeps what its own canonical names mean.
LEMMA PrunedFits ==
    ASSUME NEW s \in Seq(Passes), Len(s) >= 2
    PROVE  /\ Prune(s) \in Seq(CanonicalNames)
           /\ Reduced(Word(OptString(Prune(s)))) = Meaning(Canonical(s))
<1> DEFINE c == Canonical(s)
<1>1. Prune(s) = Unrepeated(c)
  <2>1. ~(Len(s) =< 1)
    OBVIOUS
  <2>. QED
    BY <2>1, Zenon DEF Prune, Unrepeated, Sieve, Through
<1>2. c \in Seq(CanonicalNames) /\ c \in Seq(Passes)
  BY CanonicalType, CanonicalFixed
<1> HIDE DEF c
<1>3. Unrepeated(c) \in Seq(CanonicalNames) /\ Unrepeated(c) \in Seq(Passes)
  BY <1>2, UnrepeatedLoop
<1> DEFINE O == Passes \cup {"default<O2>"}
<1>4. ASSUME NEW w \in Seq(Passes)
      PROVE  /\ Word(OptString(w)) = IF Working[w] = <<>> THEN <<"default<O2>">> ELSE Working[w]
             /\ Working[w] \in Seq(Passes) /\ (Unrepeated(Working[w]) = <<>> <=> Working[w] = <<>>)
  <2>1. Working[w] \in Seq(Passes)
    BY WorkingLoop
  <2>2. Unrepeated(<<>>) = <<>>
    BY UnrepeatedLoop, Zenon
  <2>. QED
    BY <2>1, <2>2, ArgumentWord, UnrepeatedLast
<1>5. Unrepeated(Working[Unrepeated(c)]) = Unrepeated(Working[c])
  BY <1>2, PruningKeepsMeaning
<1>6. Working[Unrepeated(c)] = <<>> <=> Working[c] = <<>>
  BY <1>2, <1>3, <1>4, <1>5
<1>7. CASE Working[c] = <<>>
  BY <1>1, <1>2, <1>3, <1>4, <1>6, <1>7 DEF Meaning, c
<1>8. CASE Working[c] # <<>>
  <2>1. Word(OptString(Unrepeated(c))) = Working[Unrepeated(c)] /\ Word(OptString(c)) = Working[c]
    BY <1>2, <1>3, <1>4, <1>6, <1>8
  <2>2. Reduced(Working[Unrepeated(c)]) = Unrepeated(Working[Unrepeated(c)])
        /\ Reduced(Working[c]) = Unrepeated(Working[c])
    BY <1>2, <1>3, <1>4, ReducedIsUnrepeated
  <2>. QED
    BY <1>1, <1>3, <1>5, <2>1, <2>2 DEF Meaning, c
<1>. QED
  BY <1>7, <1>8

\* Dropping repeated passes makes nothing longer.
LEMMA UnrepeatedShorter ==
    ASSUME NEW A, NEW s \in Seq(A) PROVE Len(Unrepeated(s)) =< Len(s)
<1> DEFINE Short == {t \in Seq(A) : Len(Unrepeated(t)) =< Len(t)}
<1>1. <<>> \in Short
  <2>1. Unrepeated(<<>>) = <<>>
    BY UnrepeatedLoop, Zenon
  <2>. QED
    BY <2>1
<1>2. ASSUME NEW t \in Seq(A), NEW x \in A, t \in Short PROVE Append(t, x) \in Short
  <2>1. Unrepeated(t) \in Seq(A)
        /\ Unrepeated(Append(t, x)) \in {Unrepeated(t), Append(Unrepeated(t), x)}
    BY UnrepeatedLoop
  <2>2. Len(Append(Unrepeated(t), x)) = Len(Unrepeated(t)) + 1 /\ Len(Append(t, x)) = Len(t) + 1
    BY <2>1
  <2>3. Len(Unrepeated(t)) =< Len(t) /\ Len(Unrepeated(t)) \in Nat /\ Len(t) \in Nat
    BY <1>2, <2>1
  <2>4. Append(t, x) \in Seq(A)
    OBVIOUS
  <2>5. Len(Unrepeated(Append(t, x))) =< Len(Append(t, x))
    BY <2>1, <2>2, <2>3
  <2>. QED
    BY <2>4, <2>5
<1>3. Seq(A) \subseteq Short
  <2> HIDE DEF Short
  <2>. QED
    BY <1>1, <1>2, SeqInductive
<1>. QED
  BY <1>3

\* What is left of a pipeline of two passes or more is neither empty nor longer.
LEMMA PrunedLength ==
    ASSUME NEW s \in Seq(Passes), Len(s) >= 2
    PROVE  Prune(s) # <<>> /\ Len(Prune(s)) =< Len(s)
<1> DEFINE c == Canonical(s)
<1>1. Prune(s) = Unrepeated(c)
  <2>1. ~(Len(s) =< 1)
    OBVIOUS
  <2>. QED
    BY <2>1, Zenon DEF Prune, Unrepeated, Sieve, Through
<1>2. c \in Seq(Passes) /\ Len(c) = Len(s)
  BY CanonicalType, CanonicalFixed
<1> HIDE DEF c
<1>3. c # <<>>
  BY <1>2
<1>4. Unrepeated(c) # <<>>
  BY <1>2, <1>3, UnrepeatedLast
<1>5. Len(Unrepeated(c)) =< Len(c)
  BY <1>2, UnrepeatedShorter
<1>. QED
  BY <1>1, <1>2, <1>4, <1>5

----------------------------------------------------------------------------
(* Breeding.                                                               *)

\* What is assumed of passes and lengths.
LEMMA PassFacts ==
    /\ Known \subseteq Passes /\ "mem2reg" \in Passes /\ Fallback \in Seq(Passes)
    /\ MinLength \in Nat /\ MaxLength \in Nat /\ 2 =< MinLength /\ MinLength =< MaxLength
    /\ Len(Fallback) \in MinLength..MaxLength
  BY PassAssumption, LengthAssumption

\* Pieces of pipelines put together are pipelines.
LEMMA Pieces ==
    ASSUME NEW s \in Seq(Passes), NEW t \in Seq(Passes)
    PROVE  /\ s \o t \in Seq(Passes) /\ Len(s \o t) = Len(s) + Len(t)
           /\ \A m, n \in Nat : m >= 1 /\ n =< Len(s) => SubSeq(s, m, n) \in Seq(Passes)
  OBVIOUS

\* Whatever is normalized, the result is within the bounds.
LEMMA NormalizedFits ==
    ASSUME NEW s \in Seq(Passes), NEW n \in Normalized(s)
    PROVE  n \in Seq(Passes) /\ Len(n) \in MinLength..MaxLength
<1>1. CASE s = <<>>
  BY <1>1, PassFacts DEF Normalized
<1>2. CASE s # <<>>
  <2> DEFINE w == WithLowering(Collapse(s))
  <2>1. Collapse(s) \in Seq(Passes)
    BY CollapseLoop
  <2>2. w \in Seq(Passes)
    <3>1. <<"mem2reg">> \in Seq(Passes)
      BY PassFacts
    <3>2. <<"mem2reg">> \o Collapse(s) \in Seq(Passes)
      BY <2>1, <3>1, Pieces
    <3>. QED
      BY <2>1, <3>2 DEF WithLowering
  <2>3. n \in IF Len(w) < MinLength
              THEN {w \o pad : pad \in [1..MinLength - Len(w) -> Known]}
              ELSE {SubSeq(w, 1, AtMost(Len(w), MaxLength))}
    BY <1>2 DEF Normalized
  <2> HIDE DEF w
  <2>4. Len(w) \in Nat
    BY <2>2
  <2>5. CASE Len(w) < MinLength
    <3>1. PICK pad \in [1..MinLength - Len(w) -> Known] : n = w \o pad
      BY <2>3, <2>5
    <3>2. MinLength - Len(w) \in Nat
      BY <2>4, <2>5, PassFacts
    <3>3. pad \in Seq(Passes) /\ Len(pad) = MinLength - Len(w)
      BY <3>2, PassFacts
    <3>4. n \in Seq(Passes) /\ Len(n) = Len(w) + Len(pad)
      BY <2>2, <3>1, <3>3, Pieces
    <3>. QED
      BY <2>4, <3>3, <3>4, PassFacts
  <2>6. CASE ~(Len(w) < MinLength)
    <3> DEFINE k == AtMost(Len(w), MaxLength)
    <3>1. n = SubSeq(w, 1, k)
      BY <2>3, <2>6
    <3>2. k \in MinLength..MaxLength /\ k =< Len(w) /\ k \in Nat
      BY <2>4, <2>6, PassFacts DEF AtMost
    <3> HIDE DEF k
    <3>3. n \in Seq(Passes) /\ Len(n) = k
      BY <2>2, <3>1, <3>2
    <3>. QED
      BY <3>2, <3>3
  <2>. QED
    BY <2>5, <2>6
<1>. QED
  BY <1>1, <1>2

\* What crosses over is put together from pieces of its parents.
LEMMA CrossedType ==
    ASSUME NEW s \in Seq(Passes), NEW t \in Seq(Passes), NEW c \in Crossed(s, t)
    PROVE  c \in Seq(Passes)
<1>1. ASSUME NEW a \in 0..Len(s), NEW b \in 0..Len(t) PROVE Crossover(s, t, a, b) \in Seq(Passes)
  <2> DEFINE m == AtMost(a, Len(s))  n == AtLeast(m, AtMost(b, Len(s)))
  <2>1. m \in 0..Len(s) /\ n \in Nat /\ n =< Len(s) /\ AtMost(n, Len(t)) \in Nat /\ AtMost(n, Len(t)) =< Len(t)
    BY DEF AtMost, AtLeast
  <2>2. SubSeq(s, 1, m) \in Seq(Passes) /\ SubSeq(t, m + 1, AtMost(n, Len(t))) \in Seq(Passes)
        /\ SubSeq(s, n + 1, Len(s)) \in Seq(Passes)
    <3> HIDE DEF m, n
    <3>. QED
      BY <2>1
  <2>3. (SubSeq(s, 1, m) \o SubSeq(t, m + 1, AtMost(n, Len(t)))) \o SubSeq(s, n + 1, Len(s)) \in Seq(Passes)
    <3> HIDE DEF m, n
    <3>. QED
      BY <2>2
  <2>. QED
    BY <2>3 DEF Crossover
<1>2. c = s \/ \E a \in 0..Len(s), b \in 0..Len(t) : c = Crossover(s, t, a, b)
  BY DEF Crossed
<1>. QED
  BY <1>1, <1>2

\* What an operation makes of a pipeline is one.
LEMMA OperatedType ==
    ASSUME NEW s \in Seq(Passes), NEW m \in Inserted(s) \cup Deleted(s) \cup Swapped(s)
    PROVE  m \in Seq(Passes)
<1>1. CASE m \in Inserted(s)
  <2>0. PICK i \in 1..Len(s) + 1, p \in Known : m = InsertAt(s, i, p)
    BY <1>1 DEF Inserted
  <2>1. m = SubSeq(s, 1, i - 1) \o <<p>> \o SubSeq(s, i, Len(s))
    BY <2>0 DEF InsertAt
  <2>2. SubSeq(s, 1, i - 1) \in Seq(Passes) /\ <<p>> \in Seq(Passes) /\ SubSeq(s, i, Len(s)) \in Seq(Passes)
    BY PassFacts
  <2>. QED
    BY <2>1, <2>2
<1>2. CASE m \in Deleted(s)
  <2>1. m = s \/ \E i \in 1..Len(s) : m = RemoveAt(s, i)
    BY <1>2 DEF Deleted
  <2>2. ASSUME NEW i \in 1..Len(s) PROVE RemoveAt(s, i) \in Seq(Passes)
    <3>1. SubSeq(s, 1, i - 1) \in Seq(Passes) /\ SubSeq(s, i + 1, Len(s)) \in Seq(Passes)
      OBVIOUS
    <3>. QED
      BY <3>1 DEF RemoveAt
  <2>. QED
    BY <2>1, <2>2
<1>3. CASE m \in Swapped(s)
  <2>1. m = s \/ \E x \in (1..Len(s)) \X (1..Len(s)) : m = [s EXCEPT ![x[1]] = s[x[2]], ![x[2]] = s[x[1]]]
    BY <1>3 DEF Swapped
  <2>2. ASSUME NEW i \in 1..Len(s), NEW j \in 1..Len(s)
        PROVE  [s EXCEPT ![i] = s[j], ![j] = s[i]] \in Seq(Passes)
    <3>1. s \in [1..Len(s) -> Passes] /\ Len(s) \in Nat
      OBVIOUS
    <3>2. [s EXCEPT ![i] = s[j], ![j] = s[i]] \in [1..Len(s) -> Passes]
      BY <3>1
    <3>. QED
      BY <3>1, <3>2, SeqDef
  <2>. QED
    BY <2>1, <2>2
<1>. QED
  BY <1>1, <1>2, <1>3

\* A filtered pipeline is a pipeline.
LEMMA FilterType ==
    ASSUME NEW s \in Seq(Passes) PROVE Filter(s) \in Seq(Passes)
<1>1. Filter(s) = Valid(Canonical(s))
  BY DEF Filter, Valid
<1>2. Canonical(s) \in Seq(Passes)
  BY CanonicalType, CanonicalFixed
<1>. QED
  BY <1>1, <1>2, ValidLoop

\* A child is a pipeline within the bounds, whoever its parents are.
THEOREM ChildrenFit ==
    ASSUME NEW parents \in SUBSET Seq(Passes), NEW b \in Children(parents)
    PROVE  b \in Seq(Passes) /\ Len(b) \in MinLength..MaxLength
<1>0. PICK s \in parents, t \in parents : \E c \in Crossed(s, t) : b \in Mutated(c)
  BY DEF Children
<1>1. PICK c \in Crossed(s, t) : b \in Mutated(c)
  BY <1>0
<1>2. c \in Seq(Passes)
  BY <1>1, CrossedType
<1>3. CASE b \in Normalized(c)
  BY <1>2, <1>3, NormalizedFits
<1>4. CASE b \notin Normalized(c)
  <2>0. PICK n \in Normalized(c) :
            \E m \in Inserted(n) \cup Deleted(n) \cup Swapped(n) : b \in Normalized(Filter(m))
    BY <1>1, <1>4 DEF Mutated
  <2>1. PICK m \in Inserted(n) \cup Deleted(n) \cup Swapped(n) : b \in Normalized(Filter(m))
    BY <2>0
  <2>2. n \in Seq(Passes)
    BY <1>2, NormalizedFits
  <2>3. m \in Seq(Passes)
    BY <2>2, OperatedType
  <2>4. Filter(m) \in Seq(Passes)
    BY <2>3, FilterType
  <2>. QED
    BY <2>1, <2>4, NormalizedFits
<1>. QED
  BY <1>3, <1>4
=============================================================================
