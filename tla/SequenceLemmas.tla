--------------------------- MODULE SequenceLemmas ---------------------------
(***************************************************************************)
(* Induction over numbers and sequences, and what loops compute.           *)
(*                                                                         *)
(* An induction theorem that takes a predicate is of no use to first-order *)
(* provers: here a predicate is the set of what satisfies it, and an       *)
(* operator the function that a fold with the same steps is.               *)
(***************************************************************************)
EXTENDS Integers, SequenceTheorems, WellFoundedInduction, NaturalsInduction, TLAPS

\* A set that holds 0, and n + 1 with every n, holds all of Nat: a least number
\* outside it would have a predecessor inside.
LEMMA Inductive ==
    ASSUME NEW S, 0 \in S, \A n \in Nat : n \in S => n + 1 \in S
    PROVE  Nat \subseteq S
<1> DEFINE R == OpToRel(<, Nat)
<1> DEFINE T == Nat \ S
<1>1. IsWellFoundedOn(R, Nat)
  BY NatLessThanWellFounded
<1>2. SUFFICES ASSUME T # {} PROVE FALSE
  OBVIOUS
<1>3. PICK x \in T : \A y \in T : ~(<<y, x>> \in R)
  <2> HIDE DEF R
  <2>. QED
  BY <1>1, <1>2, WFMin
<1>4. \A y \in T : ~(y < x)
  BY <1>3 DEF OpToRel
<1>. QED
  BY <1>4

\* The sequence without its last element.
LEMMA Fronted ==
    ASSUME NEW A, NEW s \in Seq(A), s # <<>>
    PROVE  \E t \in Seq(A), x \in A : s = Append(t, x) /\ Len(t) = Len(s) - 1
<1> DEFINE t == [i \in 1..Len(s) - 1 |-> s[i]]
<1>1. Len(s) \in Nat /\ Len(s) >= 1 /\ s[Len(s)] \in A
  OBVIOUS
<1>2. t \in Seq(A) /\ Len(t) = Len(s) - 1
  BY <1>1
<1>3. s = Append(t, s[Len(s)])
  BY <1>1, <1>2
<1>. QED
  BY <1>1, <1>2, <1>3

\* One more element at the end of a concatenation.
LEMMA ConcatAppend ==
    ASSUME NEW A, NEW s \in Seq(A), NEW t \in Seq(A), NEW x \in A
    PROVE  s \o Append(t, x) = Append(s \o t, x)
<1>1. s \o t \in Seq(A) /\ Append(t, x) \in Seq(A)
  OBVIOUS
<1>2. s \o Append(t, x) \in Seq(A) /\ Append(s \o t, x) \in Seq(A)
  BY <1>1
<1>3. Len(s \o Append(t, x)) = Len(s) + Len(t) + 1 /\ Len(Append(s \o t, x)) = Len(s) + Len(t) + 1
  BY <1>1
<1>4. ASSUME NEW i \in 1..Len(s) + Len(t) + 1 PROVE (s \o Append(t, x))[i] = Append(s \o t, x)[i]
  <2>1. CASE i =< Len(s) + Len(t)
    BY <1>1, <2>1
  <2>2. CASE i = Len(s) + Len(t) + 1
    BY <1>1, <2>2
  <2>. QED
    BY <2>1, <2>2
<1>. QED
  BY <1>2, <1>3, <1>4, SeqEqual

\* What holds of the empty sequence and is kept by one more element holds of all.
LEMMA SeqInductive ==
    ASSUME NEW A, NEW S, <<>> \in S,
           \A s \in Seq(A), x \in A : s \in S => Append(s, x) \in S
    PROVE  Seq(A) \subseteq S
<1> DEFINE N == {n \in Nat : \A s \in Seq(A) : Len(s) = n => s \in S}
<1>1. 0 \in N
  <2>1. ASSUME NEW s \in Seq(A), Len(s) = 0 PROVE s \in S
    <3>1. s = <<>>
      BY <2>1
    <3>. QED
      BY <3>1
  <2>. QED
    BY <2>1
<1>2. ASSUME NEW n \in Nat, n \in N PROVE n + 1 \in N
  <2>1. ASSUME NEW s \in Seq(A), Len(s) = n + 1 PROVE s \in S
    <3>1. s # <<>>
      BY <2>1
    <3>2. PICK t \in Seq(A), x \in A : s = Append(t, x) /\ Len(t) = Len(s) - 1
      BY <3>1, Fronted
    <3>3. t \in S
      BY <1>2, <2>1, <3>2
    <3>. QED
      BY <3>2, <3>3
  <2>. QED
    BY <2>1
<1>3. Nat \subseteq N
  <2> HIDE DEF N
  <2>. QED
    BY <1>1, <1>2, Inductive
<1>4. ASSUME NEW s \in Seq(A) PROVE s \in S
  <2>1. Len(s) \in N
    BY <1>3
  <2>. QED
    BY <2>1
<1>. QED
  BY <1>4

\* Two functions that agree at zero, and at i if they agree at i - 1.
Together(n, f, g) == f[0] = g[0] /\ \A i \in 1..n : f[i - 1] = g[i - 1] => f[i] = g[i]

\* They agree everywhere.
LEMMA Agree ==
    ASSUME NEW n \in Nat, NEW f, NEW g, Together(n, f, g)
    PROVE  \A i \in 0..n : f[i] = g[i]
<1> DEFINE N == {i \in Nat : i =< n => f[i] = g[i]}
<1>1. 0 \in N
  BY DEF Together
<1>2. ASSUME NEW i \in Nat, i \in N PROVE i + 1 \in N
  <2>1. CASE i + 1 =< n
    <3>1. i + 1 \in 1..n /\ (i + 1) - 1 = i /\ f[i] = g[i]
      BY <1>2, <2>1
    <3>2. f[(i + 1) - 1] = g[(i + 1) - 1] => f[i + 1] = g[i + 1]
      BY <3>1 DEF Together
    <3>. QED
      BY <3>1, <3>2
  <2>2. CASE ~(i + 1 =< n)
    BY <1>2, <2>2
  <2>. QED
    BY <2>1, <2>2
<1>3. Nat \subseteq N
  <2> HIDE DEF N
  <2>. QED
    BY <1>1, <1>2, Inductive
<1>. QED
  BY <1>3

\* The functions on 0..n that start from v0 and are extended by step.
Recursions(n, V, v0, step) ==
    {f \in [0..n -> V] : f[0] = v0 /\ \A i \in 1..n : f[i] = step[<<i, f[i - 1]>>]}

\* A recursion along 0..n whose step is a function has a value at every place.
LEMMA Recursion ==
    ASSUME NEW n \in Nat, NEW V, NEW v0 \in V, NEW step \in [(1..n) \X V -> V]
    PROVE  Recursions(n, V, v0, step) # {}
<1> DEFINE Is(m, f) == f[0] = v0 /\ \A i \in 1..m : f[i] = step[<<i, f[i - 1]>>]
<1> DEFINE N == {m \in Nat : m =< n => \E f \in [0..m -> V] : Is(m, f)}
<1>1. 0 \in N
  <2> DEFINE f == [i \in 0..0 |-> v0]
  <2>1. f \in [0..0 -> V] /\ Is(0, f)
    OBVIOUS
  <2>. QED
    BY <2>1
<1>2. ASSUME NEW m \in Nat, m \in N PROVE m + 1 \in N
  <2>1. SUFFICES ASSUME m + 1 =< n PROVE \E f \in [0..m + 1 -> V] : Is(m + 1, f)
    OBVIOUS
  <2>2. PICK f \in [0..m -> V] : Is(m, f)
    BY <1>2, <2>1
  <2> DEFINE g == [i \in 0..m + 1 |-> IF i = m + 1 THEN step[<<m + 1, f[m]>>] ELSE f[i]]
  <2>3. step[<<m + 1, f[m]>>] \in V
    BY <2>1
  <2>4. g \in [0..m + 1 -> V]
    BY <2>3
  <2>5. g[0] = v0
    BY <2>2
  <2>6. ASSUME NEW i \in 1..m + 1 PROVE g[i] = step[<<i, g[i - 1]>>]
    <3>1. CASE i = m + 1
      BY <3>1
    <3>2. CASE i # m + 1
      <4>1. i \in 1..m /\ g[i] = f[i] /\ g[i - 1] = f[i - 1]
        BY <3>2
      <4>. QED
        BY <4>1, <2>2
    <3>. QED
      BY <3>1, <3>2
  <2>. QED
    BY <2>4, <2>5, <2>6
<1>3. Nat \subseteq N
  <2> HIDE DEF N
  <2>. QED
    BY <1>1, <1>2, Inductive
<1>. QED
  BY <1>3 DEF Recursions

\* The values that a fold of s passes through.
Passed(A, V, v0, step, s) ==
    {f \in [0..Len(s) -> V] : f[0] = v0 /\ \A i \in 1..Len(s) : f[i] = step[<<f[i - 1], s[i]>>]}

\* The functions on sequences with value v0 at the empty one and to which step
\* tells what one more element does; they are reached by a recursion.
Folds(A, V, v0, step) ==
    {F \in [Seq(A) -> V] :
        /\ F[<<>>] = v0
        /\ \A s \in Seq(A), x \in A : F[Append(s, x)] = step[<<F[s], x>>]
        /\ \A s \in Seq(A) : \E f \in Passed(A, V, v0, step, s) : F[s] = f[Len(s)]}

\* A step that is a function has such a fold.
LEMMA Fold ==
    ASSUME NEW A, NEW V, NEW v0 \in V, NEW step \in [V \X A -> V]
    PROVE  Folds(A, V, v0, step) # {}
<1> DEFINE Of(s) == CHOOSE f : f \in Passed(A, V, v0, step, s)
<1>1. ASSUME NEW s \in Seq(A) PROVE Of(s) \in Passed(A, V, v0, step, s)
  <2> DEFINE h == [x \in (1..Len(s)) \X V |-> step[<<x[2], s[x[1]]>>]]
  <2>1. Len(s) \in Nat /\ \A i \in 1..Len(s) : s[i] \in A
    OBVIOUS
  <2>2. h \in [(1..Len(s)) \X V -> V]
    BY <2>1
  <2>3. PICK f : f \in Recursions(Len(s), V, v0, h)
    <3>1. Len(s) \in Nat
      BY <2>1
    <3> HIDE DEF h
    <3>2. Recursions(Len(s), V, v0, h) # {}
      BY <3>1, <2>2, Recursion, Zenon
    <3>. QED
      BY <3>2
  <2>4. f \in [0..Len(s) -> V] /\ f[0] = v0 /\ \A i \in 1..Len(s) : f[i] = h[<<i, f[i - 1]>>]
    BY <2>3 DEF Recursions
  <2>5. ASSUME NEW i \in 1..Len(s) PROVE h[<<i, f[i - 1]>>] = step[<<f[i - 1], s[i]>>]
    <3>1. f[i - 1] \in V
      BY <2>1, <2>4
    <3>. QED
      BY <3>1
  <2>6. f \in Passed(A, V, v0, step, s)
    <3> HIDE DEF h
    <3>. QED
      BY <2>4, <2>5 DEF Passed
  <2>. QED
    BY <2>6
<1> HIDE DEF Of
<1>2. ASSUME NEW s \in Seq(A), NEW x \in A
      PROVE  Of(Append(s, x))[Len(s) + 1] = step[<<Of(s)[Len(s)], x>>]
  <2> DEFINE t == Append(s, x)  f == Of(s)  g == Of(Append(s, x))
  <2>1. t \in Seq(A) /\ Len(t) = Len(s) + 1 /\ Len(s) \in Nat /\ t[Len(s) + 1] = x
        /\ \A i \in 1..Len(s) : t[i] = s[i]
    OBVIOUS
  <2>2. f[0] = v0 /\ \A i \in 1..Len(s) : f[i] = step[<<f[i - 1], s[i]>>]
    BY <1>1 DEF Passed
  <2>3. g[0] = v0 /\ \A i \in 1..Len(s) + 1 : g[i] = step[<<g[i - 1], t[i]>>]
    <3>1. g \in Passed(A, V, v0, step, t)
      BY <1>1, <2>1
    <3> HIDE DEF t, g
    <3>. QED
      BY <3>1, <2>1 DEF Passed
  <2> HIDE DEF t, f, g
  <2>4. \A i \in 0..Len(s) : f[i] = g[i]
    <3>1. f[0] = g[0]
      BY <2>2, <2>3
    <3>2. \A i \in 1..Len(s) : f[i - 1] = g[i - 1] => f[i] = g[i]
      <4> TAKE i \in 1..Len(s)
      <4>1. i \in 1..Len(s) + 1 /\ t[i] = s[i]
        BY <2>1
      <4>. QED
        BY <4>1, <2>2, <2>3
    <3>3. Len(s) \in Nat
      BY <2>1
    <3>4. Together(Len(s), f, g)
      BY <3>1, <3>2 DEF Together
    <3>. QED
      BY <3>3, <3>4, Agree
  <2>5. g[Len(s) + 1] = step[<<g[(Len(s) + 1) - 1], t[Len(s) + 1]>>] /\ (Len(s) + 1) - 1 = Len(s)
    BY <2>1, <2>3
  <2>6. f[Len(s)] = g[Len(s)]
    BY <2>1, <2>4
  <2>7. g[Len(s) + 1] = step[<<f[Len(s)], x>>]
    BY <2>1, <2>5, <2>6
  <2>. QED
    BY <2>7 DEF g, f
<1> DEFINE F == [s \in Seq(A) |-> Of(s)[Len(s)]]
<1>3. F \in [Seq(A) -> V]
  BY <1>1 DEF Passed
<1>4. F[<<>>] = v0
  <2>1. <<>> \in Seq(A) /\ Len(<<>>) = 0
    OBVIOUS
  <2>2. Of(<<>>)[0] = v0
    BY <1>1, <2>1 DEF Passed
  <2>. QED
    BY <2>1, <2>2
<1>5. ASSUME NEW s \in Seq(A), NEW x \in A PROVE F[Append(s, x)] = step[<<F[s], x>>]
  <2>1. Append(s, x) \in Seq(A) /\ Len(Append(s, x)) = Len(s) + 1
    OBVIOUS
  <2>. QED
    BY <1>2, <2>1
<1>6. ASSUME NEW s \in Seq(A)
      PROVE  \E f \in Passed(A, V, v0, step, s) : F[s] = f[Len(s)]
  BY <1>1
<1>7. F \in Folds(A, V, v0, step)
  <2> HIDE DEF F
  <2>. QED
    BY <1>3, <1>4, <1>5, <1>6 DEF Folds
<1>. QED
  BY <1>7

\* A loop over s whose steps are those of a fold as long as its values are.
Looping(V, v0, step, s, f) ==
    f[0] = v0 /\ \A i \in 1..Len(s) : f[i - 1] \in V => f[i] = step[<<f[i - 1], s[i]>>]

\* It ends with what the fold has at s.
Ends(f, s, F) == f[Len(s)] = F[s]

\* A loop computes the fold, whatever its steps do outside of V.
LEMMA Looped ==
    ASSUME NEW A, NEW V, NEW v0 \in V, NEW step \in [V \X A -> V],
           NEW F \in Folds(A, V, v0, step), NEW s \in Seq(A), NEW f, Looping(V, v0, step, s, f)
    PROVE  Ends(f, s, F)
<1>1. PICK g \in Passed(A, V, v0, step, s) : F[s] = g[Len(s)]
  BY DEF Folds
<1>2. g \in [0..Len(s) -> V] /\ g[0] = v0 /\ \A i \in 1..Len(s) : g[i] = step[<<g[i - 1], s[i]>>]
  BY DEF Passed
<1>3. Len(s) \in Nat
  OBVIOUS
<1>4. Together(Len(s), f, g)
  <2>1. ASSUME NEW i \in 1..Len(s), f[i - 1] = g[i - 1] PROVE f[i] = g[i]
    <3>1. g[i - 1] \in V
      BY <1>2, <1>3
    <3>. QED
      BY <1>2, <2>1, <3>1 DEF Looping
  <2>. QED
    BY <1>2, <2>1 DEF Together, Looping
<1>5. \A i \in 0..Len(s) : f[i] = g[i]
  BY <1>3, <1>4, Agree
<1>. QED
  BY <1>1, <1>3, <1>5 DEF Ends
=============================================================================
