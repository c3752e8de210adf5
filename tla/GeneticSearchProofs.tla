------------------------ MODULE GeneticSearchProofs ------------------------
(***************************************************************************)
(* Proofs about GeneticSearch, for any pipelines, population, elites,      *)
(* generations, threads, plateau limit and speeds.                         *)
(***************************************************************************)
EXTENDS GeneticSearch, FiniteSetTheorems, TLAPS

----------------------------------------------------------------------------
(* What the operators of the model return.                                 *)

\* A population has PopSize places.
LEMMA SlotsAreFinite ==
    /\ IsFiniteSet(Slots)
    /\ Cardinality(Slots) = PopSize
BY FS_Interval, SearchAssumption DEF Slots

\* The best of a population is its highest fitness, where there is one.
LEMMA BestIsHighest ==
    ASSUME NEW p \in [Slots -> Individual], NEW j \in Slots,
           \A i \in Slots : p[i].fit =< p[j].fit
    PROVE  Best(p) = p[j].fit
<1>. DEFINE fits == {p[i].fit : i \in Slots}
            Highest(f) == f \in fits /\ \A i \in Slots : p[i].fit =< f
<1>1. Best(p) = CHOOSE f \in fits : \A i \in Slots : p[i].fit =< f
  BY DEF Best
<1>2. Highest(p[j].fit)
  OBVIOUS
<1>3. Highest(Best(p))
  BY <1>1, <1>2
<1>4. \A i \in Slots : p[i].fit \in Int
  BY SearchAssumption DEF Individual, Fits, Speeds, None, Bad
<1>5. PICK i \in Slots : Best(p) = p[i].fit
  BY <1>3
<1>. QED
  BY <1>2, <1>3, <1>4, <1>5

\* Elites are valid individuals of the population, no more than there are
\* places; if any is valid, the first has the highest fitness.
LEMMA ElitesAreBest ==
    ASSUME pop \in [Slots -> Individual], NEW e \in EliteLists
    PROVE  LET n == Cardinality(DOMAIN e) IN
           /\ n \in 0..PopSize
           /\ e \in [1..n -> ValidSlots]
           /\ ValidSlots # {} =>
                n >= 1 /\ \A v \in ValidSlots : \E i \in 1..n : pop[e[i]].fit >= pop[v].fit
<1>. DEFINE n == Least(EliteCount, Cardinality(ValidSlots))
<1>1. IsFiniteSet(ValidSlots) /\ Cardinality(ValidSlots) =< PopSize
  BY SlotsAreFinite, FS_Subset DEF ValidSlots
<1>2. Cardinality(ValidSlots) \in Nat /\ (ValidSlots # {} => Cardinality(ValidSlots) >= 1)
  BY <1>1, FS_CardinalityType, FS_EmptySet
<1>3. n \in 0..PopSize /\ (ValidSlots # {} => n >= 1)
  BY <1>1, <1>2, SearchAssumption DEF Least
<1>4. /\ e \in [1..n -> ValidSlots]
      /\ \A v \in ValidSlots : (\E i \in 1..n : e[i] = v)
                               \/ (\A i \in 1..n : pop[e[i]].fit >= pop[v].fit)
  BY DEF EliteLists
<1>5. Cardinality(DOMAIN e) = n
  <2>1. DOMAIN e = 1..n
    BY <1>4
  <2>. QED
    BY <2>1, <1>3, FS_Interval
<1>6. \A v \in ValidSlots : pop[v].fit \in Int
  BY SearchAssumption DEF ValidSlots, Speeds
<1>7. ASSUME NEW v \in ValidSlots PROVE \E i \in 1..n : pop[e[i]].fit >= pop[v].fit
  <2>1. n >= 1 /\ 1 \in 1..n
    BY <1>3
  <2>2. CASE \E i \in 1..n : e[i] = v
    BY <2>2, <1>6
  <2>3. CASE \A i \in 1..n : pop[e[i]].fit >= pop[v].fit
    BY <2>1, <2>3
  <2>. QED
    BY <1>4, <2>2, <2>3
<1>. QED
  BY <1>3, <1>4, <1>5, <1>7

\* Breeding: every individual is an elite with its fitness or a child without
\* one, and whatever was valid has someone at least as good in the new
\* population.
LEMMA BreedEffect ==
    ASSUME pop \in [Slots -> Individual], Breed
    PROVE  /\ phase = "breed" /\ phase' = "loop" /\ gen' = gen + 1
           /\ UNCHANGED <<pool, tally, late, winner, history>>
           /\ pop' \in [Slots -> Individual]
           /\ \A i \in Slots : pop'[i].fit = None
                               \/ \E v \in ValidSlots : pop'[i].fit = pop[v].fit
           /\ \A v \in ValidSlots : \E i \in Slots :
                 pop'[i].fit \in Speeds /\ pop'[i].fit >= pop[v].fit
<1>1. PICK e \in EliteLists, kids \in [Slots -> Keys] :
           pop' = [i \in Slots |-> IF i =< Cardinality(DOMAIN e) THEN pop[e[i]]
                                   ELSE [seq |-> kids[i], fit |-> None]]
  BY DEF Breed, BreedWith, WithFitness
<1>. DEFINE n == Cardinality(DOMAIN e)
<1>2. /\ n \in 0..PopSize
      /\ e \in [1..n -> ValidSlots]
      /\ ValidSlots # {} =>
           n >= 1 /\ \A v \in ValidSlots : \E i \in 1..n : pop[e[i]].fit >= pop[v].fit
  BY ElitesAreBest
<1>. HIDE DEF n
<1>3. ValidSlots \subseteq Slots /\ \A v \in ValidSlots : pop[v].fit \in Speeds
  BY DEF ValidSlots
<1>4. \A i \in Slots : i =< n => i \in 1..n /\ e[i] \in ValidSlots
  BY <1>2, SearchAssumption DEF Slots
<1>5. \A i \in Slots : /\ i =< n => pop'[i] = pop[e[i]]
                       /\ ~(i =< n) => pop'[i].fit = None /\ pop'[i] \in Individual
  <2>. SUFFICES ASSUME NEW i \in Slots
                PROVE  /\ i =< n => pop'[i] = pop[e[i]]
                       /\ ~(i =< n) => pop'[i].fit = None /\ pop'[i] \in Individual
    OBVIOUS
  <2>. DEFINE child == [seq |-> kids[i], fit |-> None]
  <2>1. kids[i] \in Keys
    BY <1>1
  <2>2. child.fit = None /\ child \in Individual
    BY <2>1 DEF Individual, Fits
  <2>3. pop'[i] = IF i =< n THEN pop[e[i]] ELSE child
    BY <1>1 DEF n
  <2>. HIDE DEF child
  <2>. QED
    BY <2>2, <2>3
<1>6. pop' \in [Slots -> Individual]
  <2>1. ASSUME NEW i \in Slots PROVE pop'[i] \in Individual
    <3>1. CASE i =< n
      BY <1>3, <1>4, <1>5, <3>1
    <3>2. CASE ~(i =< n)
      BY <1>5, <3>2
    <3>. QED
      BY <3>1, <3>2
  <2>. QED
    BY <1>1, <2>1
<1>7. ASSUME NEW i \in Slots
      PROVE  pop'[i].fit = None \/ \E v \in ValidSlots : pop'[i].fit = pop[v].fit
  <2>1. CASE i =< n
    BY <1>4, <1>5, <2>1
  <2>2. CASE ~(i =< n)
    BY <1>5, <2>2
  <2>. QED
    BY <2>1, <2>2
<1>8. ASSUME NEW v \in ValidSlots
      PROVE  \E i \in Slots : pop'[i].fit \in Speeds /\ pop'[i].fit >= pop[v].fit
  <2>1. PICK i \in 1..n : pop[e[i]].fit >= pop[v].fit
    BY <1>2
  <2>2. i \in Slots /\ i =< n
    BY <1>2, SearchAssumption DEF Slots
  <2>. QED
    BY <1>3, <1>4, <1>5, <2>1, <2>2
<1>. QED
  BY <1>6, <1>7, <1>8 DEF Breed, BreedWith

----------------------------------------------------------------------------
(* Types.  The counters are bounded by the generations ranked so far.      *)

\* How many generations have been ranked.
Ranked == IF phase \in {"breed", "done", "confirmed"} THEN gen + 1 ELSE gen

\* The pool is in use only while a generation is evaluated, nothing is bred
\* from the last generation, and the counters cannot have run ahead.
ShapeInv ==
    /\ TypeOK
    /\ phase # "evaluating" => waiting = {} /\ running = {}
    /\ failed => phase \in {"evaluating", "raised"}
    /\ phase \in {"evaluating", "rank"} => gen < Generations
    /\ phase = "breed" => gen < Generations - 1
    /\ stagnant =< Ranked
    /\ gap =< Ranked

\* Every step keeps types and counters together.
LEMMA ShapeStep == ShapeInv /\ [Next]_vars => ShapeInv'
<1> SUFFICES ASSUME ShapeInv, [Next]_vars PROVE ShapeInv'
  OBVIOUS
<1> USE SearchAssumption DEF ShapeInv, TypeOK, Ranked, Phases, pool, tally, history
<1>1. CASE Loop
  BY <1>1 DEF Loop
<1>2. ASSUME NEW i \in Slots, StartEval(i) PROVE ShapeInv'
  <2>1. pop' \in [Slots -> Individual]
    BY <1>2 DEF StartEval, Individual
  <2>2. phase = "evaluating"
    BY <1>2 DEF StartEval
  <2>. QED
    BY <1>2, <2>1, <2>2 DEF StartEval
<1>3. ASSUME NEW i \in Slots, FinishEval(i) PROVE ShapeInv'
  <2>1. PICK f \in Speeds \cup {Bad} :
          /\ pop' = [pop EXCEPT ![i].fit = f]
          /\ memo' = [memo EXCEPT ![pop[i].seq] = f]
          /\ top' = IF f \in Speeds /\ f > top THEN f ELSE top
    BY <1>3 DEF FinishEval
  <2>2. /\ pop' \in [Slots -> Individual] /\ memo' \in [Keys -> Fits]
        /\ top' \in Fits
    BY <2>1 DEF Individual, Fits
  <2>3. phase = "evaluating"
    BY <1>3 DEF FinishEval
  <2>4. measured' \in [Keys -> Nat]
    <3>1. /\ measured' = [measured EXCEPT ![pop[i].seq] = measured[pop[i].seq] + 1]
          /\ pop[i].seq \in Keys /\ measured[pop[i].seq] \in Nat
      BY <1>3 DEF FinishEval, Individual
    <3>. QED
      BY <3>1
  <2>. QED
    BY <1>3, <2>2, <2>3, <2>4 DEF FinishEval
<1>4. ASSUME NEW i \in Slots, RaiseEval(i) PROVE ShapeInv'
  BY <1>4 DEF RaiseEval
<1>5. CASE Collect
  BY <1>5 DEF Collect
<1>6. CASE Rank
  <2>1. Stagnation \in 0..stagnant + 1 /\ stagnant \in Nat /\ gap \in Nat
    BY DEF Stagnation
  <2>2. bestEver' \in Fits
    BY <1>6 DEF Rank, RankWith, Gains, Fits
  <2>3. stop' \in {"none", "plateau", "timeout"}
    BY <1>6 DEF Rank, RankWith
  <2>4. /\ phase = "rank" /\ phase' \in {"done", "breed"}
        /\ phase' = "breed" => gen # Generations - 1
        /\ stagnant' = Stagnation /\ gap' \in {0, gap + 1}
        /\ UNCHANGED <<pop, gen, pool, late, winner, top, measured>>
    BY <1>6 DEF Rank, RankWith
  <2>. QED
    BY <2>1, <2>2, <2>3, <2>4
<1>7. CASE Breed
  <2>1. /\ phase = "breed" /\ phase' = "loop" /\ gen' = gen + 1
        /\ UNCHANGED <<pool, tally, late, winner, history>>
        /\ pop' \in [Slots -> Individual]
    BY <1>7, BreedEffect
  <2>. QED
    BY <2>1
<1>8. CASE Confirm
  BY <1>8 DEF Confirm
<1>9. CASE TimePasses
  BY <1>9 DEF TimePasses
<1>10. CASE UNCHANGED vars
  BY <1>10 DEF vars
<1>. QED
  BY <1>1, <1>2, <1>3, <1>4, <1>5, <1>6, <1>7, <1>8, <1>9, <1>10 DEF Next, Main, Eval

\* So they are in every reachable state.
LEMMA ShapeHolds == Spec => []ShapeInv
<1>1. Init => ShapeInv
  <2>. SUFFICES ASSUME Init PROVE ShapeInv
    OBVIOUS
  <2>1. pop \in [Slots -> Individual]
    BY DEF Init, Individual, Fits
  <2>2. memo \in [Keys -> Fits] /\ bestEver \in Fits /\ top \in Fits
    BY DEF Init, Fits
  <2>3. winner \in Individual \cup {<<>>} /\ phase \in Phases
    BY DEF Init, Phases
  <2>4. gen = 0 /\ stagnant \in 0..Generations /\ gap \in 0..Generations
    BY SearchAssumption DEF Init
  <2>5. gen \in Nat /\ measured \in [Keys -> Nat]
    BY DEF Init
  <2>6. TypeOK
    BY <2>1, <2>2, <2>3, <2>4, <2>5 DEF Init, TypeOK
  <2>. QED
    BY <2>6 DEF Init, ShapeInv, Ranked
<1>. QED
  BY <1>1, ShapeStep, PTL DEF Spec

\* The type invariant.
THEOREM TypeCorrect == Spec => []TypeOK
<1>1. ShapeInv => TypeOK
  BY DEF ShapeInv
<1>. QED
  BY <1>1, ShapeHolds, PTL

----------------------------------------------------------------------------
(* Nobody unevaluated is ranked or returned.                               *)

\* What a search of no generations returns.
NobodyMeasured == winner = <<>> /\ \A i \in Slots : pop[i].fit = None

\* While a generation is evaluated, who has no fitness is in the hands of the
\* pool, unless an evaluation raised; who is in its hands has none.
EvaluatedInv ==
    /\ \A i \in waiting \cup running : pop[i].fit = None
    /\ waiting \cap running = {}
    /\ phase = "evaluating" /\ ~failed =>
          \A i \in Slots : pop[i].fit = None => i \in waiting \cup running
    /\ phase \in {"rank", "breed"} => \A i \in Slots : pop[i].fit # None
    /\ phase \in Returned => \/ \A i \in Slots : pop[i].fit # None
                             \/ Generations = 0 /\ phase = "done" /\ NobodyMeasured
    /\ phase = "loop" /\ Generations = 0 => NobodyMeasured

\* Every step keeps account of who was evaluated.
LEMMA EvaluatedStep == ShapeInv /\ EvaluatedInv /\ [Next]_vars => EvaluatedInv'
<1> SUFFICES ASSUME ShapeInv, EvaluatedInv, [Next]_vars PROVE EvaluatedInv'
  OBVIOUS
<1> USE DEF EvaluatedInv, NobodyMeasured, Returned, pool
<1>. pop \in [Slots -> Individual] /\ waiting \subseteq Slots /\ running \subseteq Slots
  BY DEF ShapeInv, TypeOK
<1>1. CASE Loop
  <2>1. waiting = {} /\ running = {} /\ UNCHANGED <<pop, running, failed, winner>>
    BY <1>1 DEF ShapeInv, Loop
  <2>2. CASE gen < Generations
    BY <1>1, <2>1, <2>2 DEF Loop
  <2>3. CASE ~(gen < Generations)
    <3>1. Generations = 0 /\ phase' = "done" /\ UNCHANGED waiting
      BY <1>1, <2>3, SearchAssumption DEF ShapeInv, TypeOK, Loop
    <3>. QED
      BY <1>1, <2>1, <3>1 DEF Loop
  <2>. QED
    BY <2>2, <2>3
<1>2. ASSUME NEW i \in Slots, StartEval(i) PROVE EvaluatedInv'
  <2>1. phase = "evaluating"
    BY <1>2 DEF StartEval, ShapeInv
  <2>2. /\ pop'[i].fit = memo[Pruned[pop[i].seq]]
        /\ \A j \in Slots \ {i} : pop'[j] = pop[j]
    BY <1>2 DEF StartEval
  <2>. QED
    BY <1>2, <2>1, <2>2 DEF StartEval
<1>3. ASSUME NEW i \in Slots, FinishEval(i) PROVE EvaluatedInv'
  <2>1. phase = "evaluating"
    BY <1>3 DEF FinishEval, ShapeInv
  <2>2. pop'[i].fit # None /\ \A j \in Slots \ {i} : pop'[j] = pop[j]
    BY <1>3, SearchAssumption DEF FinishEval, Speeds, Bad, None
  <2>. QED
    BY <1>3, <2>1, <2>2 DEF FinishEval
<1>4. ASSUME NEW i \in Slots, RaiseEval(i) PROVE EvaluatedInv'
  BY <1>4 DEF RaiseEval, ShapeInv
<1>5. CASE Collect
  BY <1>5 DEF Collect
<1>6. CASE Rank
  BY <1>6 DEF Rank, RankWith
<1>7. CASE Breed
  <2>1. phase' = "loop" /\ UNCHANGED pool /\ waiting = {} /\ running = {}
    BY <1>7, BreedEffect DEF ShapeInv
  <2>2. Generations # 0
    BY <1>7, BreedEffect, SearchAssumption DEF ShapeInv, TypeOK
  <2>. QED
    BY <2>1, <2>2
<1>8. CASE Confirm
  <2>1. /\ phase = "done" /\ phase' = "confirmed" /\ UNCHANGED <<pop, pool>>
        /\ \E i \in Slots : pop[i].fit \in Speeds
    BY <1>8 DEF Confirm
  <2>2. None \notin Speeds
    BY SearchAssumption DEF None, Speeds
  <2>. QED
    BY <2>1, <2>2
<1>9. CASE TimePasses
  BY <1>9 DEF TimePasses
<1>10. CASE UNCHANGED vars
  BY <1>10 DEF vars
<1>. QED
  BY <1>1, <1>2, <1>3, <1>4, <1>5, <1>6, <1>7, <1>8, <1>9, <1>10 DEF Next, Main, Eval

\* So that account is right in every reachable state.
LEMMA EvaluatedHolds == Spec => []EvaluatedInv
<1>1. Init => EvaluatedInv
  BY DEF Init, EvaluatedInv, NobodyMeasured, Returned
<1>. QED
  BY <1>1, EvaluatedStep, ShapeHolds, PTL DEF Spec

\* Whatever stops a search, its consumers get no candidate without a fitness,
\* or, from a search of no generations, only such, and none for confirmation.
THEOREM ReturnedEvaluated == Spec => []ReturnedIsEvaluated
<1>1. EvaluatedInv => ReturnedIsEvaluated
  BY DEF EvaluatedInv, NobodyMeasured, ReturnedIsEvaluated, Returned
<1>. QED
  BY <1>1, EvaluatedHolds, PTL

----------------------------------------------------------------------------
(* The best candidate is never lost.                                       *)

\* The highest speed measured so far belongs to a member of the population, and
\* neither the population nor the session's memory has a higher one.
BestInv ==
    /\ top \in Speeds => \E i \in Slots : pop[i].fit = top
    /\ \A i \in Slots : pop[i].fit \in Speeds => pop[i].fit =< top
    /\ \A k \in Keys : memo[k] \in Speeds => memo[k] =< top

\* Every step keeps the best at least as good as whatever is remembered.
LEMMA BestStep == ShapeInv /\ EvaluatedInv /\ BestInv /\ [Next]_vars => BestInv'
<1> SUFFICES ASSUME ShapeInv, EvaluatedInv, BestInv, [Next]_vars PROVE BestInv'
  OBVIOUS
<1> USE DEF pool, tally, history
<1>. /\ pop \in [Slots -> Individual] /\ waiting \subseteq Slots /\ running \subseteq Slots
     /\ memo \in [Keys -> Fits] /\ top \in Fits
  BY DEF ShapeInv, TypeOK
<1>. None \notin Speeds /\ Bad \notin Speeds /\ Speeds \subseteq Int /\ Fits \subseteq Int
  BY SearchAssumption DEF None, Bad, Speeds, Fits
<1>1. CASE Loop
  BY <1>1 DEF Loop, BestInv
<1>2. ASSUME NEW i \in Slots, StartEval(i) PROVE BestInv'
  <2>1. pop[i].fit = None /\ UNCHANGED <<memo, top>>
    BY <1>2 DEF StartEval, EvaluatedInv
  <2>2. /\ Pruned[pop[i].seq] \in Keys
        /\ pop'[i].fit = memo[Pruned[pop[i].seq]]
        /\ \A j \in Slots \ {i} : pop'[j] = pop[j]
    BY <1>2, SearchAssumption DEF StartEval, Individual
  <2>. QED
    BY <2>1, <2>2 DEF BestInv
<1>3. ASSUME NEW i \in Slots, FinishEval(i) PROVE BestInv'
  <2>1. PICK f \in Speeds \cup {Bad} :
          /\ pop' = [pop EXCEPT ![i].fit = f]
          /\ memo' = [memo EXCEPT ![pop[i].seq] = f]
          /\ top' = IF f \in Speeds /\ f > top THEN f ELSE top
    BY <1>3 DEF FinishEval
  <2>2. pop[i].fit = None
    BY <1>3 DEF FinishEval, EvaluatedInv
  <2>3. pop'[i].fit = f /\ \A j \in Slots \ {i} : pop'[j] = pop[j]
    BY <2>1
  <2>4. \A k \in Keys : memo'[k] = IF k = pop[i].seq THEN f ELSE memo[k]
    BY <2>1
  <2>5. CASE f \in Speeds /\ f > top
    <3>1. top' = f
      BY <2>1, <2>5
    <3>2. \A s \in Speeds : s =< top => s =< f
      BY <2>5
    <3>3. f =< f
      BY <2>5
    <3>4. \A j \in Slots : pop'[j].fit \in Speeds => pop'[j].fit =< f
      BY <2>3, <3>2, <3>3 DEF BestInv
    <3>5. \A k \in Keys : memo'[k] \in Speeds => memo'[k] =< f
      BY <2>4, <3>2, <3>3 DEF BestInv
    <3>. QED
      BY <3>1, <3>4, <3>5, <2>3 DEF BestInv
  <2>6. CASE ~(f \in Speeds /\ f > top)
    <3>1. top' = top /\ (f \in Speeds => f =< top)
      BY <2>1, <2>6
    <3>2. \A j \in Slots : pop'[j].fit \in Speeds => pop'[j].fit =< top
      BY <2>3, <3>1 DEF BestInv
    <3>3. \A k \in Keys : memo'[k] \in Speeds => memo'[k] =< top
      BY <2>4, <3>1 DEF BestInv
    <3>4. top \in Speeds => \E j \in Slots : pop'[j].fit = top
      BY <2>2, <2>3 DEF BestInv
    <3>. QED
      BY <3>1, <3>2, <3>3, <3>4 DEF BestInv
  <2>. QED
    BY <2>5, <2>6
<1>4. ASSUME NEW i \in Slots, RaiseEval(i) PROVE BestInv'
  BY <1>4 DEF RaiseEval, BestInv
<1>5. CASE Collect
  BY <1>5 DEF Collect, BestInv
<1>6. CASE Rank
  BY <1>6 DEF Rank, RankWith, BestInv
<1>7. CASE Breed
  <2>1. /\ UNCHANGED <<memo, top>>
        /\ \A i \in Slots : pop'[i].fit = None
                            \/ \E v \in ValidSlots : pop'[i].fit = pop[v].fit
        /\ \A v \in ValidSlots : \E i \in Slots :
              pop'[i].fit \in Speeds /\ pop'[i].fit >= pop[v].fit
    BY <1>7, BreedEffect
  <2>2. \A i \in Slots : pop'[i].fit \in Speeds => pop'[i].fit =< top
    BY <2>1 DEF BestInv, ValidSlots
  <2>3. ASSUME top \in Speeds PROVE \E i \in Slots : pop'[i].fit = top
    <3>1. PICK v \in ValidSlots : pop[v].fit = top
      BY <2>3 DEF BestInv, ValidSlots
    <3>2. PICK i \in Slots : pop'[i].fit \in Speeds /\ pop'[i].fit >= top
      BY <2>1, <3>1
    <3>3. pop'[i].fit =< top
      BY <2>2, <3>2
    <3>4. pop'[i].fit \in Int /\ top \in Int
      BY <3>2
    <3>. QED
      BY <3>2, <3>3, <3>4
  <2>. QED
    BY <2>1, <2>2, <2>3 DEF BestInv
<1>8. CASE Confirm
  BY <1>8 DEF Confirm, BestInv
<1>9. CASE TimePasses
  BY <1>9 DEF TimePasses, BestInv
<1>10. CASE UNCHANGED vars
  BY <1>10 DEF vars, BestInv
<1>. QED
  BY <1>1, <1>2, <1>3, <1>4, <1>5, <1>6, <1>7, <1>8, <1>9, <1>10 DEF Next, Main, Eval

\* The best of the population is the best that was measured, if anything was.
LEMMA BestIsTop ==
    ASSUME ShapeInv, BestInv
    PROVE  /\ top \in Speeds => Best(pop) = top
           /\ top \notin Speeds => Best(pop) \notin Speeds
<1>. /\ pop \in [Slots -> Individual] /\ top \in Fits
     /\ \A i \in Slots : pop[i].fit \in Fits
  BY DEF ShapeInv, TypeOK, Individual
<1>. USE SearchAssumption DEF Fits, Speeds, None, Bad
<1>1. ASSUME top \in Speeds PROVE Best(pop) = top
  <2>1. PICK j \in Slots : pop[j].fit = top
    BY <1>1 DEF BestInv
  <2>2. \A i \in Slots : pop[i].fit =< pop[j].fit
    BY <1>1, <2>1 DEF BestInv
  <2>. QED
    BY <2>1, <2>2, BestIsHighest
<1>2. ASSUME top \notin Speeds PROVE Best(pop) \notin Speeds
  <2>1. \A i \in Slots : pop[i].fit \in {None, Bad}
    BY <1>2 DEF BestInv
  <2>2. 1 \in Slots
    BY DEF Slots
  <2>3. PICK j \in Slots : \A i \in Slots : pop[i].fit =< pop[j].fit
    <3>1. CASE \E j \in Slots : pop[j].fit = Bad
      BY <2>1, <3>1
    <3>2. CASE \A j \in Slots : pop[j].fit = None
      BY <2>2, <3>2
    <3>. QED
      BY <2>1, <3>1, <3>2
  <2>. QED
    BY <2>1, <2>3, BestIsHighest
<1>. QED
  BY <1>1, <1>2

\* So it is in every reachable state.
LEMMA BestHolds == Spec => []BestInv
<1>1. Init => BestInv
  BY SearchAssumption DEF Init, BestInv, Speeds, None
<1>. QED
  BY <1>1, BestStep, EvaluatedHolds, ShapeHolds, PTL DEF Spec

\* Whatever a search ever measured, the best of it is what it returns.
THEOREM BestReturned == Spec => []BestIsReturned
<1>1. ShapeInv /\ BestInv => BestIsReturned
  BY BestIsTop DEF BestIsReturned
<1>. QED
  BY <1>1, BestHolds, ShapeHolds, PTL

----------------------------------------------------------------------------
(* A plateau is one.                                                       *)

\* The count never exceeds the generations since the last gain and, from the
\* first gain on, is their number; a search that stopped has stopped.
PlateauInv ==
    /\ stagnant =< gap
    /\ bestEver \in Speeds => stagnant = gap /\ top \in Speeds
    /\ stop = "plateau" => stagnant >= MaxStagnant
    /\ stop # "none" => phase \in Returned
    /\ phase = "breed" /\ MaxStagnant > 0 => stagnant < MaxStagnant

\* Every step keeps the count of stagnant generations with the gap.
LEMMA PlateauStep == ShapeInv /\ BestInv /\ PlateauInv /\ [Next]_vars => PlateauInv'
<1> SUFFICES ASSUME ShapeInv, BestInv, PlateauInv, [Next]_vars PROVE PlateauInv'
  OBVIOUS
<1> USE DEF PlateauInv, tally, history, Returned
<1>. stagnant \in Nat /\ gap \in Nat /\ MaxStagnant \in Nat
  BY SearchAssumption DEF ShapeInv, TypeOK
<1>1. CASE Loop
  BY <1>1 DEF Loop
<1>2. ASSUME NEW i \in Slots, StartEval(i) PROVE PlateauInv'
  BY <1>2 DEF StartEval
<1>3. ASSUME NEW i \in Slots, FinishEval(i) PROVE PlateauInv'
  <2>1. top \in Speeds => top' \in Speeds
    BY <1>3 DEF FinishEval
  <2>. QED
    BY <1>3, <2>1 DEF FinishEval
<1>4. ASSUME NEW i \in Slots, RaiseEval(i) PROVE PlateauInv'
  BY <1>4 DEF RaiseEval, pool
<1>5. CASE Collect
  BY <1>5 DEF Collect
<1>6. CASE Rank
  <2>1. /\ stagnant' = Stagnation /\ UNCHANGED top
        /\ bestEver' = IF Gains(Best(pop)) THEN Best(pop) ELSE bestEver
        /\ gap' = IF Gains(Best(pop)) THEN 0 ELSE gap + 1
        /\ stop' = IF late THEN "timeout"
                   ELSE IF MaxStagnant > 0 /\ Stagnation >= MaxStagnant THEN "plateau"
                   ELSE "none"
        /\ phase' = IF stop' # "none" \/ gen = Generations - 1 THEN "done" ELSE "breed"
    BY <1>6 DEF Rank, RankWith
  <2>2. Stagnation \in Nat /\ stagnant' =< gap'
    <3>1. CASE Gains(Best(pop))
      BY <2>1, <3>1 DEF Stagnation
    <3>2. CASE ~Gains(Best(pop))
      BY <2>1, <3>2 DEF Stagnation
    <3>. QED
      BY <3>1, <3>2
  <2>3. stop' = "plateau" => stagnant' >= MaxStagnant
    BY <2>1
  <2>4. stop' # "none" => phase' = "done"
    BY <2>1
  <2>5. phase' = "breed" /\ MaxStagnant > 0 => stagnant' < MaxStagnant
    BY <2>1, <2>2
  <2>6. bestEver' \in Speeds => stagnant' = gap' /\ top' \in Speeds
    <3>1. CASE Gains(Best(pop))
      BY <2>1, <3>1, BestIsTop DEF Gains, Stagnation
    <3>2. CASE ~Gains(Best(pop))
      <4>. SUFFICES ASSUME bestEver \in Speeds PROVE stagnant' = gap' /\ top' \in Speeds
        BY <2>1, <3>2
      <4>1. Best(pop) \in Speeds
        BY BestIsTop
      <4>. QED
        BY <2>1, <3>2, <4>1 DEF Stagnation
    <3>. QED
      BY <3>1, <3>2
  <2>. QED
    BY <2>2, <2>3, <2>4, <2>5, <2>6
<1>7. CASE Breed
  BY <1>7, BreedEffect DEF ShapeInv, TypeOK
<1>8. CASE Confirm
  BY <1>8 DEF Confirm
<1>9. CASE TimePasses
  BY <1>9 DEF TimePasses
<1>10. CASE UNCHANGED vars
  BY <1>10 DEF vars
<1>. QED
  BY <1>1, <1>2, <1>3, <1>4, <1>5, <1>6, <1>7, <1>8, <1>9, <1>10 DEF Next, Main, Eval

\* A search is given up as a plateau when it should be, and not before.
THEOREM PlateausAreReal == Spec => []PlateauIsReal
<1>1. Init => PlateauInv
  BY SearchAssumption DEF Init, PlateauInv, None, Speeds
<1>2. ShapeInv /\ PlateauInv => PlateauIsReal
  BY SearchAssumption DEF ShapeInv, TypeOK, PlateauInv, PlateauIsReal
<1>. QED
  BY <1>1, <1>2, PlateauStep, BestHolds, ShapeHolds, PTL DEF Spec

----------------------------------------------------------------------------
(* The unlocked memory of a session.                                       *)

At(k) == {i \in running : pop[i].seq = k}

\* What has been measured is remembered; the threads that measure a pipeline
\* and the measurements of it that have ended are no more than the threads.
RacersInv ==
    /\ Cardinality(running) =< MaxWorkers
    /\ \A k \in Keys : /\ memo[k] = None => measured[k] = 0
                       /\ measured[k] + Cardinality(At(k)) =< MaxWorkers

\* The places threads are at are finitely many.
LEMMA RunningIsFinite ==
    ASSUME running \subseteq Slots
    PROVE  /\ IsFiniteSet(running) /\ Cardinality(running) \in Nat
           /\ \A s \in SUBSET running : /\ IsFiniteSet(s) /\ Cardinality(s) \in Nat
                                        /\ Cardinality(s) =< Cardinality(running)
BY SlotsAreFinite, FS_Subset, FS_CardinalityType

\* Where the pool is empty and stays so, nobody is at any pipeline.
LEMMA IdlePool ==
    ASSUME ShapeInv, RacersInv, running = {}, UNCHANGED <<running, memo, measured>>
    PROVE  RacersInv'
<1>1. \A k \in Keys : At(k)' = At(k)
  BY DEF At
<1>. QED
  BY <1>1 DEF RacersInv

\* Every step keeps account of the measurements.
LEMMA RacersStep == ShapeInv /\ EvaluatedInv /\ RacersInv /\ [Next]_vars => RacersInv'
<1> SUFFICES ASSUME ShapeInv, EvaluatedInv, RacersInv, [Next]_vars PROVE RacersInv'
  OBVIOUS
<1> USE DEF pool, history
<1>. /\ pop \in [Slots -> Individual] /\ waiting \subseteq Slots /\ running \subseteq Slots
     /\ memo \in [Keys -> Fits] /\ measured \in [Keys -> Nat] /\ MaxWorkers \in Nat
  BY SearchAssumption DEF ShapeInv, TypeOK
<1>. /\ Cardinality(running) \in Nat /\ IsFiniteSet(running)
     /\ \A k \in Keys : At(k) \subseteq running /\ IsFiniteSet(At(k))
                        /\ Cardinality(At(k)) \in Nat
  BY RunningIsFinite DEF At
<1>1. CASE Loop
  BY <1>1, IdlePool DEF Loop, ShapeInv
<1>2. ASSUME NEW i \in Slots, StartEval(i) PROVE RacersInv'
  <2>. PICK k \in Keys : k = Pruned[pop[i].seq]
    BY <1>2, SearchAssumption DEF StartEval, Individual
  <2>1. /\ i \notin running /\ UNCHANGED <<memo, measured>>
        /\ pop'[i].seq = k /\ \A j \in Slots \ {i} : pop'[j] = pop[j]
        /\ running' = IF memo[k] = None THEN running \cup {i} ELSE running
        /\ Cardinality(running) < MaxWorkers
    BY <1>2, SearchAssumption DEF StartEval, EvaluatedInv, Individual
  <2>2. CASE memo[k] # None
    <3>1. running' = running /\ \A q \in Keys : At(q)' = At(q)
      BY <2>1, <2>2 DEF At
    <3>. QED
      BY <2>1, <3>1 DEF RacersInv
  <2>3. CASE memo[k] = None
    <3>1. running' = running \cup {i} /\ running' \subseteq Slots
      BY <2>1, <2>3
    <3>2. Cardinality(running') = Cardinality(running) + 1
      <4>1. IsFiniteSet(running) /\ i \notin running /\ running' = running \cup {i}
        BY <2>1, <3>1
      <4>. QED
        BY <4>1, FS_AddElement
    <3>3. \A q \in Keys \ {k} : At(q)' = At(q)
      BY <2>1, <3>1 DEF At
    <3>4. At(k)' \subseteq running' /\ measured[k] = 0
      BY <2>1, <2>3 DEF At, RacersInv
    <3>5. Cardinality(At(k)') \in Nat /\ Cardinality(At(k)') =< Cardinality(running')
      <4>1. IsFiniteSet(running')
        BY <3>1, FS_AddElement
      <4>. QED
        BY <3>4, <4>1, FS_Subset, FS_CardinalityType
    <3>6. ASSUME NEW q \in Keys
          PROVE  /\ memo'[q] = None => measured'[q] = 0
                 /\ measured'[q] + Cardinality(At(q)') =< MaxWorkers
      <4>1. CASE q = k
        <5>1. At(q)' = At(k)'
          BY <4>1
        <5>2. measured'[q] = 0 /\ memo'[q] = None
          BY <2>1, <2>3, <3>4, <4>1
        <5>3. Cardinality(At(q)') \in Nat /\ Cardinality(At(q)') =< Cardinality(running')
          BY <3>5, <5>1
        <5>. QED
          BY <2>1, <3>2, <5>2, <5>3
      <4>2. CASE q # k
        <5>1. Cardinality(At(q)') = Cardinality(At(q))
          BY <3>3, <4>2
        <5>. QED
          BY <2>1, <5>1 DEF RacersInv
      <4>. QED
        BY <4>1, <4>2
    <3>. QED
      BY <2>1, <3>2, <3>6 DEF RacersInv
  <2>. QED
    BY <2>2, <2>3
<1>3. ASSUME NEW i \in Slots, FinishEval(i) PROVE RacersInv'
  <2>. PICK k \in Keys : k = pop[i].seq
    BY <1>3 DEF FinishEval, Individual
  <2>1. PICK f \in Speeds \cup {Bad} :
          /\ pop' = [pop EXCEPT ![i].fit = f]
          /\ memo' = [memo EXCEPT ![k] = f]
    BY <1>3 DEF FinishEval
  <2>2. /\ i \in running /\ running' = running \ {i}
        /\ measured' = [measured EXCEPT ![k] = measured[k] + 1]
        /\ \A j \in Slots : pop'[j].seq = pop[j].seq
    BY <1>3, <2>1 DEF FinishEval, Individual
  <2>3. f # None
    BY SearchAssumption DEF Speeds, Bad, None
  <2>4. Cardinality(running') =< MaxWorkers
    <3>1. Cardinality(running') = Cardinality(running) - 1
      BY <2>2, FS_RemoveElement
    <3>. QED
      BY <3>1 DEF RacersInv
  <2>5. i \in At(k) /\ At(k)' = At(k) \ {i} /\ \A q \in Keys \ {k} : At(q)' = At(q)
    BY <2>2 DEF At
  <2>6. Cardinality(At(k)') = Cardinality(At(k)) - 1
    BY <2>2, <2>5, FS_RemoveElement
  <2>7. \A q \in Keys : measured'[q] = IF q = k THEN measured[k] + 1 ELSE measured[q]
    BY <2>2
  <2>8. \A q \in Keys : memo'[q] = IF q = k THEN f ELSE memo[q]
    BY <2>1
  <2>9. ASSUME NEW q \in Keys
        PROVE  /\ memo'[q] = None => measured'[q] = 0
               /\ measured'[q] + Cardinality(At(q)') =< MaxWorkers
    <3>1. CASE q = k
      <4>1. At(q)' = At(k)'
        BY <3>1
      <4>2. Cardinality(At(q)') = Cardinality(At(k)) - 1
        BY <2>6, <4>1
      <4>. QED
        BY <2>2, <2>3, <2>7, <2>8, <3>1, <4>2 DEF RacersInv
    <3>2. CASE q # k
      <4>1. Cardinality(At(q)') = Cardinality(At(q))
        BY <2>5, <3>2
      <4>. QED
        BY <2>7, <2>8, <3>2, <4>1 DEF RacersInv
    <3>. QED
      BY <3>1, <3>2
  <2>. QED
    BY <2>4, <2>9 DEF RacersInv
<1>4. ASSUME NEW i \in Slots, RaiseEval(i) PROVE RacersInv'
  <2>1. i \in running /\ running' = running \ {i} /\ UNCHANGED <<pop, memo, measured>>
    BY <1>4 DEF RaiseEval
  <2>2. \A k \in Keys : At(k)' \subseteq At(k)
    BY <2>1 DEF At
  <2>3. \A k \in Keys : Cardinality(At(k)') =< Cardinality(At(k)) /\ Cardinality(At(k)') \in Nat
    BY <2>2, FS_Subset, FS_CardinalityType
  <2>4. Cardinality(running') =< MaxWorkers
    <3>1. Cardinality(running') = Cardinality(running) - 1
      BY <2>1, FS_RemoveElement
    <3>. QED
      BY <3>1 DEF RacersInv
  <2>. QED
    BY <2>1, <2>3, <2>4 DEF RacersInv
<1>5. CASE Collect
  BY <1>5, IdlePool DEF Collect
<1>6. CASE Rank
  BY <1>6, IdlePool DEF Rank, RankWith, ShapeInv
<1>7. CASE Breed
  BY <1>7, BreedEffect, IdlePool DEF ShapeInv
<1>8. CASE Confirm
  BY <1>8, IdlePool DEF Confirm, ShapeInv
<1>9. CASE TimePasses
  BY <1>9 DEF TimePasses, RacersInv, At
<1>10. CASE UNCHANGED vars
  BY <1>10 DEF vars, RacersInv, At
<1>. QED
  BY <1>1, <1>2, <1>3, <1>4, <1>5, <1>6, <1>7, <1>8, <1>9, <1>10 DEF Next, Main, Eval

\* For any number of threads, however their evaluations interleave, raise and
\* repeat, no pipeline is measured more often than there are threads.
THEOREM MeasuredByRacers == Spec => []MeasuredByRacersOnly
<1>1. Init => RacersInv
  <2>. SUFFICES ASSUME Init PROVE RacersInv
    OBVIOUS
  <2>1. running = {} /\ \A k \in Keys : At(k) = {} /\ measured[k] = 0
    BY DEF Init, At
  <2>. QED
    BY <2>1, FS_EmptySet, SearchAssumption DEF RacersInv
<1>2. ShapeInv /\ RacersInv => MeasuredByRacersOnly
  <2>. SUFFICES ASSUME ShapeInv, RacersInv, NEW k \in Keys PROVE measured[k] =< MaxWorkers
    BY DEF MeasuredByRacersOnly
  <2>1. At(k) \in SUBSET running
    BY DEF At
  <2>2. Cardinality(At(k)) \in Nat /\ measured[k] \in Nat
    BY <2>1, RunningIsFinite DEF ShapeInv, TypeOK
  <2>. QED
    BY <2>2, SearchAssumption DEF RacersInv
<1>. QED
  BY <1>1, <1>2, RacersStep, EvaluatedHolds, ShapeHolds, PTL DEF Spec
=============================================================================
