---------------------------- MODULE GeneticSearch ----------------------------
(***************************************************************************)
(* evolve (search/genetic.py): the generations of a search.  The main      *)
(* thread hands the candidates that have no fitness yet to a pool of       *)
(* threads, waits for all of them, ranks the population, decides whether   *)
(* to stop, and breeds the next generation behind its elites; the best     *)
(* individual of the population it returns goes to final confirmation.     *)
(*                                                                         *)
(* What one evaluation does is the subject of Evaluation; here its outcome *)
(* is a normalized speed, any one, for measurements are noisy.             *)
(***************************************************************************)
EXTENDS Integers, FiniteSets

CONSTANTS
    Keys,          \* pipelines in canonical form: what get_sequence_hash tells apart
    Pruned,        \* Pruned[k]: k without repeated idempotent passes
    PopSize,       \* population_size
    Generations,   \* generations; the command line takes 0 as well
    EliteCount,    \* elite_count, at least one
    MaxStagnant,   \* max_stagnant_generations; 0 turns the check off
    HasBudget,     \* whether max_search_time_seconds is given
    MaxWorkers,    \* max_workers
    MaxSpeed       \* bound: normalized speeds are 1..MaxSpeed

ASSUME SearchAssumption ==
    /\ PopSize \in Nat \ {0} /\ Generations \in Nat /\ EliteCount \in Nat \ {0}
    /\ MaxWorkers \in Nat \ {0} /\ MaxStagnant \in Nat /\ HasBudget \in BOOLEAN
    /\ MaxSpeed \in Nat \ {0}
    /\ Pruned \in [Keys -> Keys]
\* Mutation can come up with a pipeline that is not among the first half yet.
ASSUME EnoughKeys == IsFiniteSet(Keys) /\ Cardinality(Keys) > PopSize \div 2

Slots == 1..PopSize
\* normalized_speed; None before evaluation, Bad for a fitness of -inf.
None   == -1
Bad    == 0
Speeds == 1..MaxSpeed
Fits   == {None, Bad} \cup Speeds
Individual == [seq : Keys, fit : Fits]

VARIABLES
    pop,        \* pop.individuals
    gen,        \* the generation
    phase,      \* where the main thread is
    waiting,    \* positions submitted to the pool and not started
    running,    \* positions a thread is evaluating
    memo,       \* session_eval_cache: the fitness it holds, or None
    failed,     \* an evaluation raised
    bestEver,   \* best_fitness_ever
    stagnant,   \* stagnant_generations
    stop,       \* stop_reason
    late,       \* the time budget is used up
    winner,     \* the individual run_final_confirmation was given
    top, gap, measured   \* history: highest speed measured, generations ranked
                         \* since the last gain, how often each was measured

pool    == <<waiting, running, memo, failed>>
tally   == <<bestEver, stagnant, stop>>
history == <<top, gap, measured>>
vars    == <<pop, gen, phase, pool, tally, late, winner, history>>

Phases   == {"loop", "evaluating", "rank", "breed", "done", "confirmed", "raised"}
Returned == {"done", "confirmed"}

TypeOK ==
    /\ pop \in [Slots -> Individual]
    /\ gen \in Nat /\ (gen = 0 \/ gen < Generations)
    /\ phase \in Phases
    /\ waiting \subseteq Slots
    /\ running \subseteq Slots
    /\ memo \in [Keys -> Fits]
    /\ failed \in BOOLEAN
    /\ bestEver \in Fits
    /\ stagnant \in 0..Generations
    /\ stop \in {"none", "plateau", "timeout"}
    /\ late \in BOOLEAN
    /\ winner \in Individual \cup {<<>>}
    /\ top \in Fits
    /\ gap \in 0..Generations
    /\ measured \in [Keys -> Nat]

Best(p) == CHOOSE f \in {p[i].fit : i \in Slots} : \A i \in Slots : p[i].fit =< f

\* A place beyond the first n is filled with a pipeline not in the population
\* yet, or, once more than half the places are taken, with any.
FreshUnlessCrowded(p, n) ==
    \A i \in n + 1 .. PopSize :
        \/ i - 1 > PopSize \div 2
        \/ \A j \in 1 .. i - 1 : p[j].seq # p[i].seq

\* initialize_population.
Init ==
    /\ \E seqs \in [Slots -> Keys] :
          pop = [i \in Slots |-> [seq |-> seqs[i], fit |-> None]]
    /\ FreshUnlessCrowded(pop, 0)
    /\ gen = 0
    /\ phase = "loop"
    /\ waiting = {}
    /\ running = {}
    /\ memo = [k \in Keys |-> None]
    /\ failed = FALSE
    /\ bestEver = None
    /\ stagnant = 0
    /\ stop = "none"
    /\ late = FALSE
    /\ winner = <<>>
    /\ top = None
    /\ gap = 0
    /\ measured = [k \in Keys |-> 0]

----------------------------------------------------------------------------
(* Evaluation of a generation.                                             *)

\* The head of "for gen in range(generations)", and the submissions; with no
\* generations the initial population is returned as it is.
Loop ==
    /\ phase = "loop"
    /\ IF gen < Generations
       THEN /\ phase' = "evaluating"
            /\ waiting' = {i \in Slots : pop[i].fit = None}
       ELSE phase' = "done" /\ UNCHANGED waiting
    /\ UNCHANGED <<pop, gen, running, memo, failed, tally, late, winner, history>>

\* Mutant: the session's memory is not asked.
StartEvalAnew(i) ==
    /\ i \in waiting /\ \A j \in waiting : i =< j
    /\ Cardinality(running) < MaxWorkers
    /\ waiting' = waiting \ {i}
    /\ pop' = [pop EXCEPT ![i].seq = Pruned[pop[i].seq]]
    /\ running' = running \cup {i}
    /\ UNCHANGED <<gen, phase, memo, failed, tally, late, winner, history>>

\* A free thread takes the first submission and prunes its pipeline; what the
\* session has evaluated before is answered from its memory.
StartEval(i) ==
    LET k == Pruned[pop[i].seq] IN
    /\ i \in waiting /\ \A j \in waiting : i =< j
    /\ Cardinality(running) < MaxWorkers
    /\ waiting' = waiting \ {i}
    /\ pop' = [pop EXCEPT ![i] = [seq |-> k, fit |-> memo[k]]]
    /\ running' = IF memo[k] = None THEN running \cup {i} ELSE running
    /\ UNCHANGED <<gen, phase, memo, failed, tally, late, winner, history>>

\* An evaluation ends with a speed or without; the later of two evaluations of
\* one pipeline is the one remembered.
FinishEval(i) ==
    LET k == pop[i].seq IN
    /\ i \in running
    /\ \E f \in Speeds \cup {Bad} :
          /\ pop' = [pop EXCEPT ![i].fit = f]
          /\ memo' = [memo EXCEPT ![k] = f]
          /\ top' = IF f \in Speeds /\ f > top THEN f ELSE top
    /\ measured' = [measured EXCEPT ![k] = @ + 1]
    /\ running' = running \ {i}
    /\ UNCHANGED <<gen, phase, waiting, failed, tally, late, winner, gap>>

\* It ends in an exception: the cache directory was cleared under it, a
\* subprocess timeout escaped, the source is gone.
RaiseEval(i) ==
    /\ i \in running
    /\ running' = running \ {i}
    /\ failed' = TRUE
    /\ UNCHANGED <<pop, gen, phase, waiting, memo, tally, late, winner, history>>

\* future.result() re-raises, but "with ThreadPoolExecutor" is left only when
\* every submission has run.
Collect ==
    /\ phase = "evaluating"
    /\ waiting = {} /\ running = {}
    /\ phase' = IF failed THEN "raised" ELSE "rank"
    /\ UNCHANGED <<pop, gen, pool, tally, late, winner, history>>

----------------------------------------------------------------------------
(* Ranking, stopping, breeding.                                            *)

Gains(b) == b \in Speeds /\ (bestEver = None \/ b > bestEver)

\* A population is ranked: "counted" is what becomes of stagnant_generations,
\* "last" the generation after which nothing is bred.
RankWith(counted, last) ==
    LET b == Best(pop) IN
    /\ phase = "rank"
    /\ bestEver' = IF Gains(b) THEN b ELSE bestEver
    /\ stagnant' = counted
    /\ gap' = IF Gains(b) THEN 0 ELSE gap + 1
    /\ stop' = IF late THEN "timeout"
               ELSE IF MaxStagnant > 0 /\ counted >= MaxStagnant THEN "plateau"
               ELSE "none"
    /\ phase' = IF stop' # "none" \/ gen = last THEN "done" ELSE "breed"
    /\ UNCHANGED <<pop, gen, pool, late, winner, top, measured>>

\* A generation without any valid individual leaves the count as it is.
Stagnation ==
    IF Gains(Best(pop)) THEN 0
    ELSE IF Best(pop) \in Speeds THEN stagnant + 1 ELSE stagnant

\* Mutant: a gain does not reset the count.
RankKeepsCounting ==
    RankWith(IF Gains(Best(pop)) THEN stagnant ELSE Stagnation, Generations - 1)

\* Mutant: the last generation is bred from as well.
RankOnePastEnd == RankWith(Stagnation, Generations)

\* Sorting, stagnation and stop checks, and the break.
Rank == RankWith(Stagnation, Generations - 1)

ValidSlots == {i \in Slots : pop[i].fit \in Speeds}
Least(m, n) == IF m < n THEN m ELSE n

\* get_elites: the best valid individuals, best first.
EliteLists ==
    LET n == Least(EliteCount, Cardinality(ValidSlots)) IN
    {e \in [1..n -> ValidSlots] :
        /\ \A i, j \in 1..n : i < j => e[i] # e[j] /\ pop[e[i]].fit >= pop[e[j]].fit
        /\ \A v \in ValidSlots : (\E i \in 1..n : e[i] = v)
                                 \/ (\A i \in 1..n : pop[e[i]].fit >= pop[v].fit)}

\* The next generation: the elites as "copied", then children of any pipeline
\* that selection, crossover and mutation can produce and "admitted" lets in.
BreedWith(copied(_), admitted(_, _)) ==
    /\ phase = "breed"
    /\ \E e \in EliteLists, kids \in [Slots -> Keys] :
          LET n == Cardinality(DOMAIN e) IN
          /\ \A i \in 1..n : kids[i] = pop[e[i]].seq   \* one choice per outcome
          /\ pop' = [i \in Slots |-> IF i =< n THEN copied(pop[e[i]])
                                     ELSE [seq |-> kids[i], fit |-> None]]
          /\ admitted(pop', n)
    /\ gen' = gen + 1
    /\ phase' = "loop"
    /\ UNCHANGED <<pool, tally, late, winner, history>>

WithFitness(x)    == x
WithoutFitness(x) == [x EXCEPT !.fit = None]
NewToSession(p, n) == \A i \in n + 1 .. PopSize : memo[Pruned[p[i].seq]] = None

\* Mutant: elites keep their pipeline only and are measured again.
BreedAnew == BreedWith(WithoutFitness, FreshUnlessCrowded)

\* Mutant: the loop insists on pipelines the session has not evaluated.
BreedInsists == BreedWith(WithFitness, NewToSession)

Breed == BreedWith(WithFitness, FreshUnlessCrowded)

\* The command takes best_individual of the population it got back and confirms
\* it at HIGH fidelity.
Confirm ==
    /\ phase = "done"
    /\ Best(pop) \in Speeds
    /\ \E i \in Slots : pop[i].fit = Best(pop) /\ winner' = pop[i]
    /\ phase' = "confirmed"
    /\ UNCHANGED <<pop, gen, pool, tally, late, history>>

TimePasses ==
    /\ HasBudget /\ ~late
    /\ late' = TRUE
    /\ UNCHANGED <<pop, gen, phase, pool, tally, winner, history>>

Main == Loop \/ Collect \/ Rank \/ Breed \/ Confirm
Eval(i) == FinishEval(i) \/ RaiseEval(i)

Next ==
    \/ Main
    \/ \E i \in Slots : StartEval(i) \/ Eval(i)
    \/ TimePasses

Spec == Init /\ [][Next]_vars

\* The main thread and the threads of the pool are scheduled, and every
\* subprocess an evaluation waits for has a timeout.
Fairness ==
    /\ WF_vars(Main)
    /\ \A i \in Slots : WF_vars(StartEval(i)) /\ WF_vars(Eval(i))

FairSpec == Spec /\ Fairness
----------------------------------------------------------------------------
(* What a search promises.                                                 *)

\* No measured candidate is lost: the best of the returned population is the
\* highest speed any evaluation of the search came to, although every other
\* individual of a generation is thrown away (elite preservation).
BestIsReturned ==
    phase \in Returned => (top \in Speeds => Best(pop) = top)

\* Whatever ends the search, its consumers get no unevaluated candidate: the
\* assertion of evolve holds for what it returns.  Only a search of no
\* generations returns what nobody evaluated, and nothing of it is confirmed.
ReturnedIsEvaluated ==
    phase \in Returned /\ (\E i \in Slots : pop[i].fit = None) =>
        Generations = 0 /\ winner = <<>>

\* A search is given up as a plateau only if as many generations in a row as
\* the option says brought no gain; and once anything valid was found it does
\* not go on after as many: only the barren generations before it are not
\* counted (max_stagnant_generations).
PlateauIsReal ==
    /\ stop = "plateau" => gap >= MaxStagnant
    /\ phase = "breed" /\ MaxStagnant > 0 /\ bestEver \in Speeds => gap < MaxStagnant

\* The session's memory is read and written without a lock, so threads may
\* measure one pipeline side by side; but however often it is proposed, bred
\* or carried over, it is measured no more often than there are threads.
MeasuredByRacersOnly == \A k \in Keys : measured[k] =< MaxWorkers

\* A search ends: the breeding loop finds its children, the pool empties, and
\* the generations run out.
Terminates == <>(phase \in {"done", "confirmed", "raised"})
=============================================================================
