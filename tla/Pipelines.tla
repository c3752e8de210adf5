------------------------------ MODULE Pipelines ------------------------------
(***************************************************************************)
(* Pass pipelines as sequences of pass names: their canonical form, their  *)
(* pruning (llvm/passes.py), the argument of opt they become               *)
(* (llvm/registry.py), and how the search breeds new ones from old ones    *)
(* (search/mutation.py, the crossover of search/genetic.py).               *)
(***************************************************************************)
EXTENDS Integers, SequencesExt

CONSTANTS
    Passes,      \* pass names as they occur in pipelines, valid or not
    Alias,       \* Alias[p]: the name that p stands for
    Table,       \* KNOWN_PASS_CLASSIFICATIONS: the adaptors of some of them
    Kind,        \* Kind[p]: what opt runs p on, the registry's opinion apart
    Idempotent,  \* IDEMPOTENT_CONSECUTIVE_PASSES
    Known,       \* valid_passes: built in, or listed by opt --print-passes
    Lowering,    \* the passes one of which a pipeline should have
    Fallback,    \* the pipeline normalize puts in place of an empty one
    MinLength, MaxLength  \* bounds on what is bred

\* What opt can nest in an adaptor; loops are adapted within functions, and
\* components of the call graph within the module.
Nests == [module |-> {"module", "cgscc"}, function |-> {"function", "loop"}]

ASSUME PassAssumption ==
    /\ Alias \in [Passes -> Passes]
    /\ \A p \in Passes : Alias[Alias[p]] = Alias[p]
    /\ Kind \in [Passes -> {"module", "cgscc", "function", "loop", "analysis"}]
    /\ DOMAIN Table \subseteq Passes
    \* The table is right as far as it goes; --print-passes lists more than it has.
    /\ \A p \in DOMAIN Table :
          Table[p] = "analysis" \/ (Table[p] \in DOMAIN Nests /\ Kind[p] \in Nests[Table[p]])
    /\ Idempotent \subseteq Passes /\ Known \subseteq Passes
    /\ Lowering \subseteq Known /\ "mem2reg" \in Lowering
    /\ Fallback \in Seq(Passes)
ASSUME LengthAssumption ==
    /\ MinLength \in Nat /\ MaxLength \in Nat
    \* two: a shorter pipeline is pruned without being made canonical
    /\ 2 =< MinLength /\ MinLength =< MaxLength
    /\ Len(Fallback) \in MinLength..MaxLength

----------------------------------------------------------------------------
(* Names and keys.                                                         *)

\* canonicalize_sequence: names only, never the order or the number of passes.
Canonical(s) == [i \in DOMAIN s |-> Alias[s[i]]]

\* A loop over s that starts with v.
Through(Step(_, _), v, s) ==
    LET after[i \in 0..Len(s)] == IF i = 0 THEN v ELSE Step(after[i - 1], s[i])
    IN  after[Len(s)]

\* The passes of s that are not dropped, given what is kept of those before.
Sieve(s, Drop(_, _)) ==
    Through(LAMBDA kept, p : IF Drop(kept, p) THEN kept ELSE Append(kept, p), <<>>, s)
Repeated(kept, p) == kept # <<>> /\ Last(kept) = p

\* Mutant: a pass is dropped if it occurs anywhere before.
PruneSeen(s) == Sieve(Canonical(s), LAMBDA kept, p : p \in Idempotent /\ p \in ToSet(kept))

\* Mutant: names are compared in canonical form but kept as they are.
PruneRawNames(s) ==
    Sieve(s, LAMBDA kept, p :
                kept # <<>> /\ Alias[Last(kept)] = Alias[p] /\ Alias[p] \in Idempotent)

\* prune_redundant_passes.
Prune(s) ==
    IF Len(s) =< 1 THEN s
    ELSE Sieve(Canonical(s), LAMBDA kept, p : Repeated(kept, p) /\ p \in Idempotent)

\* construct_npm_pipeline_string: analyses are left out, passes of functions
\* (and licm, in its own adaptor) are collected until a pass of modules.
Group(passes) == [adaptor |-> "function", passes |-> passes]
Alone(p)      == [adaptor |-> "module", passes |-> <<p>>]
DefaultO2     == <<[adaptor |-> "module", passes |-> <<"default<O2>">>]>>

\* get_pass_type: a name that is not in the table passes for a function pass.
Class == [p \in Passes |-> IF p \in DOMAIN Table THEN Table[p] ELSE "function"]

Flush(a) == IF a.waiting = <<>> THEN a.parts ELSE Append(a.parts, Group(a.waiting))
Adapt(a, p) ==
    CASE Class[p] = "analysis" -> a
      [] Class[p] = "module"   -> [parts |-> Append(Flush(a), Alone(p)), waiting |-> <<>>]
      [] Class[p] = "function" -> [a EXCEPT !.waiting = Append(@, p)]
OptString(s) ==
    LET parts == Flush(Through(Adapt, [parts |-> <<>>, waiting |-> <<>>], s))
    IN  IF parts = <<>> THEN DefaultO2 ELSE parts

\* Passes right after themselves.
Collapse(s) == Sieve(s, Repeated)

\* to_canonical_opt_string, whose hash names the candidate.
Key(s) == OptString(Canonical(s))

\* PassValidator: a name is judged by what it stands for.
IsKnown(p) == Alias[p] \in Known
Filter(s)  == Sieve(Canonical(s), LAMBDA kept, p : p \notin Known)

----------------------------------------------------------------------------
(* Breeding.                                                               *)

AtMost(n, m)  == IF n < m THEN n ELSE m
AtLeast(n, m) == IF n > m THEN n ELSE m

Crossover(s, t, from, to) ==
    IF s = <<>> \/ t = <<>> THEN s
    ELSE LET a == AtMost(from, Len(s))
             b == AtLeast(a, AtMost(to, Len(s)))
         IN  SubSeq(s, 1, a) \o SubSeq(t, a + 1, AtMost(b, Len(t))) \o SubSeq(s, b + 1, Len(s))

\* The child of two parents before its mutation.
Crossed(s, t) ==
    {s} \cup IF Len(s) > 1 /\ Len(t) > 1
             THEN {Crossover(s, t, a, b) : a \in 0..Len(s), b \in 0..Len(t)} ELSE {}

\* insert, delete and swap of Mutator.
Inserted(s) == {InsertAt(s, i, p) : i \in 1..Len(s) + 1, p \in Known}
Deleted(s)  == IF Len(s) =< MinLength THEN {s} ELSE {RemoveAt(s, i) : i \in DOMAIN s}
Swapped(s)  ==
    IF Len(s) < 2 THEN {s}
    ELSE {[s EXCEPT ![x[1]] = s[x[2]], ![x[2]] = s[x[1]]] :
             x \in {y \in (1..Len(s)) \X (1..Len(s)) : y[1] # y[2]}}

WithLowering(s) ==
    IF Lowering \cap ToSet(s) = {} THEN <<"mem2reg">> \o s ELSE s

\* normalize: what it pads with is drawn at random.
Normalized(s) ==
    IF s = <<>> THEN {Fallback}
    ELSE LET n == WithLowering(Collapse(s))
         IN  IF Len(n) < MinLength
             THEN {n \o pad : pad \in [1..MinLength - Len(n) -> Known]}
             ELSE {SubSeq(n, 1, AtMost(Len(n), MaxLength))}

\* mutate: nothing but normalize, or one operation, a filter and normalize again.
Mutated(s) ==
    LET once == Normalized(s) IN
    once \cup UNION {Normalized(Filter(m)) :
                        m \in UNION {Inserted(n) \cup Deleted(n) \cup Swapped(n) : n \in once}}

Children(parents) == UNION {Mutated(c) : c \in UNION {Crossed(s, t) : s, t \in parents}}

----------------------------------------------------------------------------
(* What opt makes of a pipeline.                                           *)

\* The transformations in their order, whatever adaptors they run in.
Word(parts) == Through(LAMBDA w, part : w \o part.passes, <<>>, parts)

\* An idempotent pass right after itself changes nothing.
Reduced(w) ==
    LET kept[i \in 0..Len(w)] ==
            IF i = 0 THEN <<>>
            ELSE IF i > 1 /\ w[i] = w[i - 1] /\ w[i] \in Idempotent THEN kept[i - 1]
            ELSE Append(kept[i - 1], w[i])
    IN  kept[Len(w)]
Meaning(s) == Reduced(Word(OptString(s)))

\* opt parses an argument only if groups are full and adaptors take their passes.
Parses(parts) ==
    parts = DefaultO2 \/ \A i \in DOMAIN parts :
        /\ parts[i].passes # <<>>
        /\ \A j \in DOMAIN parts[i].passes : Kind[parts[i].passes[j]] \in Nests[parts[i].adaptor]

\* Passes that the registry lists, or for which its default is right.
Classified == {p \in Passes : p \in DOMAIN Table \/ Kind[p] \in Nests["function"]}
=============================================================================
