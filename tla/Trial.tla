-------------------------------- MODULE Trial --------------------------------
(***************************************************************************)
(* The trial of a candidate, without a cache: how a pipeline is bred and   *)
(* pruned, compiled by the stages of the driver (llvm/compiler.py), run in *)
(* the sandbox (sandbox/executor.py) by a benchmark runner                 *)
(* (benchmark/linux.py, macos.py), compared and timed, one subprocess at a *)
(* time.  Evaluation takes the compilation, the comparison and the timing  *)
(* in one step each; this module implements it.                            *)
(***************************************************************************)
EXTENDS Pipelines, Correctness

CONSTANTS
    Worlds,       \* what a search may meet, see WorldType
    Seeds,        \* the pipelines that a population may hold
    Bred,         \* Bred[x]: the pipelines that are bred of them in world x
    Keys,         \* names of candidates
    Warmups,      \* warm-up runs asked for by the fidelity
    Repetitions,  \* its timed runs
    MaxTrials,    \* bound: candidates bred in a session
    MaxFaults     \* bound: runs that fail for a reason of the machine

WorldType ==
    [strategy : Seq(Strategies), side : [artifacts : {"missing", "same", "different"}, script : STRING],
     opt : BOOLEAN,                     \* LLVM's opt is installed
     platform : {"Linux", "Darwin"},
     base : [ok : {TRUE}, exit : {0}, out : Seq([kind : Kinds, value : Int]),
             err : Seq([kind : Kinds, value : Int])],
     cand : [ok : BOOLEAN, exit : Nat, out : Seq([kind : Kinds, value : Int]),
             err : Seq([kind : Kinds, value : Int])]]

ASSUME TrialAssumption ==
    /\ Worlds \subseteq WorldType
    /\ Seeds \subseteq Seq(Passes)
    /\ \A x \in Worlds :
          /\ x.cand.ok = (x.cand.exit = 0)
          /\ Bred[x] # {} /\ Bred[x] \subseteq Children(Seeds)
          /\ \A b \in Bred[x] : Key(Prune(b)) \in Keys
          \* no command compares by the user's artifacts or script alone
          /\ \E i \in DOMAIN x.strategy : x.strategy[i] \notin {"digest", "script"}
    /\ Warmups \in Nat /\ Repetitions \in Nat \ {0}
    /\ MaxTrials \in Nat /\ MaxFaults \in Nat

VARIABLES
    world,    \* the world of this session
    stage,    \* the next step of the trial
    bred,     \* the pipeline as the search bred it
    seq,      \* the candidate under evaluation: pruned, and not known yet
    raw, opt, \* raw.bc and opt.bc of the temporary directory
    bin,      \* cand_<hash>.bin
    proc,     \* the run that is under way
    runs,     \* runs of this series that succeeded
    lost,     \* whether this series failed for a reason of the machine
    judged,   \* is_correct
    memo,     \* session_eval_cache
    origin,   \* history: of what each result in it was obtained
    trials, faults

files   == <<raw, opt, bin>>
series  == <<proc, runs, lost>>
bounds  == <<trials, faults>>
session == <<memo, origin>>
vars    == <<world, stage, bred, seq, files, series, judged, session, bounds>>

\* What is in a file: which transformations its maker was told to make.
File(state, parts) == [state |-> state, parts |-> parts]
NoFile  == File("none", <<>>)
Partial == File("partial", <<>>)
Plain   == File("whole", <<>>)
\* What a result is obtained of: the pipeline of s, the executable, the runs.
Of(s) == [program |-> OptString(s), bin |-> bin, runs |-> runs]
Stages == {"rest", "prune", "admit", "lower", "opt", "emit", "direct", "check",
           "validate", "record", "judge", "time", "score"}
Procs  == {"none", "runs", "dies", "hangs", "leaderless"}
Results == {"uncompilable", "incorrect", "unmeasured", "measured"}

TypeOK ==
    /\ world \in Worlds
    /\ stage \in Stages
    /\ bred \in Bred[world]
    /\ Key(seq) \in Keys
    /\ proc \in Procs
    /\ runs \in 0..AtLeast(3, Warmups) + Repetitions
    /\ lost \in BOOLEAN
    /\ judged \in {"none", "pass", "fail"}
    /\ memo \in [Keys -> Results \cup {"none"}]
    /\ DOMAIN origin = Keys
    /\ trials \in 0..MaxTrials
    /\ faults \in 0..MaxFaults

Init ==
    /\ world \in Worlds
    /\ stage = "rest"
    /\ bred = CHOOSE b \in Bred[world] : TRUE
    /\ seq = Prune(bred)
    /\ raw = NoFile /\ opt = NoFile /\ bin = NoFile
    /\ proc = "none" /\ runs = 0 /\ lost = FALSE
    /\ judged = "none"
    /\ memo = [k \in Keys |-> "none"]
    /\ origin = [k \in Keys |-> Of(<<>>)]
    /\ trials = 0 /\ faults = 0

Goto(s) == stage' = s

\* The evaluation returns; its result enters the session's memory.
Conclude(result) ==
    /\ memo' = [memo EXCEPT ![Key(seq)] = result]
    /\ origin' = [origin EXCEPT ![Key(seq)] = Of(seq)]
    /\ Goto("rest")

----------------------------------------------------------------------------
(* Breeding, and the memory of the session.                                *)

Breed ==
    /\ stage = "rest" /\ trials < MaxTrials
    /\ trials' = trials + 1
    /\ bred' \in Bred[world]
    /\ Goto("prune")
    /\ UNCHANGED <<world, seq, files, series, judged, session, faults>>

\* The candidate of a key that is known gets what is known; the executable of
\* another key has another path.
Take ==
    LET s == Prune(bred) IN
    /\ stage = "prune"
    /\ IF memo[Key(s)] # "none"
       THEN Goto("rest") /\ UNCHANGED <<seq, bin, judged>>
       ELSE /\ seq' = s /\ judged' = "none"
            /\ bin' = IF Key(s) = Key(seq) THEN bin ELSE NoFile
            /\ Goto("admit")
    /\ UNCHANGED <<world, bred, raw, opt, series, session, bounds>>

----------------------------------------------------------------------------
(* compile_candidate.                                                      *)

\* An empty pipeline is not compiled; names are looked at before any tool is called.
Admit ==
    /\ stage = "admit"
    /\ IF seq = <<>> \/ \E i \in DOMAIN seq : ~IsKnown(seq[i])
       THEN Conclude("uncompilable")
       ELSE Goto(IF world.opt THEN "lower" ELSE "direct") /\ UNCHANGED session
    /\ UNCHANGED <<world, bred, seq, files, series, judged, bounds>>

\* compile_bitcode; its failures and timeout are results.
Lower ==
    /\ stage = "lower"
    /\ \/ raw' = Plain /\ Goto("opt") /\ UNCHANGED session
       \/ raw' = NoFile /\ Conclude("uncompilable")
    /\ UNCHANGED <<world, bred, seq, opt, bin, series, judged, bounds>>

\* run_opt_passes.  The temporary directory goes with a failure, such as that of
\* an argument opt cannot parse.
RunOpt ==
    /\ stage = "opt"
    /\ \/ /\ raw # NoFile /\ Parses(OptString(seq))
          /\ opt' = File("whole", OptString(seq)) /\ Goto("emit") /\ UNCHANGED <<raw, session>>
       \/ opt' = NoFile /\ raw' = NoFile /\ Conclude("uncompilable")
    /\ UNCHANGED <<world, bred, seq, bin, series, judged, bounds>>

\* Mutant: whether the linker succeeded is read off its output file alone.
EmitByFile ==
    /\ stage = "emit"
    /\ raw' = NoFile /\ opt' = NoFile
    /\ \/ bin' \in {opt, Partial} /\ Goto("check") /\ UNCHANGED session
       \/ bin' = NoFile /\ Conclude("uncompilable")
    /\ UNCHANGED <<world, bred, seq, series, judged, bounds>>

\* emit_executable: a linker that fails or is stopped may leave something behind.
Emit ==
    /\ stage = "emit"
    /\ raw' = NoFile /\ opt' = NoFile
    /\ \/ bin' = opt /\ Goto("check") /\ UNCHANGED session
       \/ bin' \in {NoFile, Partial} /\ Conclude("uncompilable")
    /\ UNCHANGED <<world, bred, seq, series, judged, bounds>>

\* Without opt the source is compiled with -O2; a timeout is an exception that
\* ends the evaluation without a result.
Direct ==
    /\ stage = "direct"
    /\ \/ bin' = Plain /\ Goto("check") /\ UNCHANGED session
       \/ bin' \in {NoFile, Partial} /\ Conclude("uncompilable")
       \/ bin' \in {NoFile, Partial} /\ Goto("rest") /\ UNCHANGED session
    /\ UNCHANGED <<world, bred, seq, raw, opt, series, judged, bounds>>

----------------------------------------------------------------------------
(* A series of runs: one for the comparison, or the timed ones.            *)

Runs == [check |-> 1, time |-> Repetitions]
\* "max(3, warmup_runs)" on Linux, "max(1, warmup_runs)" on macOS.
Warm(s) == AtLeast(IF world.platform = "Linux" THEN 3 ELSE 1, IF s = "check" THEN 0 ELSE Warmups)
After   == [check |-> "validate", time |-> "score"]

\* The series of this stage is over; run_benchmark has a result.
EndSeries == Goto(After[stage])

\* execute: a run in a process group of its own.  It may be killed, hang, or
\* leave a child behind that keeps its streams open.
Launch ==
    /\ stage \in {"check", "time"} /\ proc = "none"
    /\ \/ proc' = "runs" /\ UNCHANGED <<lost, faults>>
       \/ /\ faults < MaxFaults /\ faults' = faults + 1
          /\ lost' = TRUE
          /\ proc' \in {"dies", "hangs", "leaderless"}
    /\ UNCHANGED <<world, stage, bred, seq, files, runs, judged, session, trials>>

\* communicate returns.  The first run that fails ends the series.
Finish ==
    /\ proc \in {"runs", "dies"}
    /\ proc' = "none"
    /\ IF proc = "runs" /\ world.cand.ok
       THEN /\ runs' = runs + 1
            /\ IF runs' = Warm(stage) + Runs[stage] THEN EndSeries ELSE UNCHANGED stage
       ELSE EndSeries /\ UNCHANGED runs
    /\ UNCHANGED <<world, bred, seq, files, lost, judged, session, bounds>>

\* Mutant: the timeout covers only processes that are still running.
TimeoutPolls ==
    /\ proc = "hangs"
    /\ proc' = "none"
    /\ EndSeries
    /\ UNCHANGED <<world, bred, seq, files, runs, lost, judged, session, bounds>>

\* communicate times out, whether or not the process it started is gone.  Its
\* group is killed only if it is not (timeout.py:14); what children that escape
\* do to later runs is not modelled.
Timeout ==
    /\ proc \in {"hangs", "leaderless"}
    /\ proc' = "none"
    /\ EndSeries
    /\ UNCHANGED <<world, bred, seq, files, runs, lost, judged, session, bounds>>

----------------------------------------------------------------------------
(* What becomes of the runs.                                               *)

\* What the validator gets: nothing of a run that was lost.
Observed == IF lost THEN Lost ELSE Seen(world.cand)

Validate ==
    /\ stage = "validate"
    /\ judged' = IF Accepts(world.strategy, Seen(world.base), Observed, world.side)
                 THEN "pass" ELSE "fail"
    /\ runs' = 0 /\ lost' = FALSE
    /\ Goto("record")
    /\ UNCHANGED <<world, bred, seq, files, proc, session, bounds>>

\* put_correctness of a manager that is not enabled.
Record ==
    /\ stage = "record"
    /\ Goto("judge")
    /\ UNCHANGED <<world, bred, seq, files, series, judged, session, bounds>>

\* Mutant: the reason is recorded but the candidate is timed.
JudgeLenient ==
    /\ stage = "judge"
    /\ Goto("time") /\ UNCHANGED session
    /\ UNCHANGED <<world, bred, seq, files, series, judged, bounds>>

Judge ==
    /\ stage = "judge"
    /\ IF judged = "pass" THEN Goto("time") /\ UNCHANGED session ELSE Conclude("incorrect")
    /\ UNCHANGED <<world, bred, seq, files, series, judged, bounds>>

\* Mutant: the count of runs is not started anew.
ScoreKeepsCount ==
    /\ stage = "score"
    /\ Conclude(IF lost \/ ~world.cand.ok THEN "unmeasured" ELSE "measured")
    /\ lost' = FALSE
    /\ UNCHANGED <<world, bred, seq, files, proc, runs, judged, bounds>>

\* FitnessEvaluator.evaluate on what run_benchmark returned.
Score ==
    /\ stage = "score"
    /\ Conclude(IF lost \/ ~world.cand.ok THEN "unmeasured" ELSE "measured")
    /\ runs' = 0 /\ lost' = FALSE
    /\ UNCHANGED <<world, bred, seq, files, proc, judged, bounds>>

Compile == Take \/ Admit \/ Lower \/ RunOpt \/ Emit \/ Direct
Run     == Launch \/ Finish \/ Timeout
Assess  == Validate \/ Record \/ Judge \/ Score
Next    == Breed \/ Compile \/ Run \/ Assess

Spec == Init /\ [][Next]_vars

\* Every call of a tool and of the candidate has a timeout; a verification
\* script (correctness.py:484) has none.
Scripted == "script" \in ToSet(world.strategy)
Fairness == WF_vars(Compile \/ Run \/ (Assess /\ ~(stage = "validate" /\ Scripted)))
FairSpec == Spec /\ Fairness

----------------------------------------------------------------------------
(* The evaluation this is a trial of: one thread of one session with       *)
(* --no-cache.  A world is to it a toolchain whose executables agree with  *)
(* the baseline, differ from it, or crash.                                 *)

Agreement ==
    IF ~world.cand.ok THEN "crashes"
    ELSE IF Accepts(world.strategy, Seen(world.base), Seen(world.cand), world.side) THEN "agrees" ELSE "differs"

EvaluationStage ==
    CASE stage \in {"rest", "prune"} -> "rest"
      [] stage \in {"admit", "lower", "opt", "emit", "direct"} -> "acquire"
      [] stage = "check" -> IF runs = 0 /\ proc = "none" THEN "lookup" ELSE "run"
      [] stage = "validate" -> "run"
      [] stage = "record" -> "probe"
      [] stage = "judge" -> "judge"
      [] stage = "time" -> IF runs = 0 /\ proc = "none" THEN "time" ELSE "measure"
      [] stage = "score" -> "measure"

\* Nothing is cached.
Nothing == [k \in Keys |-> "none"]
Outputs == [agrees  |-> [k \in Keys |-> "right"], differs |-> [k \in Keys |-> "wrong"],
            crashes |-> [k \in Keys |-> "crash"]]

E == INSTANCE Evaluation WITH
    Workers <- {"worker"}, Sessions <- {"session"},
    SessionOf <- [w \in {"worker"} |-> "session"],
    Configs <- {[build |-> b, expected |-> "right"] : b \in {"agrees", "differs", "crashes"}},
    Output <- Outputs, Drift <- FALSE,
    Modes <- {"off"},
    MaxTransients <- MaxFaults, MaxDamage <- 0, MaxClears <- 0,
    conf <- [s \in {"session"} |-> [build |-> Agreement, expected |-> "right"]],
    mode <- [s \in {"session"} |-> "off"],
    comp <- [k \in Keys |-> [build |-> "none", bytes |-> "none", seal |-> "none"]],
    verdict <- Nothing, timing <- Nothing,
    memo <- [s \in {"session"} |-> memo],
    pc <- [w \in {"worker"} |-> EvaluationStage],
    key <- [w \in {"worker"} |-> Key(seq)],
    judged <- [w \in {"worker"} |-> judged],
    transients <- IF lost THEN faults - 1 ELSE faults,
    raced <- [s \in {"session"} |-> {}], spoiled <- [k \in Keys |-> {}],
    damages <- 0, clears <- 0

----------------------------------------------------------------------------
(* What a trial promises.                                                  *)

\* Whether the search measures what it bred, or is answered from the session's
\* memory, or prunes first: the result it gets was obtained with a program that
\* makes the same transformations, provided the passes listed as idempotent are
\* (get_sequence_hash, prune_redundant_passes).
ResultFitsThePipeline ==
    LET k == Key(Prune(bred)) IN
    stage = "rest" /\ memo[k] # "none" =>
        Reduced(Word(origin[k].program)) = Meaning(Canonical(bred))

\* What opt gets is within the bounds after pruning too, has only names in
\* canonical form that the validator knows, and nests them so that opt can parse
\* it, unless one is of modules or loops that the registry does not list and so
\* takes for one of functions (registry.py:90; passes.py:175 lets them in).
OptGetsWhatItKnows ==
    stage = "opt" =>
        /\ Len(seq) \in 1..MaxLength
        /\ \A i \in DOMAIN seq : seq[i] \in Known /\ Alias[seq[i]] = seq[i]
        /\ (\A i \in DOMAIN seq : seq[i] \in Classified) => Parses(OptString(seq))

\* A candidate counts as measured only if what was run is a whole executable made
\* of its own pipeline (or of none, without opt) and all its runs succeeded: no
\* median is taken over part of the samples, or over those of another binary.
MeasuredIsItsOwn ==
    \A k \in Keys : memo[k] = "measured" =>
        /\ origin[k].bin = IF world.opt THEN File("whole", origin[k].program) ELSE Plain
        /\ origin[k].runs = Warm("time") + Repetitions

\* What a strategy accepts behaves as its documentation says, as far as the
\* sandbox lets through what it printed (docs/correctness.md:28-38), or else falls
\* short of it in a way that is named and no further (Nearly).
AcceptedAsPromised ==
    judged = "pass" => \A i \in DOMAIN world.strategy :
        LET b == Seen(world.base)  c == Seen(world.cand) IN
        \/ Promised(world.strategy[i], b, c, world.side)
        \/ Nearly(world.strategy[i], b, c, world.side)

\* docs/correctness.md:35-36: FileDigestValidator "Computes SHA-256 digests across
\* output artifact files": it accepts only what left the same artifacts.
DigestsAreCompared ==
    judged = "pass" /\ "digest" \in ToSet(world.strategy) =>
        Promised("digest", world.base, world.cand, world.side)

\* A candidate that cannot be told from the baseline is never rejected unless a
\* run failed, its output was cut off, or the user's own script or artifacts
\* reject it.
AlikeIsAccepted ==
    judged = "fail" /\ faults = 0 /\ Alike(world.base, world.cand) =>
        \/ Beyond(world.base, world.cand)
        \/ world.side.artifacts = "missing" \/ world.side.script # "accepts"

\* Every trial ends, whatever hangs, but for a script of the user.
TrialsEnd == stage # "rest" ~> stage = "rest" \/ Scripted

\* A trial does what Evaluation says of it.
ImplementsEvaluation == E!Spec
=============================================================================
