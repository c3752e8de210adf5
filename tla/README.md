# Autotune in TLA+

Autotune searches for LLVM pass pipelines that make one C/C++ program faster
than `-O3`: a genetic search compiles, checks and times candidates, the winner
is timed again, graded, prescribed and recorded, and later commands judge or
replay the report. This directory models the parts of the program where steps
of several threads, processes or commands meet, or where a claim made late
depends on a measurement or a verdict made early.

Source lines below are those of `src/src/autotune/`.

## 1. The system

| Component | State it keeps | Operations | What is hard | What makes it correct |
|---|---|---|---|---|
| Persistent cache, compilation layer (`search/persistent_cache.py`) | pairs `<key>.bin`, `<key>.json` | get, put, quarantine, clear | no lock: threads and processes interleave between system calls; kills between the two files | no altered or torn bytes are served; entries become usable again |
| Correctness and performance layers (same file) | one JSON file per key | get, put, clear | the keys leave out what a verdict depends on; modes decide per layer | a verdict fits the session that uses it |
| Candidate evaluation (`search/genetic.py:173-338`) | `session_eval_cache` | `evaluate_individual` on a thread pool | four layers asked in turn, results shared by threads | valid means "behaves as the baseline" |
| Genetic search (`search/genetic.py:340-505`) | population, best so far, stagnation, pool | initialise, evaluate, rank, stop, breed | exceptions of threads, stop reasons, elites across generations | nothing measured is lost; nothing unevaluated is returned; it ends |
| Confirmation and reporting (`services/doctor.py`, `services/optimize.py`, `cli.py` search) | run directory, report, history, seed archive, knowledge store | confirm, grade, prescribe, write | failed confirmations, interruptions, equal run ids, `runs clean` | claims follow fresh evidence |
| CI gate (`cli.py:1193`) | none | judge a report | trusts the report | passes only what was confirmed |
| Guard, reproduce (`services/guard.py`, `reproduce.py`) | none | build, check, time, judge a report | a fallback for every step that fails; edits under it | accepts only what was checked, rejects only with reason |
| Apply, export (`services/apply.py`, `export.py`) | artifact directories | write IR, assembly, binary, manifest; a bundle | results nobody looks at, shared directories, interruptions | what lies together belongs together |
| Pass pipelines (`llvm/passes.py`, `registry.py`), breeding (`search/mutation.py`) | none | canonicalise, prune, validate, adapt, mutate, cross | each transformation relies on the one before | same transformations; only pipelines `opt` knows |
| Compiler driver (`llvm/compiler.py`) | temporary files | lower, `opt`, emit, or compile directly | partial outputs, timeouts, one uncaught exception | an executable of the asked pipeline, or none |
| Benchmark runners, sandbox (`benchmark/linux.py`, `macos.py`, `sandbox/`) | process groups, samples | warm up, time, kill on timeout | failures half-way, children that stay behind | all samples or an error; no stray beside a sample |
| Correctness validators (`benchmark/correctness.py`) | none | compare two observations | truncation, markers, what a pattern does not see | accepts what behaves as documented |
| Stress orchestrator (`stress/`) | results of a process pool | run kernels, aggregate | one kernel raising | totals |
| LLM client, analysis, doctor checks, HTML, UI, configuration | none that others share | queries and formatting | - | - |

The components meet as follows. `doctor`, `optimize`, `search` and `stress`
create a `GeneticAlgorithmEngine` with a cache manager; its threads call
`evaluate_individual`, which asks the session memory and then the three cache
layers, and otherwise the compiler driver, the sandbox and the runner. The
command takes `best_individual`, confirms it, and writes a report and a history
entry; confirmed winners enter the seed archive and the knowledge store, from
which later searches are seeded. `gate`, `guard`, `reproduce`, `apply`,
`export` and `compare` read reports. Shared state between processes is the
directory `.autotune/` of the working directory; between threads, the engine's
memory and temporary directory.

## 2. Modules

| Module | Models | EXTENDS |
|---|---|---|
| `CompilationCache` | compilation layer, link step, `cache clear`, kills, damage; implements `ExecutableStore` | INSTANCE of `ExecutableStore` |
| `ExecutableStore` | what that layer promises: a store with an atomic lookup and put | - |
| `CompilationCacheProofs` | its theorems, the refinement among them | `CompilationCache`, `TLAPS` |
| `Evaluation` | `evaluate_individual` over all layers | - |
| `EvaluationProofs` | its theorems | `Evaluation`, `TLAPS` |
| `Pipelines` | pass sequences: pruning, keys, the argument of `opt`, breeding (operators) | - |
| `SequenceLemmas` | induction over sequences, and what a loop computes (lemmas) | the library's theorems, `TLAPS` |
| `PipelinesProofs` | theorems about the operators of `Pipelines` | `Pipelines`, `SequenceLemmas` |
| `Correctness` | the validators and what they promise (operators) | - |
| `Trial` | `evaluate_individual` without a cache, subprocess by subprocess; implements `Evaluation` | `Pipelines`, `Correctness`; INSTANCE of `Evaluation` |
| `TrialProofs` | its theorems, the refinement among them | `Trial`, `PipelinesProofs` |
| `GeneticSearch` | `evolve` with its pool, and the choice of the winner | - |
| `GeneticSearchProofs` | its theorems | `GeneticSearch`, `TLAPS` |
| `Diagnosis` | from a winner to report, history, archive and gate | - |
| `DiagnosisProofs` | its theorems | `Diagnosis`, `TLAPS` |
| `Consumers` | guard, reproduce, apply and export on finished reports | - |
| `ConsumersProofs` | its theorems | `Consumers`, `TLAPS` |
| `MC...` | the instances TLC checks | the module they are named after |

Each layer of the stack is a module whose granularity fits its hazards, and
the next one up takes its result in one step: `CompilationCache` steps by
system call and `Trial` by subprocess; `Evaluation` takes "there is an
executable", "it was run and compared" and "it was timed" in one step each;
`GeneticSearch` takes the outcome of an evaluation in one step and steps by
submission, `Diagnosis` takes the search in one step and steps by file
operation, `Consumers` starts from the finished report and steps by tool.

### CompilationCache

`bin` and `meta` are the two files of an entry; `out` is the session's
temporary directory, in which all its threads link a sequence to the same
`cand_<hash>.bin`; `memo` is `session_eval_cache`. Each thread has a program
counter whose labels stand between the system calls of `get_compilation`
(probe, read the metadata, hash the executable, quarantine the two files),
`compile_candidate` (link) and `put_compilation` (probe, copy to a temporary
file, rename, hash, write the metadata by rename). Bytes are `whole`, `torn`
(copied while a linker was writing) or `rotten` (altered); a hash is the bytes
it was computed from. What goes wrong is bounded in number only: a session is
killed at any point; a removal of a quarantine fails, which the code swallows
(`persistent_cache.py:329`), or a copy, rename, read back or write of the
metadata, which ends the evaluation with an exception (`PutRaises`); a file is
altered at any moment (`Damage`); `cache clear` removes files one at a time.
The hash is taken of the copy after it was published (`persistent_cache.py:240`),
so what is altered between the copy and that moment is recorded with a hash that
fits. The history variable `tainted` names the keys to which this has happened;
they are exactly what `AlteredBytesNeverVerified` exempts. Every complete output
of a key is the same `whole` here; that two toolchains make different ones for
one key is the subject of `Evaluation`. A read that fails where the file is there
counts as an alteration, for the code treats both alike.

`ExecutableStore` is the same layer without metadata, hashes, temporary files
and system calls: a map from keys to bytes (`entry`) and where each thread is
(`doing`). A lookup hits or misses in one step, a put finds an entry or fills an
empty one in one step. A hit is answered with what the store takes for bytes
once put there: the output of a compilation, for a `tainted` key also bytes
altered during its put. Unless two threads may link to one file (`Shared`), an
entry is only changed by an alteration, and only removed once something was altered
or a clear began. `ImplementsStore` says that `CompilationCache` does nothing else,
with `Doing` mapping program counters: a lookup takes effect at the caller's last
look at the file (`UseHit`), a miss at the failed probe or the removal of the
metadata, a put at the rename, or at the probe that found a file. Hashing and
recording come after that and change nothing a user of the store can see.

### Evaluation

`comp`, `verdict` and `timing` are the three layers, `memo` the memory of each
session. A configuration is a toolchain (a "build", with the headers it sees)
and what the session's baseline printed, neither of which is in the keys.
`Output[b][k]` is what the executable of pipeline `k` prints when `b` compiled
it. Sessions run in one of the four cache modes (default, `--fresh-benchmark`,
`--fresh`, `--no-cache`); `Drift` says whether they may find different
configurations.

An executable in `comp` is a record of the build it comes from, its bytes (whole,
torn, rotten) and its `seal`: whether the recorded hash is that of these bytes,
is another one, or is missing. So what `CompilationCache` can leave behind is
here, too: `raced` names the keys that two threads of a session have been at
together, whose executables may be torn; a torn or altered entry whose hash fits
is handed to the run, and so is an orphan (`Put` keeps whatever is there); a
quarantine may fail and leave either file, of the other layers as well. What a
torn executable does is its own behaviour or a failure, what an altered one does
is anything (`Verdict`, `Series`). `spoiled` remembers what was ever wrong with
the executables of a key, and is what the properties exempt by name. `Raise` is
an exception that ends an evaluation without a result: of `compile_candidate`,
of `put_compilation` after it has published, of `put_correctness` or
`put_performance`. A run can fail for reasons of the machine, a session be
restarted at any point.

### Pipelines and Correctness

Both are operators without state. A pipeline is a sequence of pass names;
`Canonical`, `Prune`, `OptString` and `Key` are what `passes.py` and
`registry.py` make of it, `Children` the set of all pipelines that crossover,
mutation and normalisation can breed from given parents, whatever the random
numbers. `Table` is the registry's classification, `Kind` what a pass really runs
on: the table is right as far as it goes, and a name it does not list is taken for
a pass of functions (`Class`, `registry.py:90`), which `opt --print-passes` lets
into the search. `Parses` is whether `opt` can parse the argument, by `Kind`;
`Classified` are the passes for which table or default are right. `Meaning` is
what `opt` is told to do: the order of transformations without adaptors, an
idempotent pass right after itself counted once.

An output is a sequence of tokens (timing marker, word, integer, decimal,
checksum line), `Captured` what the sandbox keeps of it. There is one operator
per validator, with what its pattern really matches: `Parsed` loses the sign of
a number without decimal point, `Extracted` the fraction of a checksum.
`Promised` is what docs/correctness.md says of a strategy (of `digest`, that the
artifacts are the same), `Nearly` how far a strategy may fall short of it: of
integers the sign, but no more than that; of checksums the fraction and all but
the first; of artifacts the content. `DigestAccepts` is whether the files exist:
nothing computes a digest.

### Trial

One search without a cache and one thread. `stage` is the next statement of
`evaluate_individual` and of the functions it calls: prune and ask the memory,
`compile_candidate` (`Admit`, `Lower`, `RunOpt`, `Emit`, or `Direct` without
`opt`), the run for the comparison, validator, verdict, the timed series,
score. `raw`, `opt`, `bin` are the files of the driver, with what their maker
was told to do, or `partial`. `proc` is the child under way: it runs, dies,
hangs, or exits and leaves a child that keeps the streams open (`leaderless`);
`runs` counts the successful runs of the series. A world fixes what varies between
sessions: strategy, platform, whether there is an `opt`, what baseline and
candidate print, and what the user's script and artifacts say. `E` is the `Evaluation` this is one thread of:
each stage maps to a label of its `pc`, a world to a toolchain whose executables
agree with the baseline, differ from it or crash, and a run lost to the machine
counts as transient once the series it belongs to is over.

### GeneticSearch

`phase` is where the main thread is in `evolve`; `waiting` and `running` are
the submissions to the `ThreadPoolExecutor`; an individual is a pipeline and a
normalized speed, `None` before its evaluation and `Bad` for `-inf`. A
re-proposed pipeline is answered from `memo`, a repeat that pruning removes is
answered as what it was pruned to. Breeding keeps the best valid individuals
with their fitness and fills the rest with any pipelines that the two fill loops
(`genetic.py:160` and `:482`) would let in. Any number of generations is modelled,
0 included, which the command line does not refuse: the initial population then
comes back unevaluated, and nothing of it is confirmed. `top`, `gap` and
`measured` (how often each pipeline was measured) are history variables.

### Diagnosis

A run of `doctor`, `optimize` or `search` goes through its stages; `sample` is
the evidence that will be graded: a ratio of medians in percent, whether it is
significant, whether the low-noise conditions of Grade A hold, whether it was
measured after the search, and whether the winner was correct. `reports`,
`entries` and `dirs` are the files: opening one truncates it, closing it makes
it whole unless another run is writing the same name. Runs may carry the same
run id (its resolution is one second), be interrupted anywhere, and have their
directory removed by `runs clean`. `Claim` is the prescription with its grade,
`GatePasses` the condition of `autotune gate`.

### Consumers

Commands run side by side, each with a report; `pc` is the tool a command calls
or the file it writes next. `install[r]` is what the installed toolchain makes
of the recorded pipeline (the same program, another one, or an error). `base`
and `cand` are the versions of the source the two binaries were built from,
because each compiler call reads the source anew; a median that is missing is
`NoMetrics`, and `OrDefault` the 1.0 ms written in for it. A file of a directory
holds the version of the source it was made from and the report it was made for;
a file that was opened and not finished is `Cut`. Every tool may fail (`Fault`), an
author may edit the source and a command be interrupted anywhere. An interrupt
reaches the tool that is running as well: `Spoil` is what it, or a failure, leaves
of the tool's output, the file as it was, a part of it, or nothing. Both are
recorded in `broke`. `calm` records that neither an edit nor another writer came
between. `ExitCode` is the status the shell sees, with and without `--json`.

## 3. Runs

| Run | Instance | Shows |
|---|---|---|
| `cache_processes` | 2 sessions of one thread in any mode, 1 key, two faults of any kind: a kill, an alteration, a clear, a failing write or removal | `OrphansHaveOwners`, `AlteredBytesNeverVerified`, `NoTornArtifact`, `NoFalseAlarm`; the refinement `ImplementsStore`; under fairness `EntryIsRecomputed` |
| `cache_killed` | 2 sessions of one thread, one kill, nothing else | `EngineRecomputesEntry` is violated |
| `cache_torn` | one session of two threads | `WorkersNeverPublishTornArtifacts` is violated |
| `eval_uniform` | one search of 3 threads, restarted at will, no drift, 1 pipeline whose baseline agrees with it or does not, all modes and faults | `ValidMeansCorrect`, `RejectionsAreJustified` |
| `eval_mixed` | 2 searches whose baselines differ and drift, 1 pipeline, all modes and faults | `BypassIsTrustworthy` |
| `eval_outputs` | 2 searches, before and after an upgrade | `OutputsAreCorrect` is violated |
| `trial` | 2 trials bred from 2 seeds (an alias, an analysis, an unknown name, a pass of modules the registry does not list), or of one pipeline under every strategy and every pair of short outputs; one run lost | `ResultFitsThePipeline`, `OptGetsWhatItKnows`, `MeasuredIsItsOwn`, `AcceptedAsPromised`, `AlikeIsAccepted`; the refinement `ImplementsEvaluation`; under fairness `TrialsEnd` |
| `trial_digest` | trials compared by the user's artifacts or script | `DigestsAreCompared` is violated |
| `search_generations` | 4 generations of 3 with 2 elites, from 4 pipelines of which one is a repeat of another, 2 threads, 3 speeds, plateau and budget | `BestIsReturned`, `ReturnedIsEvaluated`, `PlateauIsReal`, `MeasuredByRacersOnly`; under fairness `Terminates` |
| `diagnosis` | 2 runs, 2 run ids, ratios 0.97, 1.01, 1.03, 1.10, one clean | `ClaimIsSound`, `HistoryMatchesReport`, `ArchiveIsConfirmed` |
| `diagnosis_gate` | the same | `GateTrustsConfirmation` is violated |
| `consumers` | a guard, a reproduce or an export alone, or two applies into one directory; 4 reports, 2 failures, an edit, an interrupt | `AcceptedIsFaithful`, `RejectionsHaveReasons`, `GuardComparesMeasurements`, `FaithfulReplayConfirms`, `AppliedIsWhole`, `ManifestListsWhatExists`; under fairness `JudgementsEnd` |

The first run of each module also checks its `TypeOK`.

Bounds. One key is enough for the compilation layer because no operation
touches two keys (the proofs cover any number). Two threads or sessions give
every pairwise race; two faults of any kind give every single one and every pair,
at every point of every interleaving: a kill and a failing write, an alteration
under a clear. `Evaluation` has one of each fault (an alteration, a clear, a lost
run) together; its third thread finds what the other two have torn or left while
they go on. A population of three with two elites is the smallest in which elites
are ordered and a child is bred beside them, and in four generations a plateau of
two can be reached, broken and reached again; of four pipelines one is a repeat
of another, so that two threads can measure one pipeline side by side. The four
ratios lie on all sides of 0.98, 1.02 and 1.05, the bounds of the grades, the
classes and the gate.

In `trial`, breeding from the two seeds gives 36 pipelines of two and three
passes under 19 keys, among them an idempotent pass repeated, another pass
repeated under an alias, module passes between function passes, and analyses,
which have no place in the argument of `opt`; two trials are the fewest in which
the second can be answered from memory or find files of the first. Three warm-up
and two timed runs (one and two on macOS) let a run be lost in every part of a
series. The sandbox keeps two tokens, so that outputs of three are cut off; each strategy is given every pair of outputs of
the tokens it tells apart, and the numbers -2, 2, 1 lie on both sides of the
tolerance 1 and of a lost sign. In `consumers`, times are in tenths of a
millisecond: 1.0 (which is also the default), 1.5, 2.0 and 3.0 lie on both sides
of guard's 5%, of reproduce's tolerance of 10% and of its 50% rule, for a report
whose baseline is faster and one whose baseline is slower than 2.0 ms. Two faults
let a baseline and a candidate fail in one command; judges and exports share
nothing with others, so they run alone, and two applies meet in one directory.
Threads of a session, pipelines and run ids are symmetric where the `.cfg`
says so; runs with a temporal property use no symmetry.

Deadlock is checked for the two cache modules, whose sessions can always go on.
A search, a trial and a command end, so their runs do not check it; that they get
to their end is `Terminates`, `TrialsEnd` and `JudgementsEnd`.

Fairness. A thread inside an evaluation keeps being scheduled and every
subprocess it waits for has a timeout (`compiler.py` and `executor.py` pass
`timeout=` to every call), so its steps are weakly fair; so is the main thread
of a search. Two subprocesses have none, and their steps are not fair: a
verification script (`correctness.py:484`), so `TrialsEnd` exempts worlds with
one, and the `opt` of `apply` (`apply.py:91`), so `JudgementsEnd` says nothing
of an apply. Nothing obliges anyone to submit a key, breed, edit, interrupt,
kill, damage or clear: `EngineRecomputesEntry` and `EntryIsRecomputed` say what
happens *if* a key keeps being evaluated, the second whatever goes wrong but for
keys with an orphan and `tainted` ones.

### Disagreements with the documentation

- `cache_killed`: a session killed between the two files of an entry leaves an
  executable without metadata. `get_compilation` never returns it and
  `put_compilation` never replaces it (`persistent_cache.py:238`), so the key
  is compiled anew for ever; docs/caching.md:72-78 promises recovery from an
  interrupted process.
- `cache_torn`: threads with equal sequences link to one file while another
  copies it; docs/caching.md:49-51 promises atomic publication.
- `eval_outputs`: the version strings in the compilation key are constants
  (`compiler.py:70`), and included headers, arguments and the baseline's output
  are in no key; verdicts outlive an upgrade, against README.md:40.
- `diagnosis_gate`: a search-time number is graded as a fresh confirmation when
  the confirmation fails (`doctor.py:238`, `optimize.py:129`), and `search`
  reports its search-time ratio under the grade of the confirmation
  (`cli.py:772-785`), against docs/limitations.md:20.
- `trial_digest`: `FileDigestValidator` computes no digest and accepts whatever
  artifacts exist (`correctness.py:437`), against docs/correctness.md:35-36.

Others that no run refutes by itself, because the model states them as they are
and the properties name them as exceptions:

- Nothing reads `screened` (`genetic.py:334`), against docs/multi-fidelity.md:30:
  a candidate below 0.80 takes part in everything that follows.
- The numeric comparison does not see the sign of an integer, and takes an
  exponent for a number of its own (`correctness.py:362`), against
  docs/correctness.md:34; a checksum ends at its decimal point
  (`correctness.py:255`). `Nearly` names both.
- `put_compilation` reads the hash it records off the published copy
  (`persistent_cache.py:240`): an alteration before that is blessed. `tainted`
  names these keys.
- Not only a kill: a write or a removal that fails between the two files of an entry
  leaves the executable without metadata, too (`persistent_cache.py:246`, `:329`);
  `OrphansHaveOwners` names them.
- A pass the registry does not list is put into a function adaptor whatever it is
  (`registry.py:90`), and `opt` then rejects the argument; `Classified` names the
  others.
- `reproduce --json` exits with 0 whatever the verdict (`cli.py:289-291`), which
  `ExitCode` follows.
- `reproduce` means to exit with 2 for INCONCLUSIVE, but the `except Exception`
  around it turns that into 1 (`cli.py:324-331`), which `ExitCode` follows.
- `apply` on a report of parity makes its IR with `default<O3>`, its assembly
  with `-O3` and its binary with the `default<O2>` of an empty pipeline
  (`apply.py:89-101`, `registry.py:108`); what it announces as unoptimized IR
  (`apply.py:80`) is compiled with `-O3` (`compiler.py:438`). `AppliedIsWhole`
  compares sources and reports, not levels.

## 4. Proofs

All theorems hold for every value of the constants that satisfies the named
assumptions: any number of threads, sessions, keys, configurations, faults.

- `CompilationCacheProofs`. `TypeCorrect` is inductive as it stands.
  `AlteredNeverVerified` needs `AlteredInv`: as long as nobody alters what is
  being put, no path into a hash or into metadata starts at altered bytes.
  `OrphansOwned` needs `OrphanInv`: nothing is cleared before a clear, and whoever
  is about to compare or to record a hash has one, so that only kills, clears and
  failures can leave an executable without metadata to nobody. `NothingTorn` and
  `NoAlarms` assume one thread per session; `TornInv` says that a private output
  directory is only ever written by its owner, `AlarmInv` that every metadata
  file has its executable or a thread about to account for it.
  `CacheImplementsStore` is the refinement of `ExecutableStore` (`StoreStep`, by
  one case per action). It needs these and `ModeInv`, that only sessions with a
  cache are ever inside it.
- `EvaluationProofs`. `TypeCorrect`; all else rests on `FilesInv`: what is wrong
  with an executable is known of its key, and without drift every executable was
  built by the toolchain of every session. `ValidIsCorrect` needs `ApprovalInv`:
  of a candidate that misbehaves, and whose executable nobody altered, there is
  no verdict "pass", no judgement and no timing anywhere. `RejectedByFaultOnly`
  needs `RejectionInv`: a candidate that behaves, and with whose executable
  nothing was ever wrong, is nowhere rejected, and a thread at work on it has an
  executable to run from its acquisition on. `BypassWorks` needs `BypassInv`: the
  same two facts for a thread of a session that does not read, whatever other
  sessions put into the layers.
- `GeneticSearchProofs`. `TypeCorrect` follows from `ShapeInv` (the pool is in use
  only while a generation is evaluated, nothing is bred from the last generation,
  the counters are behind the generations ranked). `ReturnedEvaluated` needs
  `EvaluatedInv`: while evaluating, whoever has no fitness is in the hands of the
  pool unless an evaluation raised. `BestReturned` needs `BestInv`: the highest
  speed ever measured belongs to a member of the population, and neither the
  population nor the session's memory exceeds it; breeding preserves it because
  the elites are the best (`ElitesAreBest`, the lemma about the sort and the slice
  of `genetic.py`). `PlateausAreReal` needs `PlateauInv`: the code's count never
  exceeds the generations really without a gain. `MeasuredByRacers` needs
  `RacersInv`: what has been measured is remembered, and the measurements of a
  pipeline that have ended, together with the threads still at it, are no more
  than the threads. It is a count, so it needs cardinalities, and it holds for any
  number of threads. All hold for any number of generations, 0 included.
- `DiagnosisProofs`. `TypeCorrect` is inductive. `ClaimsAreSound` needs
  `EvidenceInv` (no evidence before the confirmation, none without a winner,
  significance only with a gain) and the lemmas `GradeMeans` and `ClaimMeans`
  about the grades and classes. `OnlyConfirmedIsArchived` needs `ArchiveInv`: a
  search that has archived measures no more and never reaches the knowledge store.
  `LedgerPointsToReports` needs `LedgerInv`: while nothing is cleaned, the report
  of a run alone at its place is partial exactly between its opening and its
  closing and whole from then on, and its entry comes later.
- `TrialProofs`. `TypeCorrect` needs `SeriesInv`: where a trial is in a series of
  runs bounds the count, and only a lost series has a process that fails or a
  loss. `MeasuredOwn` needs `OwnInv`: at each stage the files are those of the
  candidate's own pipeline, and a series that reaches its score without a loss
  has had all its runs. `TrialImplementsEvaluation` is the refinement of `Evaluation`, for any
  pipelines and worlds: every step of a trial is a step of the evaluator's one
  thread or a stutter (`RefinesStep`, by one case per action). It rests on
  `TypeCorrect`, on `SeriesInv`, and on `LostIsRejected`: a run that was lost
  never counts as agreeing, which is why the assumption on worlds asks for one
  strategy that looks at the run. `OptIsCalledRight` and `ResultsFit` need
  `PipelineInv`: what is evaluated has canonical names, what is compiled has known
  ones, and what is remembered under a key was obtained with the program the key
  spells; with it both follow from the theorems about pipelines. `AcceptsAsPromised`
  and `AlikeAccepted` need `JudgedInv` (a verdict is that of the strategies on a
  run that came to its end, or a failure after a fault) and one lemma per direction
  about the validators: `PassesAsPromised` (what a strategy accepts is as
  documented, or `Nearly` so) and `AlikePasses` (outputs that differ in
  nothing but timing markers pass every strategy).
- `SequenceLemmas` and `PipelinesProofs`. An induction theorem with a predicate as
  parameter is out of the provers' reach, so a predicate is given as the set of
  what satisfies it: `Inductive` comes from the well-foundedness of `<`,
  `SeqInductive` from `Inductive`. The operators of `Pipelines` are loops over a
  sequence, written as recursive functions on its positions: `Recursion` says that
  such a function exists, `Fold` that there is one function on all sequences which
  grows with each `Append`, `Looped` that the loop has its values, and each operator
  has a lemma that says what it computes of `Append(s, p)`. From these come
  `PruningKeepsMeaning` (dropping the repeats before dropping what does no work
  leaves the same transformations), `ArgumentParses` (every adaptor has passes, all
  of a kind that `opt` can nest in it, if all passes are `Classified`) and `ChildrenFit` (whatever the random numbers, a child is
  within the bounds of length).
- `ConsumersProofs`. A step of one command leaves the others as they were but
  for the source, the files of a directory they share and `calm`
  (`OthersFramed`). `AcceptedFaithful`, `RejectionsReasoned` and `GuardMeasures`
  follow from `JudgedInv`, which says for each step of a judge what has been
  built, checked and measured so far (`Judged`), and what a verdict promises
  (`Verdicted`). `AppliedWhole` needs `WholeInv`: what an undisturbed apply has
  written up to each of its steps. `ManifestsListWhatExists` needs `ManifestInv`:
  an apply that is past a tool finds its artifact sound, that is present and
  complete unless the tool that makes it was broken in an apply to the directory
  (`Sound`), and so are all artifacts beside a finished manifest. `ReplayConfirms` needs `ReplayInv` (a
  judge that nothing disturbs has a candidate and ends with a verdict that says
  what the comparison of two measurements says) and `SameMedians`, arithmetic: a
  ratio recomputed from the recorded medians is neither past guard's threshold nor
  out of reproduce's tolerance, whatever they are. One step per action, for any number
  of commands, reports, directories and faults.

Only model-checked are `EntryIsRecomputed`, `Terminates`, `TrialsEnd` and
`JudgementsEnd`: liveness under fairness, out of the prover's reach. Every
invariant, action property and refinement that a passing run checks is also a
theorem.

## 5. Not modelled, and the plan

Not modelled because no state is shared or changed, and no order of steps
matters: LLM client, workload analysis, doctor checks and environment
fingerprint, HTML and terminal output, configuration, the read-only services
(validate, compare, inspect, profile, explain), the parser of pipeline files.
`enforce_lru_quota`, snapshots and `--resume`, and the in-memory candidate cache
are never reached or written by the program. The statistics behind `significant`
and `clean`, instruction counts and the clock are abstracted to what the
properties tell apart. The stress orchestrator is a process pool whose tasks
share nothing, each of them a search.

Known and left without a property, because a single call shows them and there is
no behaviour of several steps to check:

- `stress/orchestrator.py:107` takes a ratio of speeds for nanoseconds, and `:183`
  lets one kernel that raises end the suite without its report.
- Threads increment `cache_mgr.metrics` without a lock (`genetic.py:250`); the
  counters are only printed.
- `enforce_lru_quota` (`persistent_cache.py:334`) removes files one by one without
  regard for pairs; nobody calls it.
- `--resume` (`genetic.py:358`) reads a snapshot nobody writes, and swallows every
  error.
- Truncation to `max_length` may cut off the lowering pass (`mutation.py:47`): a
  slower candidate, not a wrong one.
- What children that escape a timeout (`timeout.py:14`) do to the timing of later
  runs: the properties of `Trial` say that the trial ends, not that the machine is
  quiet.
- The significance of a gain is computed on both sides (`evidence.py:154`); the
  model takes significance only with a gain, so the direction is abstracted.
- Zero repetitions raise in the median (`linux.py:126`); the models have at least one.

Left for later, in this order:

1. `Evaluation` on `ExecutableStore`, in place of its own one-step layer.
2. `KnowledgeStore`: archive, similarity search and seeding across searches,
   composed with `Diagnosis`.
3. `Trial` with several threads, on the store.
4. What `Evaluation` promises `GeneticSearch` of one evaluation, as an abstract
   specification that both refer to.
