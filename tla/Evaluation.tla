----------------------------- MODULE Evaluation -----------------------------
(***************************************************************************)
(* evaluate_individual (search/genetic.py): how a candidate pipeline gets  *)
(* its verdict and its timing.  Four layers answer in turn: the memory of  *)
(* the session, the compilation, the correctness and the performance layer *)
(* of the persistent cache (search/persistent_cache.py).  The layers are   *)
(* shared by all sessions, but a verdict also depends on things their keys *)
(* leave out: the installed toolchain, the headers a source includes, the  *)
(* arguments the baseline was run with.                                    *)
(*                                                                         *)
(* Here a lookup and a publication of an executable are one step each,     *)
(* with every outcome that they have in CompilationCache, which takes them *)
(* apart: an entry may be torn, altered, or without its metadata.          *)
(***************************************************************************)
EXTENDS Naturals

CONSTANTS
    Workers,       \* the threads of the search pools
    Sessions,      \* the running searches
    SessionOf,     \* the session a worker belongs to
    Keys,          \* canonical pipelines: what distinguishes compilation keys
    Configs,       \* what a session may find: [build |-> b, expected |-> o]
    Drift,         \* whether sessions may find different ones
    Output,        \* Output[b][k]: what k's executable prints if b compiled it
    Modes,         \* how sessions may open their cache manager
    MaxTransients, \* bound: runs that fail for a reason of the machine
    MaxDamage,     \* bound: files altered at rest
    MaxClears      \* bound: runs of "cache clear" and "cache clear-benchmarks"

Builds == {c.build : c \in Configs}

ASSUME SessionAssumption ==
    /\ SessionOf \in [Workers -> Sessions]
    \* default; --fresh-benchmark; --fresh; --no-cache
    /\ Modes \subseteq {"cached", "freshbench", "fresh", "off"} /\ Modes # {}
ASSUME ConfigAssumption ==
    \* A build is a toolchain with the headers it sees; "none" is no executable.
    /\ Drift \in BOOLEAN
    /\ Configs # {} /\ \A c \in Configs : c = [build |-> c.build, expected |-> c.expected]
    /\ "none" \notin Builds
ASSUME BoundAssumption ==
    MaxTransients \in Nat /\ MaxDamage \in Nat /\ MaxClears \in Nat

\* An executable in the cache: the build it comes from, its bytes (whole, cut off,
\* altered), and whether the hash in its metadata is that of these bytes, another
\* one or unreadable, or missing.
Executables ==
    [build : Builds, bytes : {"whole", "torn", "rotten"}, seal : {"match", "other", "none"}]
Missing == [build |-> "none", bytes |-> "none", seal |-> "none"]

VARIABLES
    conf,     \* conf[s]: the toolchain of session s and what its baseline printed
    mode,     \* mode[s]: enabled, fresh_all and fresh_benchmark of its manager
    comp,     \* comp[k]: the executable that lies under k's compilation key
    verdict,  \* verdict[k]: is_correct of k's correctness entry
    timing,   \* timing[k]: whether k has a performance entry
    memo,     \* memo[s][k]: the Individual in session_eval_cache
    pc,       \* pc[w]: the next statement of the worker
    key,      \* key[w]: the candidate it evaluates
    judged,   \* judged[w]: is_correct
    raced,    \* raced[s]: the keys whose cand_<hash>.bin two threads of s may have
              \* written at a time
    spoiled,  \* history: what was ever wrong with executables of k: torn, or they
              \* ("rotten") or their metadata ("meta") altered
    transients, damages, clears

cache  == <<comp, verdict, timing>>
setup  == <<conf, mode>>
faults == <<transients, damages, clears>>
files  == <<raced, spoiled>>
vars   == <<setup, cache, memo, pc, key, judged, files, faults>>

Verdicts == {"pass", "fail"}
\* A valid Individual was measured here or got an older session's samples.
Valid    == {"measured", "replayed"}
Results  == Valid \cup {"uncompilable", "incorrect", "unmeasured"}
Labels   == {"rest", "acquire", "lookup", "run", "probe", "write", "judge",
             "time", "measure"}

TypeOK ==
    /\ conf \in [Sessions -> Configs]
    /\ mode \in [Sessions -> Modes]
    /\ comp \in [Keys -> Executables \cup {Missing}]
    /\ verdict \in [Keys -> Verdicts \cup {"none", "junk"}]
    /\ timing \in [Keys -> {"none", "kept", "junk"}]
    /\ memo \in [Sessions -> [Keys -> Results \cup {"none"}]]
    /\ pc \in [Workers -> Labels]
    /\ key \in [Workers -> Keys]
    /\ judged \in [Workers -> Verdicts \cup {"none"}]
    /\ raced \in [Sessions -> SUBSET Keys]
    /\ spoiled \in [Keys -> SUBSET {"torn", "rotten", "meta"}]
    /\ transients \in 0..MaxTransients
    /\ damages \in 0..MaxDamage
    /\ clears \in 0..MaxClears

Init ==
    /\ conf \in [Sessions -> Configs]
    /\ Drift \/ \A s, t \in Sessions : conf[s] = conf[t]
    /\ mode \in [Sessions -> Modes]
    /\ comp = [k \in Keys |-> Missing]
    /\ verdict = [k \in Keys |-> "none"]
    /\ timing = [k \in Keys |-> "none"]
    /\ memo = [s \in Sessions |-> [k \in Keys |-> "none"]]
    /\ pc = [w \in Workers |-> "rest"]
    /\ key \in [Workers -> Keys]
    /\ judged = [w \in Workers |-> "none"]
    /\ raced = [s \in Sessions |-> {}]
    /\ spoiled = [k \in Keys |-> {}]
    /\ transients = 0
    /\ damages = 0
    /\ clears = 0

\* "not self.enabled or self.fresh_all", and its kin.
Reads(s)        == mode[s] \in {"cached", "freshbench"}
ReadsTimings(s) == mode[s] = "cached"
Writes(s)       == mode[s] # "off"

Goto(w, label) == pc' = [pc EXCEPT ![w] = label]

\* The evaluation returns; its result enters session_eval_cache.
Conclude(w, result) ==
    /\ memo' = [memo EXCEPT ![SessionOf[w]][key[w]] = result]
    /\ Goto(w, "rest")

\* A candidate the session has not evaluated; another thread may be at it.
Take(w, k) ==
    LET s == SessionOf[w] IN
    /\ pc[w] = "rest"
    /\ memo[s][k] = "none"
    /\ key' = [key EXCEPT ![w] = k]
    /\ judged' = [judged EXCEPT ![w] = "none"]
    /\ raced' = [raced EXCEPT ![s] = @ \cup {j \in {k} :
            \E v \in Workers \ {w} : SessionOf[v] = s /\ key[v] = k /\ pc[v] # "rest"}]
    /\ Goto(w, "acquire")
    /\ UNCHANGED <<setup, cache, memo, spoiled, faults>>

\* get_compilation returns only what verifies.
Found(w) == Reads(SessionOf[w]) /\ comp[key[w]].seal = "match"

\* What it leaves: an entry that does not verify is removed as far as possible.
Left(w) ==
    LET file == comp[key[w]] IN
    IF Reads(SessionOf[w]) /\ file.seal = "other"
    THEN {Missing, file, [file EXCEPT !.seal = "none"]} ELSE {file}

\* The bytes of cand_<hash>.bin, as far as other threads of the session let it be.
Linked(w) == {"whole"} \cup {c \in {"torn"} : key[w] \in raced[SessionOf[w]]}

\* An executable torn by another thread is remembered.
Spoil(k, bytes) ==
    spoiled' = [spoiled EXCEPT ![k] = @ \cup {c \in {"torn"} : bytes = c}]

\* put_compilation keeps an executable that is there, verified or not.
Put(w, left, seal) ==
    LET s == SessionOf[w]  k == key[w] IN
    IF Writes(s) /\ left = Missing
    THEN \E bytes \in Linked(w) :
            /\ comp' = [comp EXCEPT ![k] =
                            [build |-> conf[s].build, bytes |-> bytes, seal |-> seal]]
            /\ Spoil(k, bytes)
    ELSE comp' = [comp EXCEPT ![k] = left] /\ UNCHANGED spoiled

\* get_compilation, or else compile_candidate and put_compilation.
Acquire(w) ==
    /\ pc[w] = "acquire"
    /\ \/ Found(w) /\ Goto(w, "lookup") /\ UNCHANGED <<comp, memo, spoiled>>
       \/ /\ ~Found(w)
          /\ \E left \in Left(w) :
                \/ /\ Conclude(w, "uncompilable")
                   /\ comp' = [comp EXCEPT ![key[w]] = left]
                   /\ UNCHANGED spoiled
                \/ Put(w, left, "match") /\ Goto(w, "lookup") /\ UNCHANGED memo
    /\ UNCHANGED <<setup, verdict, timing, key, judged, raced, faults>>

\* An exception ends the evaluation and leaves no result: of compile_candidate
\* (such as the timeout of its last resort, compiler.py:571), of put_compilation
\* after it has published the executable, or of put_correctness or
\* put_performance, whose file then is not written.
Raise(w) ==
    /\ \/ /\ pc[w] = "acquire"
          /\ \E left \in Left(w) :
                \/ comp' = [comp EXCEPT ![key[w]] = left] /\ UNCHANGED spoiled
                \/ Put(w, left, "none")
       \/ pc[w] \in {"write", "measure"} /\ UNCHANGED <<comp, spoiled>>
    /\ Goto(w, "rest")
    /\ UNCHANGED <<setup, verdict, timing, memo, key, judged, raced, faults>>

\* cand_bin: the linker's own file, or the one in the cache as it is by now.
Executable(w) ==
    LET s == SessionOf[w] IN
    IF Writes(s) THEN {comp[key[w]]}
    ELSE [build : {conf[s].build}, bytes : Linked(w), seal : {"none"}]

----------------------------------------------------------------------------
(* Correctness.                                                            *)

\* Mutant: the schema version of the entry is not looked at.
LookupVerdictUnchecked(w) ==
    /\ pc[w] = "lookup"
    /\ IF Reads(SessionOf[w]) /\ verdict[key[w]] # "none"
       THEN judged' = [judged EXCEPT ![w] = verdict[key[w]]] /\ Goto(w, "judge")
       ELSE UNCHANGED judged /\ Goto(w, "run")
    /\ UNCHANGED <<setup, cache, memo, key, files, faults>>

\* Mutant: an unreadable entry counts as a rejection.
LookupVerdictJunkRejects(w) ==
    /\ pc[w] = "lookup"
    /\ IF Reads(SessionOf[w]) /\ verdict[key[w]] # "none"
       THEN /\ judged' = [judged EXCEPT ![w] =
                            IF verdict[key[w]] = "pass" THEN "pass" ELSE "fail"]
            /\ Goto(w, "judge")
       ELSE UNCHANGED judged /\ Goto(w, "run")
    /\ UNCHANGED <<setup, cache, memo, key, files, faults>>

\* Mutant: fresh_all does not reach the correctness layer.
LookupVerdictAlways(w) ==
    /\ pc[w] = "lookup"
    /\ IF mode[SessionOf[w]] # "off" /\ verdict[key[w]] \in Verdicts
       THEN judged' = [judged EXCEPT ![w] = verdict[key[w]]] /\ Goto(w, "judge")
       ELSE UNCHANGED judged /\ Goto(w, "run")
    /\ UNCHANGED <<setup, cache, memo, key, files, faults>>

\* get_correctness; an entry it cannot use is removed, if that succeeds.
LookupVerdict(w) ==
    LET k == key[w]  reads == Reads(SessionOf[w]) IN
    /\ pc[w] = "lookup"
    /\ IF reads /\ verdict[k] \in Verdicts
       THEN /\ judged' = [judged EXCEPT ![w] = verdict[k]]
            /\ Goto(w, "judge")
            /\ UNCHANGED verdict
       ELSE /\ \/ UNCHANGED verdict
               \/ reads /\ verdict' = [verdict EXCEPT ![k] = "none"]
            /\ Goto(w, "run")
            /\ UNCHANGED judged
    /\ UNCHANGED <<setup, comp, timing, memo, key, files, faults>>

\* The validator accepts a run that succeeds and prints what the baseline did.
Matches(c, k) == Output[c.build][k] # "crash" /\ Output[c.build][k] = c.expected
Accepts(s, b, k) == Output[b][k] # "crash" /\ Output[b][k] = conf[s].expected

\* The verdicts that a run of the file x can lead to: none on a missing one, the
\* beginning of an executable may crash, an altered one may do anything.
Verdict(w, x) ==
    IF x = Missing THEN {"fail"}
    ELSE {v \in Verdicts :
            \/ v = IF Accepts(SessionOf[w], x.build, key[w]) THEN "pass" ELSE "fail"
            \/ v = "fail" /\ x.bytes = "torn"
            \/ x.bytes = "rotten"}

\* Mutant: a run that succeeds is accepted whatever it prints.
RunOnceExitCodeOnly(w) ==
    /\ pc[w] = "run"
    /\ \E x \in Executable(w) :
          judged' = [judged EXCEPT ![w] =
                IF x # Missing /\ Output[x.build][key[w]] # "crash" THEN "pass" ELSE "fail"]
    /\ Goto(w, "probe")
    /\ UNCHANGED <<setup, cache, memo, key, files, faults>>

\* One benchmark run, compared with the baseline's.  An executable that is gone,
\* and a run that fails because of the machine (sandbox timeout), are
\* rejections like any other.
RunOnce(w) ==
    /\ pc[w] = "run"
    /\ \E x \in Executable(w) :
          /\ Spoil(key[w], x.bytes)
          /\ \/ /\ \E v \in Verdict(w, x) : judged' = [judged EXCEPT ![w] = v]
                /\ UNCHANGED transients
             \/ /\ transients < MaxTransients
                /\ transients' = transients + 1
                /\ judged' = [judged EXCEPT ![w] = "fail"]
    /\ Goto(w, "probe")
    /\ UNCHANGED <<setup, cache, memo, key, raced, damages, clears>>

\* put_correctness: only where no entry exists, readable or not.
PutVerdictProbe(w) ==
    /\ pc[w] = "probe"
    /\ Goto(w, IF Writes(SessionOf[w]) /\ verdict[key[w]] = "none"
               THEN "write" ELSE "judge")
    /\ UNCHANGED <<setup, cache, memo, key, judged, files, faults>>

PutVerdict(w) ==
    /\ pc[w] = "write"
    /\ verdict' = [verdict EXCEPT ![key[w]] = judged[w]]
    /\ Goto(w, "judge")
    /\ UNCHANGED <<setup, comp, timing, memo, key, judged, files, faults>>

Judge(w) ==
    /\ pc[w] = "judge"
    /\ IF judged[w] = "pass"
       THEN Goto(w, "time") /\ UNCHANGED memo
       ELSE Conclude(w, "incorrect")
    /\ UNCHANGED <<setup, cache, key, judged, files, faults>>

----------------------------------------------------------------------------
(* Performance.                                                            *)

LookupTiming(w) ==
    LET k == key[w]  reads == ReadsTimings(SessionOf[w]) IN
    /\ pc[w] = "time"
    /\ IF reads /\ timing[k] = "kept"
       THEN Conclude(w, "replayed") /\ UNCHANGED timing
       ELSE /\ \/ UNCHANGED timing
               \/ reads /\ timing' = [timing EXCEPT ![k] = "none"]
            /\ Goto(w, "measure")
            /\ UNCHANGED memo
    /\ UNCHANGED <<setup, comp, verdict, key, judged, files, faults>>

\* The results that the timed runs of the file x can have.
Series(w, x) ==
    IF x = Missing THEN {"unmeasured"}
    ELSE {r \in {"measured", "unmeasured"} :
            \/ r = IF Output[x.build][key[w]] # "crash" THEN "measured" ELSE "unmeasured"
            \/ r = "unmeasured" /\ x.bytes = "torn"
            \/ x.bytes = "rotten"}

\* The timed runs; samples are kept if every run succeeded.
Measure(w) ==
    LET k == key[w] IN
    /\ pc[w] = "measure"
    /\ \E x \in Executable(w), r \in {"measured", "unmeasured"} :
          /\ Spoil(k, x.bytes)
          /\ \/ r \in Series(w, x) /\ UNCHANGED transients
             \/ /\ r = "unmeasured" /\ transients < MaxTransients
                /\ transients' = transients + 1
          /\ timing' = IF r = "measured" /\ Writes(SessionOf[w])
                       THEN [timing EXCEPT ![k] = "kept"] ELSE timing
          /\ Conclude(w, r)
    /\ UNCHANGED <<setup, comp, verdict, key, judged, raced, damages, clears>>

----------------------------------------------------------------------------
(* Sessions and the files they share.                                      *)

\* A session ends or is killed at any point; the next one may find another
\* toolchain, other arguments, another baseline run and other options.
Restart(s) ==
    /\ \E c \in Configs :
          /\ Drift \/ c = conf[s]
          /\ conf' = [conf EXCEPT ![s] = c]
    /\ \E m \in Modes : mode' = [mode EXCEPT ![s] = m]
    /\ memo' = [memo EXCEPT ![s] = [k \in Keys |-> "none"]]
    /\ pc' = [w \in Workers |-> IF SessionOf[w] = s THEN "rest" ELSE pc[w]]
    /\ judged' = [w \in Workers |-> IF SessionOf[w] = s THEN "none" ELSE judged[w]]
    /\ raced' = [raced EXCEPT ![s] = {}]
    /\ UNCHANGED <<cache, key, spoiled, faults>>

\* A file is altered at rest.  If a put has only just ended, it may have happened
\* before the hash was taken, which then is that of the altered bytes.
Damage(k) ==
    /\ damages < MaxDamage
    /\ damages' = damages + 1
    /\ \/ /\ verdict[k] # "none"
          /\ verdict' = [verdict EXCEPT ![k] = "junk"]
          /\ UNCHANGED <<comp, timing, spoiled>>
       \/ /\ timing[k] # "none"
          /\ timing' = [timing EXCEPT ![k] = "junk"]
          /\ UNCHANGED <<comp, verdict, spoiled>>
       \/ /\ comp[k] # Missing
          /\ \E seal \in {"match", "other", "none"} :
                /\ (seal = "none") = (comp[k].seal = "none")
                /\ seal = "match" => \E w \in Workers : key[w] = k /\ pc[w] = "lookup"
                /\ comp' = [comp EXCEPT ![k] = [@ EXCEPT !.bytes = "rotten", !.seal = seal]]
          /\ spoiled' = [spoiled EXCEPT ![k] = @ \cup {"rotten"}]
          /\ UNCHANGED <<verdict, timing>>
       \/ /\ comp[k].seal # "none"
          /\ comp' = [comp EXCEPT ![k] = [@ EXCEPT !.seal = "other"]]
          /\ spoiled' = [spoiled EXCEPT ![k] = @ \cup {"meta"}]
          /\ UNCHANGED <<verdict, timing>>
    /\ UNCHANGED <<setup, memo, pc, key, judged, raced, transients, clears>>

\* "cache clear", and "cache clear-benchmarks", which leaves two layers.
Clear ==
    /\ clears < MaxClears
    /\ clears' = clears + 1
    /\ timing' = [k \in Keys |-> "none"]
    /\ \/ comp' = [k \in Keys |-> Missing] /\ verdict' = [k \in Keys |-> "none"]
       \/ UNCHANGED <<comp, verdict>>
    /\ UNCHANGED <<setup, memo, pc, key, judged, files, transients, damages>>

Evaluate(w) ==
    \/ Acquire(w) \/ Raise(w) \/ LookupVerdict(w) \/ RunOnce(w) \/ PutVerdictProbe(w)
    \/ PutVerdict(w) \/ Judge(w) \/ LookupTiming(w) \/ Measure(w)

Next ==
    \/ \E w \in Workers : Evaluate(w) \/ \E k \in Keys : Take(w, k)
    \/ \E s \in Sessions : Restart(s)
    \/ \E k \in Keys : Damage(k)
    \/ Clear

Spec == Init /\ [][Next]_vars
----------------------------------------------------------------------------
(* What evaluations promise.                                               *)

SameToolchain == \A c, d \in Configs : c.build = d.build

\* As long as sessions agree on toolchain, headers and baseline behaviour, no
\* candidate whose executable behaves otherwise than the baseline ever becomes
\* a valid individual, is recorded as correct or gets a timing, whatever is
\* replayed from earlier sessions and whichever threads tear one another's files
\* (the layered lookups of evaluate_individual), unless its executable was altered.
ValidMeansCorrect ==
    ~Drift => \A s \in Sessions, k \in Keys :
        ~Matches(conf[s], k) /\ "rotten" \notin spoiled[k] =>
            verdict[k] # "pass" /\ timing[k] # "kept" /\ memo[s][k] \notin Valid

\* Under the same condition a candidate that behaves as the baseline is never
\* rejected, now or by a kept verdict, unless a run failed because of the machine,
\* the cache was cleared under an evaluation, two threads of a session tore its
\* executable (genetic.py:247), or that or its metadata was altered.
RejectionsAreJustified ==
    ~Drift /\ transients = 0 /\ clears = 0 =>
        \A s \in Sessions, k \in Keys : Matches(conf[s], k) /\ spoiled[k] = {} =>
            verdict[k] # "fail" /\ memo[s][k] \notin {"incorrect", "unmeasured"}

\* The two ways around the cache can be relied on although other sessions had
\* other configurations, in both directions: --no-cache always, --fresh as long
\* as the toolchain is the same and no executable was altered or cleared away,
\* for put_compilation neither replaces an executable nor verifies it.
BypassIsTrustworthy ==
    \A s \in Sessions, k \in Keys :
        /\ /\ memo[s][k] \in Valid
           /\ \/ mode[s] = "off"
              \/ mode[s] = "fresh" /\ SameToolchain /\ "rotten" \notin spoiled[k]
           => Matches(conf[s], k)
        /\ /\ memo[s][k] \in {"incorrect", "unmeasured"}
           /\ spoiled[k] = {} /\ transients = 0
           /\ \/ mode[s] = "off"
              \/ mode[s] = "fresh" /\ SameToolchain /\ clears = 0
           => ~Matches(conf[s], k)

\* README.md:40: the validation guards "guarantee that optimized binaries
\* produce 100% correct outputs": what counts as valid would be correct if the
\* session's own toolchain compiled it, as it does for the prescription.
OutputsAreCorrect ==
    \A s \in Sessions, k \in Keys :
        memo[s][k] \in Valid => Matches(conf[s], k)
=============================================================================
