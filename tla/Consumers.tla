------------------------------ MODULE Consumers ------------------------------
(***************************************************************************)
(* The commands that act on a finished report: "autotune guard" and        *)
(* "autotune reproduce" build and time its pipeline again and judge it     *)
(* (services/guard.py, services/reproduce.py), "autotune apply" builds its *)
(* artifacts (services/apply.py), "autotune export" writes build files     *)
(* that carry its pipeline (services/export.py).                           *)
(*                                                                         *)
(* Each command is a process that takes one step per tool it runs or file  *)
(* it writes; any tool may fail.  Commands meet in the directories they    *)
(* write to and in the source file, which its author may edit under them.  *)
(***************************************************************************)
EXTENDS Integers

CONSTANTS
    Commands,       \* running commands
    Launches,       \* which kinds of command run together
    Reports,        \* the reports; "noreport" is a guard without a reference
    Rec,            \* Rec[r]: what report r records, see RecordType
    Dirs,           \* output directories
    Times,          \* what a benchmark may measure, in units of 0.1 ms
    Threshold,      \* guard --threshold, in percent
    Tolerance,      \* reproduce --tolerance, in percent
    MaxFaults,      \* bound: failures of a tool that is not the pipeline's fault
    MaxEdits,       \* bound: edits of the source
    MaxInterrupts   \* bound: commands that are killed

\* No benchmark gives 0, which stands for "no metrics"; 1.0 ms is written in
\* for them (guard.py:220, reproduce.py:136).
NoMetrics  == 0
Default    == 10
Kinds      == {"guard", "reproduce", "apply", "export", "idle"}
\* passes: whether there is a pipeline (an empty one is "baseline parity");
\* base, cand: recorded medians; ratio: recorded speedup in percent; dir: the
\* artifact directory of its run id, or the output directory of an export.
RecordType == [passes : BOOLEAN, base : Nat, cand : Nat, ratio : Nat, dir : Dirs]

ASSUME ConsumerAssumption ==
    /\ Launches \subseteq [Commands -> Kinds]
    /\ Reports \cap {"any", "none", "cut"} = {}
    /\ Rec \in [Reports -> RecordType]
    /\ Times \subseteq Nat \ {0}
    /\ Threshold \in Nat /\ Tolerance \in Nat
    /\ MaxFaults \in Nat /\ MaxEdits \in Nat /\ MaxInterrupts \in Nat

VARIABLES
    src,      \* version of the source file
    opt,      \* whether LLVM's opt is installed
    install,  \* install[r]: what the installed toolchain makes of r's pipeline
    kind, rep,  \* kind[c], rep[c]: the command and the report it was given
    pc,       \* pc[c]: its next step
    base,     \* base[c]: the version its baseline binary was built from, or 0;
              \* of an apply, the version it hashed
    cand,     \* cand[c]: the same for its candidate binary
    baseMs, candMs,  \* medians of its benchmarks, or NoMetrics
    verdict,  \* verdict[c]: how it ended
    files,    \* files[d]: the files of directory d
    broke,    \* broke[c]: history, the steps of c that failed by a fault or were
              \* interrupted; of an apply also an opt that failed for a reason
    calm,     \* calm[c]: history, no edit and no other writer since c started
    faults, interrupts

judging == <<base, cand, baseMs, candMs>>
world   == <<src, opt, install, kind, rep>>
ledger  == <<broke, faults>>
vars    == <<world, pc, judging, verdict, files, ledger, calm, interrupts>>

Judges      == {"baseline", "timebase", "candidate", "check", "timecand", "conclude"}
Artifacts   == {"raw", "opt", "asm", "bin", "manifest"}
Built       == Artifacts \ {"manifest"}
ExportFiles == {"txt", "sh", "json", "cmake", "make"}
Labels      == Judges \cup Artifacts \cup ExportFiles \cup {"start", "close", "ended"}
Verdicts    == {"none", "interrupted", "raised", "error",
                "pass", "regression", "incorrect",
                "reproduced", "inconclusive", "deviates", "refuted",
                "applied", "exported"}
Versions    == 0 .. MaxEdits + 1
\* A file was made from a version of the source for a report; unoptimized IR is
\* for any report, an export has no version.  "cut" is a file that was opened
\* and not finished.
Content == [ver : Versions, of : Reports \cup {"any"}]
None    == [ver |-> 0, of |-> "none"]
Cut     == [ver |-> 0, of |-> "cut"]

TypeOK ==
    /\ src \in Versions
    /\ opt \in BOOLEAN
    /\ install \in [Reports -> {"same", "differs", "fails"}]
    /\ kind \in [Commands -> Kinds]
    /\ rep \in [Commands -> Reports]
    /\ pc \in [Commands -> Labels]
    /\ base \in [Commands -> Versions]
    /\ cand \in [Commands -> Versions]
    /\ baseMs \in [Commands -> Times \cup {NoMetrics}]
    /\ candMs \in [Commands -> Times \cup {NoMetrics}]
    /\ verdict \in [Commands -> Verdicts]
    /\ files \in [Dirs -> [Artifacts \cup ExportFiles -> Content \cup {None, Cut}]]
    /\ broke \in [Commands -> SUBSET Labels]
    /\ calm \in [Commands -> BOOLEAN]
    /\ faults \in 0..MaxFaults
    /\ interrupts \in 0..MaxInterrupts

\* Only a guard can do without a report; what becomes of a pipeline that no
\* command works on does not matter.
Init ==
    /\ src = 1
    /\ opt \in BOOLEAN
    /\ kind \in Launches
    /\ rep \in [Commands -> Reports]
    /\ \A c \in Commands : /\ kind[c] = "idle" => rep[c] = "noreport"
                           /\ rep[c] = "noreport" => kind[c] \in {"guard", "idle"}
    /\ install \in [Reports -> {"same", "differs", "fails"}]
    /\ \A r \in Reports : (\A c \in Commands : rep[c] # r) \/ ~Rec[r].passes
                            => install[r] = "same"
    /\ pc = [c \in Commands |-> IF kind[c] = "idle" THEN "ended" ELSE "start"]
    /\ base = [c \in Commands |-> 0]
    /\ cand = [c \in Commands |-> 0]
    /\ baseMs = [c \in Commands |-> NoMetrics]
    /\ candMs = [c \in Commands |-> NoMetrics]
    /\ verdict = [c \in Commands |-> "none"]
    /\ files = [d \in Dirs |-> [f \in Artifacts \cup ExportFiles |-> None]]
    /\ broke = [c \in Commands |-> {}]
    /\ calm = [c \in Commands |-> TRUE]
    /\ faults = 0
    /\ interrupts = 0

R(c)   == Rec[rep[c]]
Dir(c) == R(c).dir
\* Without opt a candidate is compiled with -O2 and its passes are ignored
\* (compiler.py:560).
Makes(r) == IF opt THEN install[r] ELSE "same"

At(c, label)   == pc[c] = label
Goto(c, label) == pc' = [pc EXCEPT ![c] = label]
End(c, v) ==
    /\ verdict' = [verdict EXCEPT ![c] = v]
    /\ Goto(c, "ended")
Broken(c) == broke' = [broke EXCEPT ![c] = @ \cup {pc[c]}]
Fault(c) ==
    /\ faults < MaxFaults
    /\ faults' = faults + 1
    /\ Broken(c)

----------------------------------------------------------------------------
(* guard and reproduce                                                     *)

IsJudge(c) == kind[c] \in {"guard", "reproduce"}

\* Source, clang, report, and with --strict-env the architecture are checked;
\* guard calls whatever is wrong with them an infrastructure error, but a source
\* that is there and cannot be read raises (guard.py:112).
StartGuard(c) ==
    /\ At(c, "start") /\ kind[c] = "guard"
    /\ \/ Goto(c, "baseline") /\ UNCHANGED <<verdict, ledger>>
       \/ Fault(c) /\ (End(c, "error") \/ End(c, "raised"))
    /\ calm' = [calm EXCEPT ![c] = TRUE]
    /\ UNCHANGED <<world, judging, files, interrupts>>

\* A report or a source that cannot be read raises; another machine is only
\* warned about.
StartReproduce(c) ==
    /\ At(c, "start") /\ kind[c] = "reproduce"
    /\ \/ Goto(c, "baseline") /\ UNCHANGED <<verdict, ledger>>
       \/ Fault(c) /\ End(c, "raised")
    /\ calm' = [calm EXCEPT ![c] = TRUE]
    /\ UNCHANGED <<world, judging, files, interrupts>>

\* compile_baseline reads the source as it is by now; every exception of its one
\* call of the compiler becomes a failure.
BaselineBuilt(c)  == base' = [base EXCEPT ![c] = src] /\ UNCHANGED ledger
BaselineFailed(c) == Fault(c) /\ UNCHANGED base

\* A baseline that does not compile is an infrastructure error for guard, but
\* is held against the report by reproduce.
BuildBaseline(c) ==
    /\ At(c, "baseline")
    /\ \/ BaselineBuilt(c) /\ Goto(c, "timebase") /\ UNCHANGED verdict
       \/ BaselineFailed(c) /\ End(c, IF kind[c] = "guard" THEN "error" ELSE "refuted")
    /\ UNCHANGED <<world, cand, baseMs, candMs, files, calm, interrupts>>

\* Mutant: nanoseconds are taken for milliseconds.
MeasuredInNs(c, ms) ==
    \/ \E t \in Times : ms' = [ms EXCEPT ![c] = t * 1000000] /\ UNCHANGED ledger
    \/ Fault(c) /\ UNCHANGED ms

\* run_benchmark gives a median, or fails and gives no metrics.
Measured(c, ms) ==
    \/ \E t \in Times : ms' = [ms EXCEPT ![c] = t] /\ UNCHANGED ledger
    \/ Fault(c) /\ UNCHANGED ms

TimeGuardBaseline(c) ==
    /\ At(c, "timebase") /\ kind[c] = "guard"
    /\ Measured(c, baseMs)
    /\ Goto(c, IF R(c).passes THEN "candidate" ELSE "check")
    /\ UNCHANGED <<world, base, cand, candMs, verdict, files, calm, interrupts>>

\* A report of parity is reproduced as soon as the baseline has been run, and
\* even if that failed.
TimeReproduceBaseline(c) ==
    /\ At(c, "timebase") /\ kind[c] = "reproduce"
    /\ Measured(c, baseMs)
    /\ IF R(c).passes THEN Goto(c, "candidate") /\ UNCHANGED verdict
       ELSE End(c, "reproduced")
    /\ UNCHANGED <<world, base, cand, candMs, files, calm, interrupts>>

\* compile_candidate: succeeds, fails (because of the pipeline or by a fault),
\* or raises, for the call it makes without opt does not catch its timeout.
CandidateBuilt(c) ==
    /\ Makes(rep[c]) # "fails"
    /\ cand' = [cand EXCEPT ![c] = src]
    /\ UNCHANGED ledger
CandidateFailed(c) ==
    /\ \/ Makes(rep[c]) = "fails" /\ UNCHANGED ledger
       \/ Fault(c)
    /\ UNCHANGED cand
CandidateRaised(c) == ~opt /\ Fault(c) /\ End(c, "raised") /\ UNCHANGED cand

\* Mutant: guard insists on a candidate.
BuildGuardCandidateInsists(c) ==
    /\ At(c, "candidate") /\ kind[c] = "guard"
    /\ CandidateBuilt(c) /\ Goto(c, "check")
    /\ UNCHANGED <<world, base, baseMs, candMs, verdict, files, calm, interrupts>>

\* Without a candidate guard goes on with the baseline in its place.
BuildGuardCandidate(c) ==
    /\ At(c, "candidate") /\ kind[c] = "guard"
    /\ \/ /\ CandidateBuilt(c) \/ CandidateFailed(c)
          /\ Goto(c, "check") /\ UNCHANGED verdict
       \/ CandidateRaised(c)
    /\ UNCHANGED <<world, base, baseMs, candMs, files, calm, interrupts>>

BuildReproduceCandidate(c) ==
    /\ At(c, "candidate") /\ kind[c] = "reproduce"
    /\ \/ CandidateBuilt(c) /\ Goto(c, "check") /\ UNCHANGED verdict
       \/ CandidateFailed(c) /\ End(c, "refuted")
       \/ CandidateRaised(c)
    /\ UNCHANGED <<world, base, baseMs, candMs, files, calm, interrupts>>

\* What a binary prints tells versions of the source and miscompilations apart.
Prints(version, made) == <<version, made>>
TargetPrints(c) ==
    IF cand[c] # 0 THEN Prints(cand[c], Makes(rep[c])) ELSE Prints(base[c], "same")

Reject(c)  == End(c, IF kind[c] = "guard" THEN "incorrect" ELSE "refuted")
Checked(c) == Goto(c, IF cand[c] # 0 THEN "timecand" ELSE "conclude")

\* Mutant: any output of a run that ended well is accepted.
CheckExitOnly(c) ==
    /\ At(c, "check")
    /\ \/ Checked(c) /\ UNCHANGED <<verdict, ledger>>
       \/ Fault(c) /\ Reject(c)
    /\ UNCHANGED <<world, judging, files, calm, interrupts>>

\* Mutant: the timing markers a program prints are compared too.
CheckWithTimings(c) ==
    /\ At(c, "check")
    /\ \/ Checked(c) /\ UNCHANGED <<verdict, ledger>>
       \/ Reject(c) /\ UNCHANGED ledger
    /\ UNCHANGED <<world, judging, files, calm, interrupts>>

\* Both binaries are run once and compared by ExactOutputValidator; a run that
\* fails for whatever reason is no match.
Check(c) ==
    /\ At(c, "check")
    /\ \/ /\ TargetPrints(c) = Prints(base[c], "same")
          /\ Checked(c) /\ UNCHANGED <<verdict, ledger>>
       \/ /\ TargetPrints(c) # Prints(base[c], "same")
          /\ Reject(c) /\ UNCHANGED ledger
       \/ Fault(c) /\ Reject(c)
    /\ UNCHANGED <<world, judging, files, calm, interrupts>>

\* guard goes on without the metrics of its candidate, reproduce does not.
TimeGuardCandidate(c) ==
    /\ At(c, "timecand") /\ kind[c] = "guard"
    /\ Measured(c, candMs)
    /\ Goto(c, "conclude")
    /\ UNCHANGED <<world, base, cand, baseMs, verdict, files, calm, interrupts>>

TimeReproduceCandidate(c) ==
    /\ At(c, "timecand") /\ kind[c] = "reproduce"
    /\ Measured(c, candMs)
    /\ IF candMs'[c] = NoMetrics THEN End(c, "refuted")
       ELSE Goto(c, "conclude") /\ UNCHANGED verdict
    /\ UNCHANGED <<world, base, cand, baseMs, files, calm, interrupts>>

OrDefault(ms) == IF ms = NoMetrics THEN Default ELSE ms

\* Mutant: the default replaces every comparison once the baseline failed.
CurrentPrefersDefault(c) ==
    IF baseMs[c] = NoMetrics \/ candMs[c] = NoMetrics THEN OrDefault(baseMs[c])
    ELSE candMs[c]

\* current_target_ms: the candidate's median, else the baseline's, else 1.0 ms.
Current(c) == IF candMs[c] # NoMetrics THEN candMs[c] ELSE OrDefault(baseMs[c])

\* reference_ms: recorded candidate, else recorded baseline, else the baseline now.
Reference(c) ==
    IF R(c).cand > 0 THEN R(c).cand
    ELSE IF R(c).base > 0 THEN R(c).base ELSE OrDefault(baseMs[c])

Exceeds(c) == (Current(c) - Reference(c)) * 100 > Threshold * Reference(c)

Abs(n)  == IF n < 0 THEN -n ELSE n

\* Mutant: the ratio is upside down.
ObservedInverted(c) == (100 * candMs[c]) \div OrDefault(baseMs[c])

\* round(slow / fast, 2), in percent.
Ratio(slow, fast) == (100 * slow + fast \div 2) \div fast
Observed(c) == Ratio(OrDefault(baseMs[c]), candMs[c])
\* speedup_delta_pct / 100 <= tolerance.
Within(c) == Abs(Observed(c) - R(c).ratio) * 100 =< Tolerance * R(c).ratio

\* More than 50% away from the recorded median.
Shifted(now, recorded) == recorded > 0 /\ Abs(now - recorded) * 2 > recorded

ConcludeGuard(c) ==
    /\ At(c, "conclude") /\ kind[c] = "guard"
    /\ End(c, IF Exceeds(c) THEN "regression" ELSE "pass")
    /\ UNCHANGED <<world, judging, files, ledger, calm, interrupts>>

\* The ladder of verdicts; a coefficient of variation above 0.20 comes first.
ConcludeReproduce(c) ==
    /\ At(c, "conclude") /\ kind[c] = "reproduce"
    /\ \/ End(c, "inconclusive")
       \/ End(c, IF Within(c) THEN "reproduced"
                 ELSE IF Shifted(OrDefault(baseMs[c]), R(c).base)
                         \/ Shifted(candMs[c], R(c).cand)
                 THEN "inconclusive" ELSE "deviates")
    /\ UNCHANGED <<world, judging, files, ledger, calm, interrupts>>

Guard(c) ==
    \/ StartGuard(c) \/ TimeGuardBaseline(c) \/ BuildGuardCandidate(c)
    \/ TimeGuardCandidate(c) \/ ConcludeGuard(c)
Reproduce(c) ==
    \/ StartReproduce(c) \/ TimeReproduceBaseline(c) \/ BuildReproduceCandidate(c)
    \/ TimeReproduceCandidate(c) \/ ConcludeReproduce(c)
Judge(c) == BuildBaseline(c) \/ Check(c) \/ Guard(c) \/ Reproduce(c)

----------------------------------------------------------------------------
(* apply and export                                                        *)

IsWriter(c) == kind[c] \in {"apply", "export"}

Put(c, f, content) ==
    /\ files' = [files EXCEPT ![Dir(c)][f] = content]
    /\ calm' = [x \in Commands |-> calm[x] /\ (x = c \/ Dir(x) # Dir(c))]

\* What a tool that fails or is interrupted leaves in place of its output: what
\* was there, nothing (clang and opt remove theirs), or a part; Python's open
\* removes nothing.
Spoil(c, f) ==
    \/ UNCHANGED <<files, calm>>
    \/ Put(c, f, Cut)
    \/ f \in Artifacts /\ Put(c, f, None)

\* Mutant: the manifest is written before the artifacts it lists.
StartWithManifest(c) ==
    /\ At(c, "start") /\ IsWriter(c)
    /\ Goto(c, IF kind[c] = "apply" THEN "raw" ELSE "txt")
    /\ files' = [files EXCEPT ![Dir(c)]["manifest"] = [ver |-> src, of |-> rep[c]]]
    /\ calm' = [calm EXCEPT ![c] = TRUE]
    /\ UNCHANGED <<world, judging, verdict, ledger, interrupts>>

\* os.makedirs(target_dir); a report or source that is gone raises.
StartWriter(c) ==
    /\ At(c, "start") /\ IsWriter(c)
    /\ \/ /\ Goto(c, IF kind[c] = "apply" THEN "raw" ELSE "txt")
          /\ UNCHANGED <<verdict, ledger>>
       \/ Fault(c) /\ End(c, "raised")
    /\ calm' = [calm EXCEPT ![c] = TRUE]
    /\ UNCHANGED <<world, judging, files, interrupts>>

\* emit_llvm_ir and emit_assembly: their result is not looked at, but a
\* timeout of their last call is an exception, which ends the command.
Emit(c, f, content, next) ==
    /\ At(c, f)
    /\ \/ Put(c, f, content) /\ Goto(c, next) /\ UNCHANGED <<verdict, ledger>>
       \/ Fault(c) /\ Spoil(c, f) /\ Goto(c, next) /\ UNCHANGED verdict
       \/ Fault(c) /\ Spoil(c, f) /\ End(c, "error")
    /\ UNCHANGED <<world, judging, interrupts>>

EmitRaw(c) == Emit(c, "raw", [ver |-> src, of |-> "any"], "opt")
EmitAsm(c) == Emit(c, "asm", [ver |-> src, of |-> rep[c]], "bin")

\* opt reads the unoptimized IR that lies in the directory by now; of a part it
\* makes a part, if anything.
RunOpt(c) ==
    LET raw == files[Dir(c)]["raw"] IN
    /\ At(c, "opt")
    /\ \/ /\ opt /\ raw # None /\ Makes(rep[c]) # "fails"
          /\ Put(c, "opt", IF raw = Cut THEN Cut ELSE [ver |-> raw.ver, of |-> rep[c]])
          /\ Goto(c, "asm") /\ UNCHANGED <<verdict, ledger>>
       \/ /\ \/ /\ ~opt \/ raw \in {None, Cut} \/ Makes(rep[c]) = "fails"
                /\ Broken(c) /\ UNCHANGED faults
             \/ Fault(c)
          /\ Spoil(c, "opt") /\ End(c, "error")
    /\ UNCHANGED <<world, judging, interrupts>>

\* Mutant: a binary that cannot be built is passed over like the assembly.
BuildBinaryIgnored(c) == Emit(c, "bin", [ver |-> src, of |-> rep[c]], "manifest")

BuildBinary(c) ==
    /\ At(c, "bin")
    /\ \/ /\ Put(c, "bin", [ver |-> src, of |-> rep[c]])
          /\ Goto(c, "manifest") /\ UNCHANGED <<verdict, ledger>>
       \/ Fault(c) /\ Spoil(c, "bin") /\ End(c, "error")
    /\ UNCHANGED <<world, judging, interrupts>>

\* The source is hashed and the manifest opened; then it is written.
OpenManifest(c) ==
    /\ At(c, "manifest")
    /\ \/ /\ base' = [base EXCEPT ![c] = src]
          /\ Put(c, "manifest", Cut)
          /\ Goto(c, "close") /\ UNCHANGED <<verdict, ledger>>
       \/ Fault(c) /\ End(c, "error") /\ UNCHANGED <<base, files, calm>>
    /\ UNCHANGED <<world, cand, baseMs, candMs, interrupts>>

CloseManifest(c) ==
    /\ At(c, "close")
    /\ \/ /\ Put(c, "manifest", [ver |-> base[c], of |-> rep[c]])
          /\ End(c, "applied") /\ UNCHANGED ledger
       \/ Fault(c) /\ End(c, "error") /\ UNCHANGED <<files, calm>>
    /\ UNCHANGED <<world, judging, interrupts>>

\* The recipes name the source and carry the report's pipeline, and nothing in
\* them depends on what the source contains.
Recipe(c) == [ver |-> 0, of |-> rep[c]]

\* The bundle of an export, file by file; "make" is the last.
Successor == [txt |-> "sh", sh |-> "json", json |-> "cmake", cmake |-> "make"]

ExportFile(c) ==
    /\ pc[c] \in ExportFiles
    /\ \/ /\ Put(c, pc[c], Recipe(c))
          /\ IF At(c, "make") THEN End(c, "exported")
             ELSE Goto(c, Successor[pc[c]]) /\ UNCHANGED verdict
          /\ UNCHANGED ledger
       \/ Fault(c) /\ Spoil(c, pc[c]) /\ End(c, "raised")
    /\ UNCHANGED <<world, judging, interrupts>>

Write(c) ==
    \/ StartWriter(c) \/ EmitRaw(c) \/ RunOpt(c) \/ EmitAsm(c) \/ BuildBinary(c)
    \/ OpenManifest(c) \/ CloseManifest(c) \/ ExportFile(c)

----------------------------------------------------------------------------
\* The author edits the source.
Edit ==
    /\ src =< MaxEdits
    /\ src' = src + 1
    /\ calm' = [c \in Commands |-> FALSE]
    /\ UNCHANGED <<opt, install, kind, rep, pc, judging, verdict, files, ledger, interrupts>>

\* Ctrl-C, or a CI job that is cancelled: it reaches the tool that is running
\* as well, whose output is what that leaves of it.
Interrupt(c) ==
    /\ interrupts < MaxInterrupts
    /\ ~At(c, "ended")
    /\ interrupts' = interrupts + 1
    /\ End(c, "interrupted")
    /\ Broken(c)
    /\ IF pc[c] \in Built \cup ExportFiles THEN Spoil(c, pc[c]) ELSE UNCHANGED <<files, calm>>
    /\ UNCHANGED <<world, judging, faults>>

Next ==
    \/ \E c \in Commands : Judge(c) \/ Write(c) \/ Interrupt(c)
    \/ Edit

Spec == Init /\ [][Next]_vars

\* Every tool a command waits for has a timeout, except apply's own call of opt
\* (apply.py:90): nothing makes that one return.
Fairness ==
    \A c \in Commands :
        WF_vars(Judge(c) \/ (Write(c) /\ ~At(c, "opt")))

FairSpec == Spec /\ Fairness

\* The exit status (cli.py).  An exception of guard is not caught and exits
\* with 1; reproduce catches its own Exit(2), and exits with 1, but with --json
\* it exits with 0 whatever the verdict.
ExitCode(c, json) ==
    CASE verdict[c] \in {"pass", "reproduced", "applied", "exported"} -> 0
      [] json /\ verdict[c] \in {"refuted", "inconclusive", "deviates"} -> 0
      [] verdict[c] = "incorrect" -> 2
      [] verdict[c] = "error" /\ kind[c] = "guard" -> 3
      [] OTHER -> 1
----------------------------------------------------------------------------
(* What the commands promise.                                              *)

\* Whatever fails on the way, no judgement accepts a pipeline that the
\* installed toolchain miscompiles: as long as the source was left alone, what
\* guard passes or measures and what reproduce reproduces or finds too noisy
\* printed what the baseline prints.
AcceptedIsFaithful ==
    \A c \in Commands :
        /\ verdict[c] \in {"pass", "regression", "reproduced", "inconclusive", "deviates"}
        /\ R(c).passes /\ calm[c]
        => Makes(rep[c]) = "same" \/ (kind[c] = "guard" /\ cand[c] = 0)

\* A correctness failure (exit status 2) or a refutation is never raised
\* against a pipeline that the toolchain still compiles faithfully, unless a
\* step failed or the source was edited between the two builds; nor does a
\* baseline that could not be timed make reproduce deny a ratio whose recorded
\* baseline was slower than 2.0 ms, for the 1.0 ms put in its place counts as a
\* shift of the environment.
RejectionsHaveReasons ==
    \A c \in Commands :
        /\ ExitCode(c, FALSE) = 2 \/ verdict[c] = "refuted" =>
              Makes(rep[c]) # "same" \/ broke[c] # {} \/ ~calm[c]
        /\ verdict[c] = "deviates" /\ "timebase" \in broke[c] =>
              R(c).base =< 2 * Default

\* guard compares the recorded time with the made-up 1.0 ms only if its
\* baseline could not be timed and nothing else was: there was no candidate
\* binary, or it could not be timed either.
GuardComparesMeasurements ==
    \A c \in Commands :
        /\ kind[c] = "guard" /\ verdict[c] \in {"pass", "regression"}
        /\ Current(c) \notin {baseMs[c], candMs[c]}
        => "timebase" \in broke[c] /\ (cand[c] = 0 \/ "timecand" \in broke[c])

\* On a machine that behaves exactly as the recorded one both judgements
\* confirm a report whose ratio is that of its medians: no fault, no edit, the
\* recorded medians measured again.  Only the noise of the samples can make
\* reproduce withhold its verdict.
FaithfulReplayConfirms ==
    \A c \in Commands :
        /\ IsJudge(c) /\ pc[c] = "ended" /\ verdict[c] # "interrupted"
        /\ R(c).passes /\ Makes(rep[c]) = "same" /\ broke[c] = {} /\ calm[c]
        /\ baseMs[c] = R(c).base /\ candMs[c] = R(c).cand
        /\ R(c).ratio = Ratio(R(c).base, R(c).cand)
        => ExitCode(c, FALSE) = 0 \/ verdict[c] = "inconclusive"

\* After a successful apply with no other writer and no edit since it began,
\* the binary and the manifest belong to its report and the present source;
\* so do the optimized IR and the assembly, unless an emission that nobody
\* looks at has failed and left an older file in place.  (Of a report of parity
\* this says nothing of levels: apply.py:89 makes its IR with default<O3>, its
\* binary with the default<O2> of an empty pipeline.)
AppliedIsWhole ==
    \A c \in Commands :
        verdict[c] = "applied" /\ calm[c] =>
            LET own == [ver |-> src, of |-> rep[c]] IN
            /\ files[Dir(c)]["bin"] = own /\ files[Dir(c)]["manifest"] = own
            /\ "raw" \notin broke[c] => files[Dir(c)]["opt"] = own
            /\ "asm" \notin broke[c] => files[Dir(c)]["asm"] = own

\* Whatever applies overlap and wherever they fail or are interrupted: if a
\* manifest lists an artifact that is not there or only a part of one, then the
\* very tool that makes this artifact (or its input) has failed, or was
\* interrupted, in an apply to that directory.  Nothing else takes away what a
\* manifest lists, and no manifest is finished before its artifacts.
ManifestListsWhatExists ==
    \A d \in Dirs, f \in Built :
        /\ files[d]["manifest"] \notin {None, Cut}
        /\ files[d][f] \in {None, Cut}
        => \E c \in Commands :
              /\ kind[c] = "apply" /\ Dir(c) = d
              /\ f \in broke[c] \/ (f = "opt" /\ "raw" \in broke[c])

\* guard, reproduce and export always come to a verdict; an apply may wait for
\* its opt for ever.
JudgementsEnd ==
    \A c \in Commands : <>(pc[c] = "ended" \/ kind[c] = "apply")
=============================================================================
