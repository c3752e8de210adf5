----------------------------- MODULE Diagnosis -----------------------------
(***************************************************************************)
(* From the winner of a search to a claim on disk: "autotune doctor"       *)
(* (services/doctor.py), "autotune optimize" (services/optimize.py) and    *)
(* "autotune search" (cli.py) compile and time the winner again, grade the *)
(* evidence (reporting/evidence.py), classify the result                   *)
(* (reporting/prescription.py), and write a report, which "autotune gate"  *)
(* judges, and a history entry.  Commands run side by side in one working  *)
(* directory and can be interrupted anywhere; "autotune runs clean"        *)
(* removes run directories under them.                                     *)
(*                                                                         *)
(* Times are abstracted to the rounded ratio of the medians, in percent.   *)
(***************************************************************************)
EXTENDS Naturals, FiniteSets

CONSTANTS
    Runs,       \* invocations of the three commands
    Stamps,     \* run ids: the second of the start and a hash of the source
    Ratios,     \* ratios of baseline to candidate that measurements may give
    MinSpeedup, \* --min-speedup of the gate
    MaxCleans   \* bound: invocations of "runs clean"

ASSUME DiagnosisAssumption ==
    /\ Ratios \subseteq Nat \ {0} /\ MinSpeedup \in Nat /\ MaxCleans \in Nat
    /\ "file" \notin Stamps

VARIABLES
    cmd,     \* cmd[r]: the command
    stamp,   \* stamp[r]: its run id
    target,  \* target[r]: where its report goes: its run directory or --output-json
    stage,   \* stage[r]: what it does next
    winner,  \* winner[r]: the ratio of the best individual in the search, or 0
    sample,  \* sample[r]: the measurements it grades
    dirs,    \* the run directories that exist
    reports, \* reports[p]: the report at a place
    entries, \* entries[i]: the history entry of a run id
    archive, \* the runs whose pipelines are in the seed archive or knowledge store
    cleans

args  == <<cmd, stamp, target>>
files == <<dirs, reports, entries>>
vars  == <<args, stage, winner, sample, files, archive, cleans>>

Commands == {"doctor", "optimize", "search"}
Places   == Stamps \cup {"file"}
Stages   == {"start", "search", "confirm", "open", "close", "html", "record",
             "recorded", "done", "failed"}
Grades   == {"A", "B", "C", "D", "F"}

\* "significant" is p < 0.05; "clean": a stable baseline, little noise, a large
\* effect; "fresh": timed after the search; "correct": correctness_pass.
Samples == [speed : Ratios \cup {100}, significant : BOOLEAN, clean : BOOLEAN,
            fresh : BOOLEAN, correct : BOOLEAN]
Single  == [speed |-> 100, significant |-> FALSE, clean |-> FALSE,
            fresh |-> FALSE, correct |-> TRUE]

\* A file: who opened it last, and whether it is that run's complete text.
Nothing == <<>>
File    == [by : Runs, whole : BOOLEAN] \cup {Nothing}
Part(r) == [by |-> r, whole |-> FALSE]
Text(r) == [by |-> r, whole |-> TRUE]

TypeOK ==
    /\ cmd \in [Runs -> Commands]
    /\ stamp \in [Runs -> Stamps]
    /\ target \in [Runs -> Places]
    /\ \A r \in Runs : target[r] \in {stamp[r], "file"}
    /\ stage \in [Runs -> Stages]
    /\ winner \in [Runs -> Ratios \cup {0}]
    /\ sample \in [Runs -> Samples]
    /\ dirs \subseteq Stamps
    /\ reports \in [Places -> File]
    /\ entries \in [Stamps -> File]
    /\ archive \subseteq Runs
    /\ cleans \in 0..MaxCleans

Init ==
    /\ cmd \in [Runs -> Commands]
    /\ stamp \in [Runs -> Stamps]
    /\ target \in [Runs -> Places]
    /\ \A r \in Runs : target[r] \in IF cmd[r] = "search" THEN {"file"}
                                     ELSE {stamp[r], "file"}
    /\ \A q, r \in Runs : stamp[q] = stamp[r] => {cmd[q], cmd[r]} # {"doctor", "optimize"}
    /\ stage = [r \in Runs |-> "start"]
    /\ winner = [r \in Runs |-> 0]
    /\ sample = [r \in Runs |-> Single]
    /\ dirs = {}
    /\ reports = [p \in Places |-> Nothing]
    /\ entries = [i \in Stamps |-> Nothing]
    /\ archive = {}
    /\ cleans = 0

Goto(r, s) == stage' = [stage EXCEPT ![r] = s]

----------------------------------------------------------------------------
(* The verdict.                                                            *)

\* Mutant: the p-value is not asked for.
GradeBySpeed(m) ==
    CASE ~m.correct \/ m.speed < 98                  -> "F"
      [] m.correct /\ m.speed >= 98 /\ m.speed < 102 -> "D"
      [] m.correct /\ m.speed >= 102                 -> "B"

\* EvidenceEvaluator.evaluate: half-open intervals of the ratio.
Grade(m) ==
    CASE ~m.correct \/ m.speed < 98                          -> "F"
      [] m.correct /\ m.speed >= 98 /\ m.speed < 102         -> "D"
      [] m.correct /\ m.speed >= 102 /\ ~m.significant       -> "C"
      [] m.correct /\ m.speed >= 102 /\ m.significant        ->
            IF m.clean /\ m.speed >= 105 THEN "A" ELSE "B"

\* PrescriptionBuilder.build, without and with a grade.
Ungraded(speed) ==
    CASE speed >= 102               -> "IMPROVED"
      [] speed >= 98 /\ speed < 102 -> "TIE"
      [] speed < 98                 -> "REGRESSION"

\* Mutant: a grade in hand does not change the class.
GradedBySpeed(speed, grade) == Ungraded(speed)

Graded(speed, grade) ==
    CASE grade = "F"               -> "REGRESSION"
      [] grade \in {"C", "D"}      -> IF speed < 98 THEN "REGRESSION" ELSE "TIE"
      [] grade \in {"A", "B"}      -> Ungraded(speed)

\* Only doctor and optimize hand their grade to the builder; search puts it in
\* the prescription afterwards.
Class(r, speed, grade) ==
    IF cmd[r] = "search" THEN Ungraded(speed) ELSE Graded(speed, grade)

\* The prescription of a run.  search classifies the ratio of the search and
\* then takes over the grade of the confirmation.
Claim(r) ==
    LET grade == Grade(sample[r])
        speed == IF cmd[r] = "search" \/ ~sample[r].correct THEN winner[r] ELSE sample[r].speed
    IN  IF winner[r] = 0 THEN [speed |-> 100, class |-> "NO_VALID_CANDIDATE", grade |-> "D"]
        ELSE [speed |-> speed, grade |-> grade, class |-> Class(r, speed, grade)]

Whole(p)  == reports[p] # Nothing /\ reports[p].whole
Writer(p) == reports[p].by

\* autotune gate, on a report it can read.
GatePasses(p) ==
    /\ Whole(p)
    /\ LET c == Claim(reports[p].by) IN
          c.speed >= MinSpeedup /\ c.class = "IMPROVED" /\ c.grade \in {"A", "B"}

----------------------------------------------------------------------------
(* A command, step by step.                                                *)

\* doctor and optimize make their run directory.
Start(r) ==
    /\ stage[r] = "start"
    /\ dirs' = IF cmd[r] = "search" THEN dirs ELSE dirs \cup {stamp[r]}
    /\ Goto(r, "search")
    /\ UNCHANGED <<args, winner, sample, reports, entries, archive, cleans>>

\* Baseline, evolve, and the best individual, if any is valid.
Search(r) ==
    /\ stage[r] = "search"
    /\ \E w \in Ratios \cup {0} : winner' = [winner EXCEPT ![r] = w]
    /\ Goto(r, "confirm")
    /\ UNCHANGED <<args, sample, files, archive, cleans>>

\* Mutant: a benchmark without samples counts as a ratio of zero.
MeasuredOrNothing(speed, isFresh) ==
    {m \in [speed : {speed, 0}, significant : {FALSE}, clean : {FALSE},
            fresh : {isFresh}, correct : {TRUE}] : TRUE}

\* Samples with the given ratio; a ratio below 1.02 makes the rest irrelevant.
Measured(speed, isFresh) ==
    {m \in [speed : {speed}, significant : BOOLEAN, clean : BOOLEAN,
            fresh : {isFresh}, correct : {TRUE}] :
        (m.clean => m.significant) /\ (m.significant => speed >= 102)}

\* The winner is compiled and timed again.  If the runs fail, doctor and
\* optimize go on with the one number the search had; if it no longer compiles,
\* doctor calls it incorrect, and optimize times what is not there.
ConfirmOnce(r) ==
    /\ stage[r] = "confirm" /\ cmd[r] # "search"
    /\ sample' \in {[sample EXCEPT ![r] = m] : m \in
          IF winner[r] = 0 THEN {Single}
          ELSE (UNION {Measured(s, TRUE) : s \in Ratios}) \cup Measured(winner[r], FALSE)
               \cup IF cmd[r] = "doctor"
                    THEN {[m EXCEPT !.correct = FALSE] : m \in Measured(winner[r], FALSE)}
                    ELSE {}}
    /\ Goto(r, "open")
    /\ UNCHANGED <<args, winner, files, archive, cleans>>

\* Mutant: what the search measured decides about the archive.
ArchivedBySearch(r, m) == winner[r] >= 102

Archived(r, m) == Grade(m) \in {"A", "B"} /\ m.speed >= 102

\* run_final_confirmation: fresh samples of both, and the archive; statistics
\* over no samples raise.
ConfirmAgain(r) ==
    /\ stage[r] = "confirm" /\ cmd[r] = "search"
    /\ IF winner[r] = 0
       THEN Goto(r, "open") /\ UNCHANGED <<sample, archive>>
       ELSE \/ \E s \in Ratios : \E m \in Measured(s, TRUE) :
                  /\ sample' = [sample EXCEPT ![r] = m]
                  /\ archive' = IF Archived(r, m) THEN archive \cup {r} ELSE archive
                  /\ Goto(r, "open")
            \/ Goto(r, "failed") /\ UNCHANGED <<sample, archive>>
    /\ UNCHANGED <<args, winner, files, cleans>>

\* open(path, "w"), which needs the directory to be there still.
OpenReport(r) ==
    /\ stage[r] = "open"
    /\ IF target[r] \in dirs \cup {"file"}
       THEN reports' = [reports EXCEPT ![target[r]] = Part(r)] /\ Goto(r, "close")
       ELSE Goto(r, "failed") /\ UNCHANGED reports
    /\ UNCHANGED <<args, winner, sample, dirs, entries, archive, cleans>>

\* What a file holds after r has written and closed it: its text, unless
\* somebody opened or removed the file meanwhile or is still writing it.
Closed(r, file, others) ==
    IF file = Part(r) /\ ~others THEN {Text(r)} ELSE {file, Text(r), Part(r)} \ {Nothing}

\* Mutant: the report is still in a buffer when the command goes on.
CloseReportUnflushed(r) ==
    /\ stage[r] = "close"
    /\ Goto(r, IF cmd[r] = "search" THEN "done" ELSE "html")
    /\ UNCHANGED <<args, winner, sample, files, archive, cleans>>

CloseReport(r) ==
    LET p == target[r]
        others == \E q \in Runs \ {r} : target[q] = p /\ stage[q] = "close"
    IN
    /\ stage[r] = "close"
    /\ IF reports[p] = Nothing THEN UNCHANGED reports
       ELSE \E f \in Closed(r, reports[p], others) : reports' = [reports EXCEPT ![p] = f]
    /\ Goto(r, IF cmd[r] = "search" THEN "done" ELSE "html")
    /\ UNCHANGED <<args, winner, sample, dirs, entries, archive, cleans>>

\* The HTML report goes to the run directory; optimize then feeds the
\* knowledge store and is done.
WriteHtml(r) ==
    /\ stage[r] = "html"
    /\ IF stamp[r] \notin dirs THEN Goto(r, "failed") /\ UNCHANGED archive
       ELSE IF cmd[r] = "doctor" THEN Goto(r, "record") /\ UNCHANGED archive
       ELSE /\ archive' = IF Claim(r).class = "IMPROVED" /\ Claim(r).grade \in {"A", "B"}
                          THEN archive \cup {r} ELSE archive
            /\ Goto(r, "done")
    /\ UNCHANGED <<args, winner, sample, files, cleans>>

\* HistoryManager.record_run.
Record(r) ==
    /\ stage[r] = "record"
    /\ entries' = [entries EXCEPT ![stamp[r]] = Part(r)]
    /\ Goto(r, "recorded")
    /\ UNCHANGED <<args, winner, sample, dirs, reports, archive, cleans>>

Recorded(r) ==
    LET i == stamp[r]
        others == \E q \in Runs \ {r} : stamp[q] = i /\ stage[q] = "recorded"
    IN
    /\ stage[r] = "recorded"
    /\ \E f \in Closed(r, entries[i], others) : entries' = [entries EXCEPT ![i] = f]
    /\ Goto(r, "done")
    /\ UNCHANGED <<args, winner, sample, dirs, reports, archive, cleans>>

\* An exception, or an interruption.
Abort(r) ==
    /\ stage[r] \notin {"done", "failed"}
    /\ Goto(r, "failed")
    /\ UNCHANGED <<args, winner, sample, files, archive, cleans>>

CleanRuns ==
    /\ cleans < MaxCleans
    /\ cleans' = cleans + 1
    /\ dirs' = {}
    /\ reports' = [p \in Places |-> IF p = "file" THEN reports[p] ELSE Nothing]
    /\ UNCHANGED <<args, stage, winner, sample, entries, archive>>

Next ==
    \/ \E r \in Runs :
          \/ Start(r) \/ Search(r) \/ ConfirmOnce(r) \/ ConfirmAgain(r)
          \/ OpenReport(r) \/ CloseReport(r) \/ WriteHtml(r)
          \/ Record(r) \/ Recorded(r) \/ Abort(r)
    \/ CleanRuns

Spec == Init /\ [][Next]_vars

----------------------------------------------------------------------------
(* Properties.                                                             *)

\* A report of doctor or optimize says IMPROVED exactly when the evidence it
\* was graded on is a correct, significant gain of 2% or more, whatever the
\* search had measured; a winner that is not correct is a REGRESSION.
ClaimIsSound ==
    \A p \in Places : Whole(p) /\ cmd[Writer(p)] # "search" =>
        LET c == Claim(Writer(p))
            m == sample[Writer(p)]
        IN  /\ c.class = "IMPROVED" <=>
                 winner[Writer(p)] # 0 /\ m.correct /\ m.significant /\ m.speed >= 102
            /\ c.class = "IMPROVED" <=> c.grade \in {"A", "B"}
            /\ ~m.correct => c.grade = "F" /\ c.class = "REGRESSION"

\* A history entry is written last: the report it points to is on disk and
\* complete, unless another run wrote to the same place or "runs clean" removed
\* it.  (reproduce, compare and export open it from the ledger.)
HistoryMatchesReport ==
    \A i \in Stamps : entries[i] # Nothing /\ entries[i].whole =>
        LET r == entries[i].by IN
        \/ cleans > 0
        \/ \E q \in Runs \ {r} : target[q] = target[r]
        \/ reports[target[r]] = Text(r)

\* What seeds later searches was confirmed: a pipeline that "autotune search"
\* puts into the seed archive and the knowledge store won on fresh samples, at
\* Grade A or B, whatever the search itself had measured.
ArchiveIsConfirmed ==
    \A r \in archive : cmd[r] = "search" =>
        /\ winner[r] # 0
        /\ sample[r].fresh /\ sample[r].correct
        /\ sample[r].significant /\ sample[r].speed >= 102

\* docs/limitations.md: never claim a speedup unless final confirmation
\* independently verifies it.  What the gate lets pass was measured afresh and
\* reached the threshold there.  It fails: doctor grades the one search-time
\* number as fresh when the confirmation runs fail, and search reports its
\* search-time ratio under the grade of the confirmation.
GateTrustsConfirmation ==
    \A p \in Places : GatePasses(p) =>
        sample[Writer(p)].fresh /\ sample[Writer(p)].speed >= MinSpeedup
=============================================================================
