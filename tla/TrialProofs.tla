----------------------------- MODULE TrialProofs -----------------------------
(***************************************************************************)
(* Proofs about Trial, for any pipelines, passes, worlds and bounds: its   *)
(* types, what a measurement was taken of and what disturbs it, that opt   *)
(* and the results speak of the pipeline that was bred, what each strategy *)
(* accepts, and that a trial does what Evaluation says.                    *)
(***************************************************************************)
EXTENDS Trial, PipelinesProofs

\* Where a trial is in a series of runs: the count is below its end while the
\* series goes on, and only a series has a count, a process or a loss.
SeriesInv ==
    /\ \A s \in {"check", "time"} : stage = s => runs < Warm(s) + Runs[s]
    /\ stage \in {"check", "time"} /\ proc \in {"none", "runs"} => ~lost
    /\ proc \in {"dies", "hangs", "leaderless"} => lost
    /\ stage \notin {"check", "time"} => proc = "none"
    /\ stage \notin {"check", "time", "validate", "score"} => runs = 0 /\ ~lost
    /\ stage \notin {"rest", "prune"} => memo[Key(seq)] = "none"

TypeInv == TypeOK /\ SeriesInv

\* A series has warm-up runs and timed ones, within the bound of the count.
LEMMA SeriesBound ==
    ASSUME NEW s \in {"check", "time"}
    PROVE  /\ Warm(s) \in Nat /\ Warm(s) + Runs[s] \in 1..AtLeast(3, Warmups) + Repetitions
<1>1. Warmups \in Nat /\ Repetitions \in Nat \ {0}
  BY TrialAssumption
<1>2. Warm(s) \in Nat /\ Warm(s) =< AtLeast(3, Warmups)
  BY <1>1 DEF Warm, AtLeast
<1>3. Runs[s] \in 1..Repetitions
  BY <1>1 DEF Runs
<1>4. AtLeast(3, Warmups) \in Nat
  BY <1>1 DEF AtLeast
<1>. QED
  BY <1>1, <1>2, <1>3, <1>4

\* The constants, without what the assumption says about worlds.
LEMMA Bounds ==
    /\ Warmups \in Nat /\ Repetitions \in Nat \ {0}
    /\ MaxTrials \in Nat /\ MaxFaults \in Nat
    /\ AtLeast(3, Warmups) \in Nat
    /\ 0 \in 0..AtLeast(3, Warmups) + Repetitions
BY TrialAssumption DEF AtLeast

\* A result is a result of the candidate's own key and ends the trial.
LEMMA ConcludeType ==
    ASSUME TypeOK, NEW result \in Results, Conclude(result)
    PROVE  /\ memo' \in [Keys -> Results \cup {"none"}]
           /\ DOMAIN origin' = Keys
           /\ stage' = "rest"
BY DEF TypeOK, Conclude, Goto

\* The number of runs in a series does not change.
LEMMA WarmStays ==
    ASSUME world' = world, NEW s \in {"check", "time"} PROVE Warm(s)' = Warm(s)
BY DEF Warm

\* Every step keeps every variable in its type.
LEMMA TypeStep == TypeInv /\ [Next]_vars => TypeInv'
<1> SUFFICES ASSUME TypeInv, [Next]_vars PROVE TypeInv'
  OBVIOUS
<1> USE Bounds, SeriesBound, ConcludeType, WarmStays
    DEF TypeInv, TypeOK, SeriesInv, Stages, Procs, Results, Goto, files, series,
        bounds, session
<1>1. ASSUME Breed PROVE TypeInv'
  BY <1>1, TrialAssumption DEF Breed
<1>2. ASSUME Take PROVE TypeInv'
  BY <1>2, TrialAssumption DEF Take
<1>3. ASSUME Admit PROVE TypeInv'
  BY <1>3 DEF Admit
<1>4. ASSUME Lower PROVE TypeInv'
  BY <1>4 DEF Lower
<1>5. ASSUME RunOpt PROVE TypeInv'
  BY <1>5 DEF RunOpt
<1>6. ASSUME Emit PROVE TypeInv'
  BY <1>6 DEF Emit
<1>7. ASSUME Direct PROVE TypeInv'
  BY <1>7 DEF Direct
<1>8. ASSUME Launch PROVE TypeInv'
  <2>1. stage \in {"check", "time"} /\ proc' \in {"runs", "dies", "hangs", "leaderless"}
        /\ lost' \in BOOLEAN /\ (proc' = "runs" => ~lost') /\ (proc' # "runs" => lost')
    <3>1. stage \in {"check", "time"} /\ ~lost
      BY <1>8 DEF Launch
    <3>2. CASE proc' = "runs" /\ UNCHANGED <<lost, faults>>
      BY <3>1, <3>2
    <3>3. CASE lost' = TRUE /\ proc' \in {"dies", "hangs", "leaderless"}
      BY <3>1, <3>3
    <3>. QED
      BY <1>8, <3>2, <3>3 DEF Launch
  <2>2. faults' \in 0..MaxFaults
    BY <1>8 DEF Launch
  <2>3. world' = world /\ UNCHANGED <<stage, bred, seq, files, runs, judged, session, trials>>
    BY <1>8 DEF Launch
  <2>4. SeriesInv'
    BY <2>1, <2>3
  <2>. QED
    BY <2>1, <2>2, <2>3, <2>4
<1>9. ASSUME Finish PROVE TypeInv'
  <2>1. proc \in {"runs", "dies"} /\ proc' = "none" /\ stage \in {"check", "time"}
        /\ UNCHANGED <<world, bred, seq, files, lost, judged, session, bounds>>
    BY <1>9 DEF Finish
  <2>2. CASE proc = "runs" /\ world.cand.ok
    <3>1. runs' = runs + 1 /\ ~lost
      BY <1>9, <2>1, <2>2 DEF Finish
    <3>2. runs < Warm(stage) + Runs[stage]
          /\ stage' = IF runs' = Warm(stage) + Runs[stage] THEN After[stage] ELSE stage
      BY <1>9, <2>1, <2>2 DEF Finish, EndSeries
    <3>3. runs' \in 0..AtLeast(3, Warmups) + Repetitions
      BY <2>1, <3>1, <3>2
    <3>4. stage' \in {"check", "time", "validate", "score"}
          /\ (stage' = stage \/ stage' \in {"validate", "score"})
          /\ (stage' = stage => runs' < Warm(stage) + Runs[stage])
      BY <2>1, <3>1, <3>2 DEF After
    <3>. QED
      BY <2>1, <3>1, <3>3, <3>4
  <2>3. CASE ~(proc = "runs" /\ world.cand.ok)
    <3>1. stage' = After[stage] /\ UNCHANGED runs
      BY <1>9, <2>1, <2>3 DEF Finish, EndSeries
    <3>2. stage' \in {"validate", "score"}
      BY <2>1, <3>1 DEF After
    <3>. QED
      BY <2>1, <3>1, <3>2
  <2>. QED
    BY <2>2, <2>3
<1>10. ASSUME Timeout PROVE TypeInv'
  BY <1>10 DEF Timeout, EndSeries, After
<1>11. ASSUME Validate PROVE TypeInv'
  <2>1. judged' \in {"pass", "fail"} /\ runs' = 0 /\ lost' = FALSE /\ stage' = "record"
        /\ stage = "validate"
        /\ UNCHANGED <<world, bred, seq, files, proc, session, bounds>>
    BY <1>11 DEF Validate
  <2>. QED
    BY <2>1
<1>12. ASSUME Record PROVE TypeInv'
  BY <1>12 DEF Record
<1>13. ASSUME Judge PROVE TypeInv'
  BY <1>13 DEF Judge
<1>14. ASSUME Score PROVE TypeInv'
  <2>1. PICK result \in {"unmeasured", "measured"} : Conclude(result)
    BY <1>14 DEF Score
  <2>2. runs' = 0 /\ lost' = FALSE /\ stage = "score"
        /\ UNCHANGED <<world, bred, seq, files, proc, judged, bounds>>
    BY <1>14 DEF Score
  <2>. QED
    BY <2>1, <2>2
<1>15. CASE UNCHANGED vars
  BY <1>15 DEF vars
<1>. QED
  BY <1>1, <1>2, <1>3, <1>4, <1>5, <1>6, <1>7, <1>8, <1>9, <1>10, <1>11, <1>12, <1>13, <1>14, <1>15
  DEF Next, Compile, Run, Assess

\* A trial starts well typed.
LEMMA TypeInit == Init => TypeInv
<1> SUFFICES ASSUME Init PROVE TypeInv
  OBVIOUS
<1> USE DEF Init, TypeInv, TypeOK, SeriesInv, Stages, Procs, Results
<1>1. bred \in Bred[world] /\ Key(seq) \in Keys
  BY TrialAssumption
<1>2. memo \in [Keys -> Results \cup {"none"}] /\ DOMAIN origin = Keys
  OBVIOUS
<1>3. 0 \in 0..MaxTrials /\ 0 \in 0..MaxFaults /\ 0 \in 0..AtLeast(3, Warmups) + Repetitions
  BY Bounds
<1>. QED
  BY <1>1, <1>2, <1>3

\* What the variables of a trial can hold.
THEOREM TypeCorrect == Spec => []TypeOK
<1>1. TypeInv => TypeOK
  BY DEF TypeInv
<1>. QED
  BY <1>1, TypeInit, TypeStep, PTL DEF Spec

----------------------------------------------------------------------------
(* What is measured is the candidate's own executable.                     *)

\* What the driver makes of a candidate.
Made(s) == IF world.opt THEN File("whole", OptString(s)) ELSE Plain

\* From the moment the linker is done until the result is in memory the
\* executable is that of the candidate, and the count that the score is given
\* is that of a complete series unless some run of it failed.
OwnInv ==
    /\ stage \in {"lower", "opt", "emit"} => world.opt
    /\ stage = "direct" => ~world.opt
    /\ stage = "emit" => opt = File("whole", OptString(seq))
    /\ stage \in {"check", "validate", "record", "judge", "time", "score"} => bin = Made(seq)
    /\ stage = "score" /\ ~lost /\ world.cand.ok => runs = Warm("time") + Repetitions
    /\ MeasuredIsItsOwn

\* A conclusion keeps what a measurement was taken of.
LEMMA ConcludeOwn ==
    ASSUME TypeOK, MeasuredIsItsOwn, world' = world, NEW result \in Results, Conclude(result),
           result = "measured" => bin = Made(seq) /\ runs = Warm("time") + Repetitions
    PROVE  OwnInv'
<1>0. SUFFICES MeasuredIsItsOwn'
  BY DEF OwnInv, Conclude, Goto
<1>1. Warm("time")' = Warm("time")
  BY WarmStays
<1>2. SUFFICES ASSUME NEW k \in Keys, memo'[k] = "measured"
               PROVE  /\ origin'[k].bin = IF world.opt THEN File("whole", origin'[k].program) ELSE Plain
                      /\ origin'[k].runs = Warm("time") + Repetitions
  BY <1>1 DEF MeasuredIsItsOwn
<1>3. CASE k = Key(seq)
  <2>1. origin'[k] = [program |-> OptString(seq), bin |-> bin, runs |-> runs] /\ result = "measured"
    BY <1>2, <1>3 DEF TypeOK, Conclude, Of
  <2>. QED
    BY <2>1 DEF Made
<1>4. CASE k # Key(seq)
  BY <1>2, <1>4 DEF TypeOK, Conclude, MeasuredIsItsOwn
<1>. QED
  BY <1>3, <1>4

\* What stays as it was measured as long as nothing is concluded.
LEMMA MeasuredStays ==
    ASSUME MeasuredIsItsOwn, UNCHANGED <<world, session>> PROVE MeasuredIsItsOwn'
<1>1. Warm("time")' = Warm("time")
  BY WarmStays
<1>. QED
  BY <1>1 DEF MeasuredIsItsOwn, session

\* Every step keeps what a measurement was taken of.
LEMMA OwnStep == TypeInv /\ OwnInv /\ [Next]_vars => OwnInv'
<1> SUFFICES ASSUME TypeInv, OwnInv, [Next]_vars PROVE OwnInv'
  OBVIOUS
<1> USE WarmStays, MeasuredStays DEF TypeInv, TypeOK, SeriesInv, OwnInv, Made, Goto, files, series,
        bounds, session, Procs, Results
<1>1. ASSUME Breed PROVE OwnInv'
  BY <1>1, ConcludeOwn DEF Breed
<1>2. ASSUME Take PROVE OwnInv'
  BY <1>2, ConcludeOwn DEF Take
<1>3. ASSUME Admit PROVE OwnInv'
  <2>1. CASE \E result \in Results \ {"measured"} : Conclude(result)
    BY <1>3, <2>1, ConcludeOwn DEF Admit
  <2>2. CASE ~\E result \in Results \ {"measured"} : Conclude(result)
    <3>1. stage' = (IF world.opt THEN "lower" ELSE "direct") /\ UNCHANGED <<world, session>>
      BY <1>3, <2>2 DEF Admit
    <3>. QED
      BY <3>1
  <2>. QED
    BY <2>1, <2>2
<1>4. ASSUME Lower PROVE OwnInv'
  <2>1. CASE \E result \in Results \ {"measured"} : Conclude(result)
    BY <1>4, <2>1, ConcludeOwn DEF Lower
  <2>2. CASE ~\E result \in Results \ {"measured"} : Conclude(result)
    <3>1. stage' = "opt" /\ stage = "lower" /\ UNCHANGED <<world, session>>
      BY <1>4, <2>2 DEF Lower
    <3>. QED
      BY <3>1
  <2>. QED
    BY <2>1, <2>2
<1>5. ASSUME RunOpt PROVE OwnInv'
  <2>1. CASE \E result \in Results \ {"measured"} : Conclude(result)
    BY <1>5, <2>1, ConcludeOwn DEF RunOpt
  <2>2. CASE ~\E result \in Results \ {"measured"} : Conclude(result)
    <3>1. stage' = "emit" /\ stage = "opt" /\ opt' = File("whole", OptString(seq)) /\ UNCHANGED <<world, seq, session>>
      BY <1>5, <2>2 DEF RunOpt
    <3>. QED
      BY <3>1
  <2>. QED
    BY <2>1, <2>2
<1>6. ASSUME Emit PROVE OwnInv'
  <2>1. CASE \E result \in Results \ {"measured"} : Conclude(result)
    BY <1>6, <2>1, ConcludeOwn DEF Emit
  <2>2. CASE ~\E result \in Results \ {"measured"} : Conclude(result)
    <3>1. stage' = "check" /\ stage = "emit" /\ bin' = opt /\ UNCHANGED <<world, seq, session>>
      BY <1>6, <2>2 DEF Emit
    <3>. QED
      BY <3>1
  <2>. QED
    BY <2>1, <2>2
<1>7. ASSUME Direct PROVE OwnInv'
  <2>1. CASE \E result \in Results \ {"measured"} : Conclude(result)
    BY <1>7, <2>1, ConcludeOwn DEF Direct
  <2>2. CASE ~\E result \in Results \ {"measured"} : Conclude(result)
    <3>1. stage' \in {"check", "rest"} /\ stage = "direct" /\ (stage' = "check" => bin' = Plain) /\ UNCHANGED <<world, seq, session>>
      BY <1>7, <2>2 DEF Direct
    <3>. QED
      BY <3>1
  <2>. QED
    BY <2>1, <2>2
<1>8. ASSUME Launch PROVE OwnInv'
  BY <1>8, ConcludeOwn DEF Launch
<1>9. ASSUME Finish PROVE OwnInv'
  <2>1. stage \in {"check", "time"} /\ UNCHANGED <<world, seq, files, lost, session>>
    BY <1>9 DEF Finish
  <2>2. CASE proc = "runs" /\ world.cand.ok
    <3>1. /\ runs' = runs + 1
          /\ stage' = IF runs' = Warm(stage) + Runs[stage] THEN After[stage] ELSE stage
      BY <1>9, <2>2 DEF Finish, EndSeries
    <3>2. CASE stage' = stage
      BY <2>1, <3>2
    <3>3. CASE stage' # stage
      <4>1. stage' = After[stage] /\ runs' = Warm(stage) + Runs[stage]
        BY <3>1, <3>3
      <4>2. stage' = "validate" \/ (stage' = "score" /\ runs' = Warm("time") + Repetitions)
        BY <2>1, <4>1 DEF After, Runs
      <4>. QED
        BY <2>1, <4>2
    <3>. QED
      BY <3>2, <3>3
  <2>3. CASE ~(proc = "runs" /\ world.cand.ok)
    <3>1. stage' = After[stage] /\ (lost \/ ~world.cand.ok)
      BY <1>9, <2>1, <2>3 DEF Finish, EndSeries
    <3>2. stage' \in {"validate", "score"}
      BY <2>1, <3>1 DEF After
    <3>. QED
      BY <2>1, <3>1, <3>2
  <2>. QED
    BY <2>2, <2>3
<1>10. ASSUME Timeout PROVE OwnInv'
  BY <1>10, ConcludeOwn DEF Timeout, EndSeries, After
<1>11. ASSUME Validate PROVE OwnInv'
  BY <1>11, ConcludeOwn DEF Validate
<1>12. ASSUME Record PROVE OwnInv'
  BY <1>12, ConcludeOwn DEF Record
<1>13. ASSUME Judge PROVE OwnInv'
  <2>1. CASE \E result \in Results \ {"measured"} : Conclude(result)
    BY <1>13, <2>1, ConcludeOwn DEF Judge
  <2>2. CASE ~\E result \in Results \ {"measured"} : Conclude(result)
    <3>1. stage' = "time" /\ stage = "judge" /\ UNCHANGED <<world, seq, bin, session>>
      BY <1>13, <2>2 DEF Judge
    <3>. QED
      BY <3>1
  <2>. QED
    BY <2>1, <2>2
<1>14. ASSUME Score PROVE OwnInv'
  <2>1. stage = "score" /\ world' = world
        /\ Conclude(IF lost \/ ~world.cand.ok THEN "unmeasured" ELSE "measured")
    BY <1>14 DEF Score
  <2>2. CASE lost \/ ~world.cand.ok
    BY <2>1, <2>2, ConcludeOwn
  <2>3. CASE ~(lost \/ ~world.cand.ok)
    BY <2>1, <2>3, ConcludeOwn
  <2>. QED
    BY <2>2, <2>3
<1>15. CASE UNCHANGED vars
  BY <1>15 DEF vars
<1>. QED
  BY <1>1, <1>2, <1>3, <1>4, <1>5, <1>6, <1>7, <1>8, <1>9, <1>10, <1>11, <1>12, <1>13, <1>14, <1>15
  DEF Next, Compile, Run, Assess

\* Only whole executables of the candidate's own pipeline count as measured, and
\* only after all their runs.
THEOREM MeasuredOwn == Spec => []MeasuredIsItsOwn
<1>1. Init => OwnInv
  BY DEF Init, OwnInv, MeasuredIsItsOwn
<1>2. OwnInv => MeasuredIsItsOwn
  BY DEF OwnInv
<1>. QED
  BY <1>1, <1>2, TypeInit, TypeStep, OwnStep, PTL DEF Spec

----------------------------------------------------------------------------
(* What opt is called with, and what the session's memory answers.         *)

\* Only canonical names are evaluated, only known ones are compiled, and what is
\* remembered under a key was obtained with the program that the key spells.
PipelineInv ==
    /\ seq \in Seq(CanonicalNames)
    /\ Len(seq) =< MaxLength
    /\ stage \in {"lower", "opt", "emit", "direct"} => seq # <<>>
    /\ stage \in {"lower", "opt", "emit", "direct"} => \A i \in DOMAIN seq : IsKnown(seq[i])
    /\ \A k \in Keys : memo[k] # "none" => origin[k].program = k

\* What is bred is within the bounds, so that pruning makes its names canonical.
LEMMA BredFits ==
    ASSUME NEW x \in Worlds, NEW b \in Bred[x]
    PROVE  /\ b \in Seq(Passes) /\ Len(b) \in MinLength..MaxLength
           /\ Prune(b) \in Seq(CanonicalNames) /\ Key(Prune(b)) \in Keys
           /\ Len(Prune(b)) =< MaxLength
           /\ Reduced(Word(OptString(Prune(b)))) = Meaning(Canonical(b))
<1>1. Seeds \in SUBSET Seq(Passes) /\ b \in Children(Seeds) /\ Key(Prune(b)) \in Keys
  BY TrialAssumption
<1>2. b \in Seq(Passes) /\ Len(b) \in MinLength..MaxLength
  BY <1>1, ChildrenFit
<1>3. Len(b) >= 2
  BY <1>2, PassFacts
<1>4. Len(Prune(b)) =< Len(b) /\ Prune(b) \in Seq(Passes) /\ Prune(b) \in Seq(CanonicalNames)
  BY <1>2, <1>3, PrunedFits, PrunedLength, CanonicalFixed
<1>5. Len(Prune(b)) =< MaxLength
  BY <1>2, <1>4, PassFacts
<1>. QED
  BY <1>1, <1>2, <1>3, <1>5, PrunedFits

\* The key of a pipeline in canonical form is what opt is given.
LEMMA KeyIsProgram ==
    ASSUME NEW s \in Seq(CanonicalNames) PROVE Key(s) = OptString(s)
BY CanonicalFixed DEF Key

\* A conclusion remembers its result under the key of what was built.
LEMMA ConcludeRemembers ==
    ASSUME TypeOK, PipelineInv, seq' = seq, NEW result \in Results, Conclude(result)
    PROVE  PipelineInv'
<1>1. stage' = "rest"
  BY DEF Conclude, Goto
<1>2. ASSUME NEW k \in Keys, memo'[k] # "none" PROVE origin'[k].program = k
  <2>1. CASE k = Key(seq)
    <3>1. origin'[k] = Of(seq)
      BY <2>1 DEF Conclude, TypeOK
    <3>2. Of(seq).program = OptString(seq)
      BY DEF Of
    <3>. QED
      BY <2>1, <3>1, <3>2, KeyIsProgram DEF PipelineInv
  <2>2. CASE k # Key(seq)
    BY <1>2, <2>2 DEF Conclude, TypeOK, PipelineInv
  <2>. QED
    BY <2>1, <2>2
<1>. QED
  BY <1>1, <1>2 DEF PipelineInv

\* Every step keeps the pipeline that was bred and what is made of it together.
LEMMA PipelineStep == TypeInv /\ PipelineInv /\ [Next]_vars => PipelineInv'
<1> SUFFICES ASSUME TypeInv, PipelineInv, [Next]_vars PROVE PipelineInv'
  OBVIOUS
<1>0. TypeOK
  BY DEF TypeInv
<1>1. CASE \E result \in Results : Conclude(result) /\ seq' = seq
  BY <1>0, <1>1, ConcludeRemembers
<1>2. CASE Take
  <2>1. world \in Worlds /\ bred \in Bred[world]
    BY <1>0 DEF TypeOK
  <2>2. Prune(bred) \in Seq(CanonicalNames) /\ Len(Prune(bred)) =< MaxLength
    BY <2>1, BredFits
  <2>3. seq' \in {seq, Prune(bred)} /\ stage' \in {"rest", "admit"} /\ UNCHANGED <<memo, origin>>
    BY <1>2 DEF Take, Goto, session
  <2>. QED
    BY <2>2, <2>3 DEF PipelineInv
<1>3. CASE Admit /\ ~\E result \in Results : Conclude(result) /\ seq' = seq
  <2>1. "uncompilable" \in Results
    BY DEF Results
  <2>2. seq' = seq /\ UNCHANGED <<memo, origin>> /\ seq # <<>> /\ \A i \in DOMAIN seq : IsKnown(seq[i])
    BY <1>3, <2>1 DEF Admit, session
  <2>. QED
    BY <2>2 DEF PipelineInv
<1>4. CASE /\ ~Take /\ ~Admit /\ UNCHANGED <<seq, memo, origin>>
           /\ stage' \in {"lower", "opt", "emit", "direct"} => stage \in {"lower", "opt", "emit", "direct"}
  BY <1>4 DEF PipelineInv
<1>5. Breed => UNCHANGED <<seq, memo, origin>> /\ stage' = "prune"
  BY DEF Breed, Goto, session
<1>6. Lower \/ RunOpt \/ Emit \/ Direct =>
        \/ \E result \in Results : Conclude(result) /\ seq' = seq
        \/ UNCHANGED <<seq, memo, origin>> /\ stage \in {"lower", "opt", "emit", "direct"}
  BY DEF Lower, RunOpt, Emit, Direct, Goto, session, Results
<1>7. Run => UNCHANGED <<seq, memo, origin>> /\ (stage' = stage \/ stage' \in {"validate", "score"})
  <2>1. Launch => UNCHANGED <<seq, memo, origin>> /\ stage' = stage
    BY DEF Launch, session
  <2>2. ASSUME Finish \/ Timeout
        PROVE  UNCHANGED <<seq, memo, origin>> /\ (stage' = stage \/ stage' \in {"validate", "score"})
    <3>1. stage \in {"check", "time"}
      BY <1>0, <2>2 DEF Finish, Timeout, TypeInv, SeriesInv
    <3>2. UNCHANGED <<seq, memo, origin>> /\ (stage' = stage \/ stage' = After[stage])
      BY <2>2 DEF Finish, Timeout, EndSeries, Goto, session
    <3>. QED
      BY <3>1, <3>2 DEF After
  <2>. QED
    BY <2>1, <2>2 DEF Run
<1>8. Assess =>
        \/ \E result \in Results : Conclude(result) /\ seq' = seq
        \/ UNCHANGED <<seq, memo, origin>> /\ stage' \in {"record", "judge", "time"}
  BY DEF Assess, Validate, Record, Judge, Score, Goto, session, Results
<1>9. UNCHANGED vars => UNCHANGED <<seq, memo, origin, stage>>
  BY DEF vars, session
<1>. QED
  BY <1>1, <1>2, <1>3, <1>4, <1>5, <1>6, <1>7, <1>8, <1>9 DEF Next, Compile

\* A trial starts with a pruned pipeline that was bred.
LEMMA PipelineInit == Init => PipelineInv
<1> SUFFICES ASSUME Init PROVE PipelineInv
  OBVIOUS
<1>1. world \in Worlds /\ bred \in Bred[world] /\ seq = Prune(bred)
  BY TypeInit DEF Init, TypeInv, TypeOK
<1>. QED
  BY <1>1, BredFits DEF Init, PipelineInv

\* Whatever is bred and pruned, opt gets as many passes as may be, with known names
\* in canonical form, and can parse them unless one is of modules or loops and not
\* listed in the registry, whatever that lists.
THEOREM OptIsCalledRight == Spec => []OptGetsWhatItKnows
<1>1. ASSUME TypeInv, PipelineInv PROVE OptGetsWhatItKnows
  <2>1. SUFFICES ASSUME stage = "opt" PROVE
          /\ Len(seq) \in 1..MaxLength
          /\ \A i \in DOMAIN seq : seq[i] \in Known /\ Alias[seq[i]] = seq[i]
          /\ (\A i \in DOMAIN seq : seq[i] \in Classified) => Parses(OptString(seq))
    BY DEF OptGetsWhatItKnows
  <2>2. Len(seq) \in 1..MaxLength
    <3>1. seq \in Seq(CanonicalNames) /\ seq # <<>> /\ Len(seq) =< MaxLength /\ MaxLength \in Nat
      BY <1>1, <2>1, PassFacts DEF PipelineInv
    <3>. QED
      BY <3>1, EmptySeq
  <2>3. seq \in Seq(CanonicalNames) /\ seq \in Seq(Passes) /\ \A i \in DOMAIN seq : IsKnown(seq[i])
    BY <1>1, <2>1, CanonicalFixed DEF PipelineInv
  <2>4. \A i \in DOMAIN seq : seq[i] \in Known /\ Alias[seq[i]] = seq[i]
    BY <2>3 DEF IsKnown, CanonicalNames
  <2>5. (\A i \in DOMAIN seq : seq[i] \in Classified) => seq \in Seq(Classified)
    BY <2>3
  <2>. QED
    BY <2>2, <2>4, <2>5, ArgumentParses
<1>. QED
  BY <1>1, TypeInit, TypeStep, PipelineInit, PipelineStep, PTL DEF Spec

\* A result, whether just obtained or remembered from another pipeline, is that
\* of a program which makes the transformations of the pipeline it is given to.
THEOREM ResultsFit == Spec => []ResultFitsThePipeline
<1>1. ASSUME TypeInv, PipelineInv PROVE ResultFitsThePipeline
  <2> DEFINE k == Key(Prune(bred))
  <2>1. SUFFICES ASSUME memo[k] # "none"
                 PROVE  Reduced(Word(origin[k].program)) = Meaning(Canonical(bred))
    BY DEF ResultFitsThePipeline
  <2>2. bred \in Bred[world] /\ world \in Worlds
    BY <1>1 DEF TypeInv, TypeOK
  <2>3. k \in Keys /\ Prune(bred) \in Seq(CanonicalNames)
        /\ Reduced(Word(OptString(Prune(bred)))) = Meaning(Canonical(bred))
    BY <2>2, BredFits
  <2>4. k = OptString(Prune(bred))
    BY <2>3, KeyIsProgram
  <2>5. origin[k].program = k
    BY <1>1, <2>1, <2>3 DEF PipelineInv
  <2>. QED
    BY <2>3, <2>4, <2>5
<1>. QED
  BY <1>1, TypeInit, TypeStep, PipelineInit, PipelineStep, PTL DEF Spec

----------------------------------------------------------------------------
(* A trial does what Evaluation says.                                      *)

\* How a candidate compares depends on its world only.
LEMMA AgreementIsOne ==
    /\ Agreement \in {"agrees", "differs", "crashes"}
    /\ world' = world => Agreement' = Agreement
BY DEF Agreement

\* A trial starts where Evaluation starts.
LEMMA RefinesInit == Init => E!Init
<1> SUFFICES ASSUME Init PROVE E!Init
  OBVIOUS
<1>1. EvaluationStage = "rest" /\ memo = [k \in Keys |-> "none"] /\ judged = "none"
  BY DEF Init, EvaluationStage
<1>2. (IF lost THEN faults - 1 ELSE faults) = 0
  <2>1. faults = 0 /\ ~lost
    BY DEF Init
  <2>. QED
    BY <2>1
<1>3. Key(seq) \in Keys
  BY TypeInit DEF TypeInv, TypeOK
<1>. QED
  BY <1>1, <1>2, <1>3, AgreementIsOne DEF E!Init, E!Missing, Nothing

\* Steps that Evaluation does not see.
LEMMA Stutter ==
    ASSUME world' = world, memo' = memo, EvaluationStage' = EvaluationStage,
           Key(seq)' = Key(seq), judged' = judged, faults' = faults, lost' = lost
    PROVE  UNCHANGED E!vars
BY AgreementIsOne DEF E!vars, E!setup, E!cache, E!files, E!faults

\* The only thing that moves is the stage, to the next label.
Moved == UNCHANGED <<world, memo, faults, lost, judged>> /\ Key(seq)' = Key(seq)

\* The candidate is done, with a result.
Done(result) ==
    /\ memo' = [memo EXCEPT ![Key(seq)] = result] /\ stage' = "rest"
    /\ UNCHANGED <<world, judged>> /\ Key(seq)' = Key(seq)

\* No executable is read from or kept in a cache, and none is torn by another thread.
LEMMA NothingCached ==
    ASSUME Key(seq) \in Keys
    PROVE  /\ ~E!Reads("session") /\ ~E!ReadsTimings("session") /\ ~E!Writes("session")
           /\ ~E!Found("worker") /\ E!Left("worker") = {E!Missing}
           /\ E!Executable("worker") = {[build |-> Agreement, bytes |-> "whole", seal |-> "none"]}
<1>1. ~E!Reads("session") /\ ~E!ReadsTimings("session") /\ ~E!Writes("session")
  BY DEF E!Reads, E!ReadsTimings, E!Writes
<1>2. ~E!Found("worker")
  BY <1>1 DEF E!Found
<1>3. E!Left("worker") = {E!Missing}
  BY <1>1 DEF E!Left, E!Missing
<1>4. E!Linked("worker") = {"whole"}
  BY DEF E!Linked
<1>5. E!Executable("worker") = {[build |-> Agreement, bytes |-> "whole", seal |-> "none"]}
  <2>1. E!Executable("worker") = [build : {Agreement}, bytes : {"whole"}, seal : {"none"}]
    BY <1>1, <1>4 DEF E!Executable
  <2>2. ASSUME NEW a PROVE [build : {a}, bytes : {"whole"}, seal : {"none"}]
                               = {[build |-> a, bytes |-> "whole", seal |-> "none"]}
    <3> DEFINE S == [build : {a}, bytes : {"whole"}, seal : {"none"}]
    <3> DEFINE r == [build |-> a, bytes |-> "whole", seal |-> "none"]
    <3>1. r \in S
      OBVIOUS
    <3>2. ASSUME NEW x \in S PROVE x = r
      OBVIOUS
    <3> HIDE DEF S, r
    <3>. QED
      BY <3>1, <3>2, Zenon DEF S, r
  <2>. QED
    BY <2>1, <2>2, Zenon
<1>. QED
  BY <1>1, <1>2, <1>3, <1>5

\* Nothing is there and nothing comes to be there.
LEMMA StillNothing ==
    ASSUME NEW k \in Keys, NEW seal
    PROVE  /\ E!Spoil(k, "whole")
           /\ (k = Key(seq) => E!Put("worker", E!Missing, seal))
<1>1. E!Spoil(k, "whole")
  BY DEF E!Spoil
<1>2. ASSUME k = Key(seq) PROVE E!Put("worker", E!Missing, seal)
  <2>1. ~E!Writes("session")
    BY DEF E!Writes
  <2>. QED
    BY <2>1 DEF E!Put, E!Missing
<1>. QED
  BY <1>1, <1>2

\* A failing compilation is final.
LEMMA AcquireFails ==
    ASSUME TypeOK, EvaluationStage = "acquire", Done("uncompilable"), UNCHANGED <<faults, lost>>
    PROVE  E!Acquire("worker")
<1>1. ~E!Found("worker") /\ E!Missing \in E!Left("worker")
  BY NothingCached DEF TypeOK
<1>2. E!Conclude("worker", "uncompilable")
  BY DEF TypeOK, Done, EvaluationStage, E!Conclude, E!Goto
<1>. QED
  BY <1>1, <1>2, AgreementIsOne
  DEF TypeOK, Done, E!Acquire, E!Missing, E!setup, E!cache, E!files, E!faults

\* A build that succeeds is an acquisition of Evaluation.
LEMMA AcquireSucceeds ==
    ASSUME TypeOK, EvaluationStage = "acquire", EvaluationStage' = "lookup", Moved
    PROVE  E!Acquire("worker")
<1>1. ~E!Found("worker") /\ E!Missing \in E!Left("worker") /\ E!Put("worker", E!Missing, "match")
  BY NothingCached, StillNothing DEF TypeOK
<1>2. E!Goto("worker", "lookup")
  BY DEF E!Goto
<1>. QED
  BY <1>1, <1>2, AgreementIsOne DEF TypeOK, Moved, E!Acquire, E!setup, E!cache, E!files, E!faults

\* An exception of a build is one of Evaluation.
LEMMA RaiseMaps ==
    ASSUME TypeOK, EvaluationStage = "acquire", EvaluationStage' = "rest", Moved
    PROVE  E!Raise("worker")
<1>1. E!Missing \in E!Left("worker") /\ E!Put("worker", E!Missing, "none")
  BY NothingCached, StillNothing DEF TypeOK
<1>2. E!Goto("worker", "rest")
  BY DEF E!Goto
<1>. QED
  BY <1>1, <1>2, AgreementIsOne DEF TypeOK, Moved, E!Raise, E!setup, E!cache, E!files, E!faults

\* What the linker has made, as Evaluation sees it.
Built == [build |-> Agreement, bytes |-> "whole", seal |-> "none"]

\* A validator that looks at the run rejects one that failed.
LEMMA LostIsRejected ==
    ASSUME NEW x \in Worlds, NEW b, NEW side, NEW o, ~o.ok
    PROVE  ~Accepts(x.strategy, b, o, side)
<1>1. PICK i \in DOMAIN x.strategy : x.strategy[i] \notin {"digest", "script"}
  BY TrialAssumption
<1>2. x.strategy[i] \in Strategies
  <2>1. x.strategy \in Seq(Strategies)
    BY TrialAssumption DEF WorldType
  <2>. QED
    BY <1>1, <2>1
<1>3. ~Single(x.strategy[i], b, o, side)
  BY <1>1, <1>2
  DEF Strategies, Single, ExitCodeAccepts, StdoutAccepts, ExactAccepts, ChecksumAccepts, NumericAccepts
<1>. QED
  BY <1>1, <1>3 DEF Accepts

\* No strategy accepts a candidate that crashes.
LEMMA CrashIsRejected ==
    ASSUME world \in Worlds, ~world.cand.ok
    PROVE  ~Accepts(world.strategy, Seen(world.base), Seen(world.cand), world.side)
<1>1. ~Seen(world.cand).ok
  BY TrialAssumption DEF WorldType, Seen
<1>. QED
  BY <1>1, LostIsRejected

\* Only a candidate that does not run crashes.
LEMMA AgreementCrashes == Agreement = "crashes" <=> ~world.cand.ok
BY DEF Agreement

\* A step of its only thread is a step of Evaluation.
LEMMA EvaluateIsNext == E!Evaluate("worker") => E!Next
BY DEF E!Next

\* Every step of a trial is one of Evaluation, or none.
LEMMA RefinesStep == TypeInv /\ [Next]_vars => [E!Next]_(E!vars)
<1> SUFFICES ASSUME TypeInv, [Next]_vars PROVE E!Next \/ UNCHANGED E!vars
  OBVIOUS
<1> USE DEF TypeInv, TypeOK, SeriesInv, Goto, Procs
<1>1. ASSUME Breed PROVE UNCHANGED E!vars
  BY <1>1, Stutter DEF Breed, EvaluationStage, session, series, bounds
<1>2. CASE Take
  <2>1. CASE stage' = "rest"
    BY <1>2, <2>1, Stutter DEF Take, EvaluationStage, session, series, bounds
  <2>2. CASE stage' # "rest"
    <3>1. /\ stage = "prune" /\ stage' = "admit" /\ judged' = "none" /\ Key(seq)' \in Keys
          /\ memo[Key(seq)'] = "none" /\ UNCHANGED <<world, memo, faults, lost>>
      BY <1>2, <2>2, TrialAssumption DEF Take, session, series, bounds
    <3>2. E!Take("worker", Key(seq)')
      BY <3>1, AgreementIsOne DEF E!Take, E!Goto, E!setup, E!cache, E!files, E!faults, EvaluationStage
    <3>. QED
      BY <3>1, <3>2 DEF E!Next
  <2>. QED
    BY <2>1, <2>2
<1>3. CASE Admit
  <2>1. stage = "admit" /\ UNCHANGED <<world, seq, faults, lost, judged>>
    BY <1>3 DEF Admit, series, bounds
  <2>2. CASE Conclude("uncompilable")
    <3>1. Done("uncompilable")
      BY <2>1, <2>2 DEF Done, Conclude
    <3>. QED
      BY <2>1, <3>1, AcquireFails, EvaluateIsNext DEF EvaluationStage, E!Evaluate
  <2>3. CASE ~Conclude("uncompilable")
    <3>1. stage' \in {"lower", "direct"} /\ memo' = memo
      BY <1>3, <2>3 DEF Admit, session
    <3>. QED
      BY <2>1, <3>1, Stutter DEF EvaluationStage
  <2>. QED
    BY <2>2, <2>3
<1>4. CASE Lower
  <2>1. stage = "lower" /\ UNCHANGED <<world, seq, faults, lost, judged, proc, runs>>
    BY <1>4 DEF Lower, series, bounds
  <2>2. CASE Conclude("uncompilable")
    <3>1. Done("uncompilable")
      BY <2>1, <2>2 DEF Done, Conclude
    <3>. QED
      BY <2>1, <3>1, AcquireFails, EvaluateIsNext DEF EvaluationStage, E!Evaluate
  <2>3. CASE ~Conclude("uncompilable")
    <3>1. stage' = "opt" /\ memo' = memo
      BY <1>4, <2>3 DEF Lower, session
    <3>. QED
      BY <2>1, <3>1, Stutter DEF EvaluationStage
  <2>. QED
    BY <2>2, <2>3
<1>5. CASE RunOpt
  <2>1. stage = "opt" /\ UNCHANGED <<world, seq, faults, lost, judged, proc, runs>>
    BY <1>5 DEF RunOpt, series, bounds
  <2>2. CASE Conclude("uncompilable")
    <3>1. Done("uncompilable")
      BY <2>1, <2>2 DEF Done, Conclude
    <3>. QED
      BY <2>1, <3>1, AcquireFails, EvaluateIsNext DEF EvaluationStage, E!Evaluate
  <2>3. CASE ~Conclude("uncompilable")
    <3>1. stage' = "emit" /\ memo' = memo
      BY <1>5, <2>3 DEF RunOpt, session
    <3>. QED
      BY <2>1, <3>1, Stutter DEF EvaluationStage
  <2>. QED
    BY <2>2, <2>3
<1>6. CASE Emit
  <2>1. stage = "emit" /\ UNCHANGED <<world, seq, faults, lost, judged, proc, runs>>
    BY <1>6 DEF Emit, series, bounds
  <2>2. CASE Conclude("uncompilable")
    <3>1. Done("uncompilable")
      BY <2>1, <2>2 DEF Done, Conclude
    <3>. QED
      BY <2>1, <3>1, AcquireFails, EvaluateIsNext DEF EvaluationStage, E!Evaluate
  <2>3. CASE ~Conclude("uncompilable")
    <3>1. stage' = "check" /\ memo' = memo
      BY <1>6, <2>3 DEF Emit, session
    <3>2. Moved /\ EvaluationStage = "acquire"
      BY <2>1, <3>1 DEF Moved, EvaluationStage
    <3>3. CASE stage' = "check"
      <4>1. EvaluationStage' = "lookup"
        BY <2>1, <3>3 DEF EvaluationStage
      <4>. QED
        BY <3>2, <4>1, AcquireSucceeds, EvaluateIsNext DEF E!Evaluate
    <3>. QED
      BY <3>1, <3>3
  <2>. QED
    BY <2>2, <2>3
<1>7. CASE Direct
  <2>1. stage = "direct" /\ UNCHANGED <<world, seq, faults, lost, judged, proc, runs>>
    BY <1>7 DEF Direct, series, bounds
  <2>2. CASE Conclude("uncompilable")
    <3>1. Done("uncompilable")
      BY <2>1, <2>2 DEF Done, Conclude
    <3>. QED
      BY <2>1, <3>1, AcquireFails, EvaluateIsNext DEF EvaluationStage, E!Evaluate
  <2>3. CASE ~Conclude("uncompilable")
    <3>1. stage' \in {"check", "rest"} /\ memo' = memo
      BY <1>7, <2>3 DEF Direct, session
    <3>2. Moved /\ EvaluationStage = "acquire"
      BY <2>1, <3>1 DEF Moved, EvaluationStage
    <3>3. CASE stage' = "check"
      <4>1. EvaluationStage' = "lookup"
        BY <2>1, <3>3 DEF EvaluationStage
      <4>. QED
        BY <3>2, <4>1, AcquireSucceeds, EvaluateIsNext DEF E!Evaluate
    <3>4. CASE stage' = "rest"
      <4>1. EvaluationStage' = "rest"
        BY <3>4 DEF EvaluationStage
      <4>. QED
        BY <3>2, <4>1, RaiseMaps, EvaluateIsNext DEF E!Evaluate
    <3>. QED
      BY <3>1, <3>3, <3>4
  <2>. QED
    BY <2>2, <2>3
<1>8. CASE Launch
  <2>1. /\ stage \in {"check", "time"} /\ proc = "none" /\ proc' # "none" /\ ~lost
        /\ UNCHANGED <<world, stage, seq, runs, judged, memo>>
    BY <1>8 DEF Launch, session
  <2>2. (IF lost THEN faults - 1 ELSE faults)' = IF lost THEN faults - 1 ELSE faults
    <3>1. CASE UNCHANGED <<lost, faults>>
      BY <3>1
    <3>2. CASE faults' = faults + 1 /\ lost' = TRUE
      BY <2>1, <3>2, Bounds
    <3>. QED
      BY <1>8, <3>1, <3>2 DEF Launch
  <2>3. CASE stage = "check" /\ runs = 0
    <3>1. EvaluationStage = "lookup" /\ EvaluationStage' = "run"
      BY <2>1, <2>3 DEF EvaluationStage
    <3>2. E!LookupVerdict("worker")
      BY <2>1, <2>2, <3>1, AgreementIsOne
      DEF E!LookupVerdict, E!Reads, E!Goto, E!setup, E!cache, E!files, E!faults
    <3>. QED
      BY <3>2, EvaluateIsNext DEF E!Evaluate
  <2>4. CASE stage = "time" /\ runs = 0
    <3>1. EvaluationStage = "time" /\ EvaluationStage' = "measure"
      BY <2>1, <2>4 DEF EvaluationStage
    <3>2. E!LookupTiming("worker")
      BY <2>1, <2>2, <3>1, AgreementIsOne
      DEF E!LookupTiming, E!ReadsTimings, E!Goto, E!setup, E!cache, E!files, E!faults
    <3>. QED
      BY <3>2, EvaluateIsNext DEF E!Evaluate
  <2>5. CASE runs # 0
    <3>1. EvaluationStage' = EvaluationStage
      BY <2>1, <2>5 DEF EvaluationStage
    <3>. QED
      BY <2>1, <2>2, <3>1, AgreementIsOne DEF E!vars, E!setup, E!cache, E!files, E!faults
  <2>. QED
    BY <2>1, <2>3, <2>4, <2>5
<1>9. CASE Finish
  <2>1. /\ proc # "none" /\ stage \in {"check", "time"} /\ proc' = "none"
        /\ UNCHANGED <<world, seq, lost, judged, memo, faults>>
    BY <1>9 DEF Finish, session, bounds
  <2>2. stage' = After[stage] \/ (stage' = stage /\ runs' = runs + 1)
    BY <1>9 DEF Finish, EndSeries
  <2>3. EvaluationStage' = EvaluationStage
    BY <2>1, <2>2, Bounds DEF EvaluationStage, After
  <2>. QED
    BY <2>1, <2>3, Stutter
<1>10. CASE Timeout
  <2>1. /\ proc # "none" /\ stage \in {"check", "time"} /\ stage' = After[stage]
        /\ UNCHANGED <<world, seq, lost, judged, memo, faults>>
    BY <1>10 DEF Timeout, EndSeries, session, bounds
  <2>2. EvaluationStage' = EvaluationStage
    BY <2>1 DEF EvaluationStage, After
  <2>. QED
    BY <2>1, <2>2, Stutter
<1>11. CASE Validate
  <2>1. /\ stage = "validate" /\ stage' = "record" /\ lost' = FALSE
        /\ judged' = IF Accepts(world.strategy, Seen(world.base), Observed, world.side)
                     THEN "pass" ELSE "fail"
        /\ UNCHANGED <<world, seq, memo, faults>>
    BY <1>11 DEF Validate, session, bounds
  <2>2. EvaluationStage = "run" /\ EvaluationStage' = "probe"
    BY <2>1 DEF EvaluationStage
  <2>3. CASE lost
    <3>1. judged' = "fail"
      BY <2>1, <2>3, LostIsRejected DEF Observed, Lost, Observation
    <3>2. LET t == IF lost THEN faults - 1 ELSE faults IN
          t < MaxFaults /\ (IF lost THEN faults - 1 ELSE faults)' = t + 1
      BY <2>1, <2>3, Bounds
    <3>3. "fail" \in E!Verdicts /\ Built \in E!Executable("worker") /\ E!Spoil(Key(seq), Built.bytes)
      BY NothingCached, StillNothing DEF E!Verdicts, Built
    <3>4. E!RunOnce("worker")
      BY <2>1, <2>2, <3>1, <3>2, <3>3, AgreementIsOne
      DEF E!RunOnce, E!Goto, E!setup, E!cache, E!files, E!faults
    <3>. QED
      BY <3>4, EvaluateIsNext DEF E!Evaluate
  <2>4. CASE ~lost
    <3>1. judged' = IF Agreement = "agrees" THEN "pass" ELSE "fail"
      BY <2>1, <2>4, CrashIsRejected DEF Observed, Agreement
    <3>2. Built \in E!Executable("worker") /\ E!Spoil(Key(seq), Built.bytes)
      BY NothingCached, StillNothing DEF Built
    <3>3. E!Accepts("session", Agreement, Key(seq)) <=> Agreement = "agrees"
      BY AgreementIsOne DEF E!Accepts, Outputs
    <3>4. judged' \in E!Verdict("worker", Built) /\ judged' \in E!Verdicts
      <4>1. Built # E!Missing /\ Built.build = Agreement
        BY AgreementIsOne DEF Built, E!Missing
      <4>. QED
        BY <3>1, <3>3, <4>1 DEF E!Verdict, E!Verdicts
    <3>5. (IF lost THEN faults - 1 ELSE faults)' = IF lost THEN faults - 1 ELSE faults
      BY <2>1, <2>4
    <3>6. E!RunOnce("worker")
      BY <2>1, <2>2, <3>2, <3>4, <3>5, AgreementIsOne
      DEF E!RunOnce, E!Goto, E!setup, E!cache, E!files, E!faults
    <3>. QED
      BY <3>6, EvaluateIsNext DEF E!Evaluate
  <2>. QED
    BY <2>3, <2>4
<1>12. CASE Record
  <2>1. /\ stage = "record" /\ stage' = "judge"
        /\ UNCHANGED <<world, seq, lost, judged, memo, faults>>
    BY <1>12 DEF Record, session, series, bounds
  <2>2. EvaluationStage = "probe" /\ EvaluationStage' = "judge"
    BY <2>1 DEF EvaluationStage
  <2>3. E!PutVerdictProbe("worker")
    BY <2>1, <2>2, AgreementIsOne
    DEF E!PutVerdictProbe, E!Writes, E!Goto, E!setup, E!cache, E!files, E!faults
  <2>. QED
    BY <2>3, EvaluateIsNext DEF E!Evaluate
<1>13. CASE Judge
  <2>1. /\ stage = "judge" /\ UNCHANGED <<world, seq, lost, judged, faults, proc, runs>>
        /\ IF judged = "pass" THEN stage' = "time" /\ UNCHANGED memo ELSE Conclude("incorrect")
    BY <1>13 DEF Judge, session, series, bounds
  <2>2. EvaluationStage = "judge" /\ EvaluationStage' = IF judged = "pass" THEN "time" ELSE "rest"
    BY <2>1 DEF EvaluationStage, Conclude
  <2>3. E!Judge("worker")
    BY <2>1, <2>2, AgreementIsOne
    DEF E!Judge, E!Conclude, Conclude, E!Goto, E!setup, E!cache, E!files, E!faults
  <2>. QED
    BY <2>3, EvaluateIsNext DEF E!Evaluate
<1>14. CASE Score
  <2>1. /\ stage = "score" /\ lost' = FALSE
        /\ Conclude(IF lost \/ ~world.cand.ok THEN "unmeasured" ELSE "measured")
        /\ UNCHANGED <<world, seq, judged, faults>>
    BY <1>14 DEF Score, bounds
  <2>2. EvaluationStage = "measure" /\ EvaluationStage' = "rest"
    BY <2>1 DEF EvaluationStage, Conclude
  <2>3. Built \in E!Executable("worker") /\ E!Spoil(Key(seq), Built.bytes) /\ ~E!Writes("session")
    BY NothingCached, StillNothing DEF Built
  <2>4. (IF ~world.cand.ok THEN "unmeasured" ELSE "measured") \in E!Series("worker", Built)
    <3>1. Outputs[Agreement][Key(seq)] = "crash" <=> ~world.cand.ok
      BY AgreementIsOne, AgreementCrashes DEF Outputs
    <3>2. Built # E!Missing /\ Built.build = Agreement
      BY AgreementIsOne DEF Built, E!Missing
    <3>. QED
      BY <3>1, <3>2 DEF E!Series
  <2> DEFINE r == IF lost \/ ~world.cand.ok THEN "unmeasured" ELSE "measured"
  <2>5. E!Conclude("worker", r)
    BY <2>1, <2>2 DEF Conclude, E!Conclude, E!Goto
  <2>6. CASE lost
    <3>1. LET t == IF lost THEN faults - 1 ELSE faults IN
          t < MaxFaults /\ (IF lost THEN faults - 1 ELSE faults)' = t + 1
      BY <2>1, <2>6, Bounds
    <3>2. r = "unmeasured"
      BY <2>6
    <3>3. E!Measure("worker")
      BY <2>1, <2>2, <2>3, <2>5, <3>1, <3>2, AgreementIsOne
      DEF E!Measure, E!setup, E!cache, E!files, E!faults
    <3>. QED
      BY <3>3, EvaluateIsNext DEF E!Evaluate
  <2>7. CASE ~lost
    <3>1. r \in E!Series("worker", Built) /\ r \in {"measured", "unmeasured"}
      BY <2>4, <2>7
    <3>2. (IF lost THEN faults - 1 ELSE faults)' = IF lost THEN faults - 1 ELSE faults
      BY <2>1, <2>7
    <3> HIDE DEF r
    <3>3. E!Measure("worker")
      BY <2>1, <2>2, <2>3, <2>5, <3>1, <3>2, AgreementIsOne
      DEF E!Measure, E!setup, E!cache, E!files, E!faults
    <3>. QED
      BY <3>3, EvaluateIsNext DEF E!Evaluate
  <2>. QED
    BY <2>6, <2>7
<1>15. CASE UNCHANGED vars
  BY <1>15, Stutter DEF vars, EvaluationStage, series, bounds, session
<1>. QED
  BY <1>1, <1>2, <1>3, <1>4, <1>5, <1>6, <1>7, <1>8, <1>9, <1>10, <1>11, <1>12, <1>13, <1>14, <1>15
  DEF Next, Compile, Run, Assess

\* A trial, subprocess by subprocess, does nothing that Evaluation does not
\* allow one thread of a session without a cache.
THEOREM TrialImplementsEvaluation == Spec => ImplementsEvaluation
BY RefinesInit, RefinesStep, TypeInit, TypeStep, PTL DEF Spec, ImplementsEvaluation, E!Spec






----------------------------------------------------------------------------
(* What the validators accept.                                             *)

\* Only keeps the tokens of its kinds.
LEMMA OnlyLoop ==
    ASSUME NEW A, NEW kinds
    PROVE  /\ Only(kinds, <<>>) = <<>>
           /\ \A s \in Seq(A) : Only(kinds, s) \in Seq({t \in A : t.kind \in kinds})
           /\ \A s \in Seq(A), x \in A : Only(kinds, Append(s, x)) = IF x.kind \in kinds THEN Append(Only(kinds, s), x) ELSE Only(kinds, s)
<1> DEFINE V == Seq({t \in A : t.kind \in kinds})
<1> DEFINE step == [y \in V \X A |-> IF y[2].kind \in kinds THEN Append(y[1], y[2]) ELSE y[1]]
<1>1. <<>> \in V
  OBVIOUS
<1>2. step \in [V \X A -> V]
  OBVIOUS
<1>3. \A v \in V, x \in A : step[<<v, x>>] = IF x.kind \in kinds THEN Append(v, x) ELSE v
  OBVIOUS
<1> HIDE DEF V, step
<1>4. PICK F : F \in Folds(A, V, <<>>, step)
  BY <1>1, <1>2, Fold
<1>5. ASSUME NEW s \in Seq(A) PROVE Only(kinds, s) = F[s]
  <2> DEFINE At(h, i) == IF i = 0 THEN <<>> ELSE IF s[i].kind \in kinds THEN Append(h[i - 1], s[i]) ELSE h[i - 1]
  <2> DEFINE f == CHOOSE f : f = [i \in 0..Len(s) |-> At(f, i)]
  <2>1. Only(kinds, s) = f[Len(s)]
    BY DEF Only
  <2>2. ASSUME NEW h, NEW i \in 1..Len(s), h[i - 1] \in V
        PROVE  At(h, i) = step[<<h[i - 1], s[i]>>]
    <3>1. s[i] \in A /\ i # 0
      OBVIOUS
    <3>. QED
      BY <1>3, <2>2, <3>1
  <2>0. \A h : At(h, 0) = <<>>
    OBVIOUS
  <2> HIDE DEF At, f
  <2>3. PICK g \in Passed(A, V, <<>>, step, s) : TRUE
    BY <1>4 DEF Folds
  <2>4. g = [i \in 0..Len(s) |-> At(g, i)]
    <3>1. g \in [0..Len(s) -> V] /\ g[0] = <<>> /\ \A i \in 1..Len(s) : g[i] = step[<<g[i - 1], s[i]>>]
      BY DEF Passed
    <3>2. g[0] = At(g, 0)
      BY <2>0, <3>1
    <3>3. ASSUME NEW i \in 1..Len(s) PROVE g[i] = At(g, i)
      <4>1. g[i - 1] \in V
        BY <3>1
      <4>. QED
        BY <2>2, <3>1, <4>1
    <3>4. Len(s) \in Nat
      OBVIOUS
    <3>. QED
      BY <3>1, <3>2, <3>3, <3>4
  <2>5. f = [i \in 0..Len(s) |-> At(f, i)]
    BY <2>4 DEF f
  <2>6. Looping(V, <<>>, step, s, f)
    <3>1. Len(s) \in Nat
      OBVIOUS
    <3>2. \A i \in 0..Len(s) : f[i] = At(f, i)
      BY <2>5, Zenon
    <3>3. f[0] = <<>>
      BY <2>0, <3>1, <3>2
    <3>4. ASSUME NEW i \in 1..Len(s), f[i - 1] \in V PROVE f[i] = step[<<f[i - 1], s[i]>>]
      <4>1. i \in 0..Len(s)
        BY <3>1
      <4>. QED
        BY <2>2, <3>2, <3>4, <4>1
    <3>. QED
      BY <3>3, <3>4 DEF Looping
  <2>7. Ends(f, s, F)
    BY <1>1, <1>2, <1>4, <2>6, Looped
  <2>. QED
    BY <2>1, <2>7 DEF Ends
<1>6. /\ F[<<>>] = <<>> /\ F \in [Seq(A) -> V]
      /\ \A s \in Seq(A), x \in A : F[Append(s, x)] = step[<<F[s], x>>]
  BY <1>4 DEF Folds
<1>7. ASSUME NEW s \in Seq(A), NEW x \in A PROVE Only(kinds, Append(s, x)) = IF x.kind \in kinds THEN Append(Only(kinds, s), x) ELSE Only(kinds, s)
  <2>1. Append(s, x) \in Seq(A) /\ F[s] \in V
    BY <1>6
  <2>2. F[Append(s, x)] = step[<<F[s], x>>] /\ step[<<F[s], x>>] = IF x.kind \in kinds THEN Append(F[s], x) ELSE F[s]
    BY <1>3, <1>6, <2>1
  <2>. QED
    BY <1>5, <2>1, <2>2
<1>8. <<>> \in Seq(A)
  OBVIOUS
<1>. QED
  BY <1>5, <1>6, <1>7, <1>8 DEF V

\* What a stream is made of.
Printable == [kind : Kinds, value : Int]

\* What Only leaves of a sequence has the kinds it asks for.
LEMMA OnlyType ==
    ASSUME NEW A, NEW kinds, NEW s \in Seq(A)
    PROVE  Only(kinds, s) \in Seq({t \in A : t.kind \in kinds}) /\ Only(kinds, s) \in Seq(A)
<1>1. Only(kinds, s) \in Seq({t \in A : t.kind \in kinds})
  BY OnlyLoop
<1>2. {t \in A : t.kind \in kinds} \subseteq A
  OBVIOUS
<1>. QED
  BY <1>1, <1>2

\* The streams of a world.
LEMMA Streams ==
    ASSUME NEW x \in Worlds
    PROVE  /\ x.base.out \in Seq(Printable) /\ x.base.err \in Seq(Printable)
           /\ x.cand.out \in Seq(Printable) /\ x.cand.err \in Seq(Printable)
           /\ x.base.exit = 0 /\ x.cand.ok = (x.cand.exit = 0)
           /\ x.strategy \in Seq(Strategies) /\ Epsilon \in Nat
  BY TrialAssumption, OutputAssumption DEF WorldType, Printable

\* The sandbox passes a short run on as it is.
LEMMA SeenWhole ==
    ASSUME NEW x \in Worlds, ~Beyond(x.base, x.cand)
    PROVE  Seen(x.base) = x.base /\ Seen(x.cand) = x.cand
<1>1. /\ ~(Len(x.base.out) > Cap) /\ ~(Len(x.base.err) > Cap)
      /\ ~(Len(x.cand.out) > Cap) /\ ~(Len(x.cand.err) > Cap)
  BY DEF Beyond
<1>2. x \in WorldType
  BY TrialAssumption
<1>. QED
  BY <1>1, <1>2 DEF Seen, Captured, WorldType

\* Capturing an output changes neither its exit code nor whether it ended.
LEMMA SeenSame ==
    ASSUME NEW x \in Worlds
    PROVE  /\ Seen(x.cand).ok = x.cand.ok /\ Seen(x.cand).exit = x.cand.exit
           /\ Seen(x.base).exit = x.base.exit
  BY TrialAssumption DEF Seen, WorldType

\* The numbers of a stream without a sign that is not read are its values.
LEMMA NumbersType ==
    ASSUME NEW out \in Seq(Printable)
    PROVE  /\ Len(Numbers(out)) \in Nat /\ DOMAIN Numbers(out) = 1..Len(Numbers(out))
           /\ \A i \in DOMAIN Numbers(out) : Numbers(out)[i] \in Int
           /\ Len(Values(out)) = Len(Numbers(out)) /\ DOMAIN Values(out) = DOMAIN Numbers(out)
           /\ \A i \in DOMAIN Numbers(out) :
                Values(out)[i] \in Int /\ Numbers(out)[i] \in {Values(out)[i], Abs(Values(out)[i])}
           /\ ~Signed(out) => \A i \in DOMAIN Numbers(out) : Values(out)[i] = Numbers(out)[i]
<1> DEFINE found == Only(Kinds \ {"word"}, Strip(out))
<1>1. found \in Seq(Printable)
  BY OnlyType DEF Strip
<1>2. Numbers(out) = [i \in DOMAIN found |-> Parsed(found[i])] /\ Values(out) = [i \in DOMAIN found |-> found[i].value]
  BY DEF Numbers, Values
<1>3. ~Signed(out) => found \in Seq({t \in Printable : t.kind = "decimal" \/ t.value >= 0})
  <2>1. SUFFICES ASSUME ~Signed(out)
                 PROVE  found \in Seq({t \in Printable : t.kind = "decimal" \/ t.value >= 0})
    OBVIOUS
  <2>2. ASSUME NEW i \in DOMAIN out
        PROVE  out[i] \in {t \in Printable : t.kind = "decimal" \/ t.value >= 0}
    <3>0. out[i] \in Printable
      OBVIOUS
    <3>1. out[i].value \in Int
      BY <3>0 DEF Printable
    <3>2. out[i].kind = "decimal" \/ ~(out[i].value < 0)
      BY <2>1 DEF Signed
    <3>3. out[i].kind = "decimal" \/ out[i].value >= 0
      BY <3>1, <3>2
    <3>. QED
      BY <3>0, <3>3
  <2>3. out \in Seq({t \in Printable : t.kind = "decimal" \/ t.value >= 0})
    BY <2>2
  <2>. QED
    BY <2>3, OnlyType DEF Strip
<1> HIDE DEF found
<1>4. /\ Len(found) \in Nat /\ DOMAIN found = 1..Len(found)
      /\ \A i \in DOMAIN found : found[i] \in Printable
  BY <1>1
<1>5. \A t \in Printable : t.value \in Int /\ Parsed(t) \in Int /\ Parsed(t) \in {t.value, Abs(t.value)}
  BY DEF Printable, Parsed, Abs
<1>6. \A t \in Printable : t.kind = "decimal" \/ t.value >= 0 => Parsed(t) = t.value
  BY DEF Printable, Parsed, Abs
<1>7. Len(Numbers(out)) = Len(found) /\ Len(Values(out)) = Len(found)
  BY <1>2, <1>4
<1>8. ASSUME ~Signed(out), NEW i \in DOMAIN found PROVE Values(out)[i] = Numbers(out)[i]
  <2>1. found[i] \in Printable /\ (found[i].kind = "decimal" \/ found[i].value >= 0)
    BY <1>3, <1>8
  <2>. QED
    BY <1>2, <1>6, <2>1
<1>. QED
  BY <1>2, <1>4, <1>5, <1>7, <1>8

\* Two outputs that differ in nothing but their markers pass every strategy.
LEMMA AlikePasses ==
    ASSUME NEW x \in Worlds, Alike(x.base, x.cand), ~Beyond(x.base, x.cand),
           x.side.artifacts # "missing", x.side.script = "accepts"
    PROVE  Accepts(x.strategy, Seen(x.base), Seen(x.cand), x.side)
<1> DEFINE b == x.base  c == x.cand
<1>1. Seen(b) = b /\ Seen(c) = c
  BY SeenWhole
<1>2. c.ok /\ c.exit = b.exit /\ Strip(c.out) = Strip(b.out) /\ c.err = b.err
  BY Streams DEF Alike
<1>3. b.out \in Seq(Printable) /\ Epsilon \in Nat
  BY Streams
<1> HIDE DEF b, c
<1>4. Checksums(c.out) = Checksums(b.out) /\ Numbers(c.out) = Numbers(b.out)
  BY <1>2 DEF Checksums, Numbers
<1>5. ChecksumAccepts(b, c)
  BY <1>2, <1>4 DEF ChecksumAccepts, Extracted
<1>6. NumericAccepts(b, c)
  <2>1. \A i \in DOMAIN Numbers(b.out) : Numbers(b.out)[i] \in Int
    BY <1>3, NumbersType
  <2>2. \A n \in Int : Abs(n - n) =< Epsilon
    BY <1>3 DEF Abs
  <2>3. \A i \in DOMAIN Numbers(b.out) : Abs(Numbers(b.out)[i] - Numbers(c.out)[i]) =< Epsilon
    BY <1>4, <2>1, <2>2
  <2>. QED
    BY <1>2, <1>4, <2>3 DEF NumericAccepts, Close
<1>7. ExitCodeAccepts(b, c) /\ StdoutAccepts(b, c) /\ ExactAccepts(b, c)
  BY <1>2 DEF ExitCodeAccepts, StdoutAccepts, ExactAccepts
<1>8. DigestAccepts(x.side) /\ ScriptAccepts(x.side)
  BY DEF DigestAccepts, ScriptAccepts
<1>9. \A name \in Strategies : Single(name, b, c, x.side)
  BY <1>5, <1>6, <1>7, <1>8 DEF Single, Strategies
<1>10. \A i \in DOMAIN x.strategy : x.strategy[i] \in Strategies
  <2>1. x.strategy \in Seq(Strategies)
    BY Streams
  <2>. QED
    BY <2>1
<1>. QED
  BY <1>1, <1>9, <1>10 DEF Accepts, b, c

\* What the sandbox lets through of a stream is one.
LEMMA SeenStreams ==
    ASSUME NEW x \in Worlds
    PROVE  Seen(x.base).out \in Seq(Printable) /\ Seen(x.cand).out \in Seq(Printable)
<1>1. ASSUME NEW out \in Seq(Printable) PROVE Captured(out) \in Seq(Printable)
  <2>1. Cut \in Printable
    BY DEF Cut, Token, Printable, Kinds
  <2>2. Len(out) > Cap => SubSeq(out, 1, Cap) \in Seq(Printable)
    BY OutputAssumption
  <2>. QED
    BY <2>1, <2>2 DEF Captured
<1>2. x \in WorldType
  BY TrialAssumption
<1>3. Seen(x.base).out = Captured(x.base.out) /\ Seen(x.cand).out = Captured(x.cand.out)
  BY <1>2 DEF Seen, WorldType
<1>. QED
  BY <1>1, <1>3, Streams

\* The only element of a sequence is its head.
LEMMA OneToken ==
    ASSUME NEW S, NEW s \in Seq(S), Len(s) = 1 PROVE s[1] \in S /\ Head(s) = s[1]
  OBVIOUS

\* Two single checksums without a fraction whose integers are equal are equal.
LEMMA ChecksumPromised ==
    ASSUME NEW b, NEW c, b.out \in Seq(Printable), c.out \in Seq(Printable), NEW side,
           ChecksumAccepts(b, c)
    PROVE  Promised("checksum", b, c, side) \/ Nearly("checksum", b, c, side)
<1> DEFINE p == Checksums(b.out)  q == Checksums(c.out)
<1> DEFINE Sums == {t \in Printable : t.kind = "checksum"}
<1>1. p \in Seq(Sums) /\ q \in Seq(Sums)
  <2>1. Strip(b.out) \in Seq(Printable) /\ Strip(c.out) \in Seq(Printable)
    BY OnlyType DEF Strip
  <2>2. p \in Seq({t \in Printable : t.kind \in {"checksum"}}) /\ q \in Seq({t \in Printable : t.kind \in {"checksum"}})
    BY <2>1, OnlyType DEF Checksums
  <2>3. {t \in Printable : t.kind \in {"checksum"}} = Sums
    OBVIOUS
  <2>. QED
    BY <2>2, <2>3
<1>2. IF p # <<>> /\ q # <<>> THEN Head(p).value \div 10 = Head(q).value \div 10
      ELSE Strip(b.out) = Strip(c.out)
  BY DEF ChecksumAccepts, Extracted
<1>3. SUFFICES ASSUME p # <<>>, q # <<>>, ~Coarse(b.out), ~Coarse(c.out) PROVE p = q
  BY <1>2 DEF Promised, Nearly, Extracted
<1>4. /\ ~(Len(p) > 1) /\ ~(Len(q) > 1)
      /\ \A i \in DOMAIN p : p[i].value % 10 = 0
      /\ \A i \in DOMAIN q : q[i].value % 10 = 0
  BY <1>3 DEF Coarse
<1> HIDE DEF p, q
<1>5. Len(p) = 1 /\ Len(q) = 1
  <2> HIDE DEF Sums
  <2>1. Len(p) \in Nat \ {0} /\ Len(q) \in Nat \ {0}
    BY <1>1, <1>3, EmptySeq
  <2>2. \A n \in Nat \ {0} : ~(n > 1) => n = 1
    OBVIOUS
  <2>. QED
    BY ONLY <1>4, <2>1, <2>2, Zenon
<1>6. p[1] \in Sums /\ q[1] \in Sums /\ Head(p) = p[1] /\ Head(q) = q[1]
  <2> HIDE DEF Sums
  <2>. QED
    BY <1>1, <1>5, OneToken, Zenon
<1>7. p[1].value \in Int /\ q[1].value \in Int /\ p[1].value % 10 = 0 /\ q[1].value % 10 = 0
      /\ p[1].value \div 10 = q[1].value \div 10
  BY <1>2, <1>3, <1>4, <1>5, <1>6 DEF Printable
<1>8. \A m, n \in Int : m % 10 = 0 /\ n % 10 = 0 /\ m \div 10 = n \div 10 => m = n
  OBVIOUS
<1>9. p[1].value = q[1].value
  BY <1>7, <1>8
<1>10. p[1] = q[1]
  BY <1>6, <1>9 DEF Printable
<1>. QED
  BY <1>1, <1>5, <1>10

\* Numbers that are close are close in what is promised, or in magnitude if some
\* are read without their sign.
LEMMA NumericPromised ==
    ASSUME NEW b, NEW c, b.out \in Seq(Printable), c.out \in Seq(Printable), NEW side,
           NumericAccepts(b, c)
    PROVE  Promised("numeric", b, c, side) \/ Nearly("numeric", b, c, side)
<1> DEFINE y == Numbers(b.out)  z == Numbers(c.out)  v == Values(b.out)  w == Values(c.out)
<1>1. Epsilon \in Nat
  BY OutputAssumption
<1>2. /\ Len(y) \in Nat /\ DOMAIN y = 1..Len(y) /\ DOMAIN v = DOMAIN y /\ Len(v) = Len(y)
      /\ Len(z) \in Nat /\ DOMAIN z = 1..Len(z) /\ DOMAIN w = DOMAIN z /\ Len(w) = Len(z)
      /\ \A i \in DOMAIN y : y[i] \in Int /\ v[i] \in Int /\ y[i] \in {v[i], Abs(v[i])}
      /\ \A i \in DOMAIN z : z[i] \in Int /\ w[i] \in Int /\ z[i] \in {w[i], Abs(w[i])}
      /\ ~Signed(b.out) => \A i \in DOMAIN y : v[i] = y[i]
      /\ ~Signed(c.out) => \A i \in DOMAIN z : w[i] = z[i]
  BY NumbersType
<1>3. Close(y, z)
  <2>1. IF y = <<>> /\ z = <<>> THEN Strip(b.out) = Strip(c.out) ELSE Close(y, z)
    BY DEF NumericAccepts
  <2>2. CASE y = <<>> /\ z = <<>>
    BY <2>2 DEF Close
  <2>. QED
    BY <2>1, <2>2
<1>4. /\ Magnitudes(b.out) = [i \in DOMAIN v |-> Abs(v[i])]
      /\ Magnitudes(c.out) = [i \in DOMAIN w |-> Abs(w[i])]
  BY DEF Magnitudes
<1> HIDE DEF y, z, v, w
<1>5. CASE ~Signed(b.out) /\ ~Signed(c.out)
  <2>1. Len(y) = Len(z) /\ \A i \in DOMAIN y : Abs(y[i] - z[i]) =< Epsilon
    BY <1>3 DEF Close
  <2>2. ASSUME NEW i \in DOMAIN v PROVE Abs(v[i] - w[i]) =< Epsilon
    <3>1. i \in DOMAIN y /\ i \in DOMAIN z /\ v[i] = y[i] /\ w[i] = z[i]
      BY <1>2, <1>5, <2>1
    <3>. QED
      BY <2>1, <3>1
  <2>3. Close(v, w)
    BY <1>2, <2>1, <2>2 DEF Close
  <2>. QED
    BY <2>3 DEF Promised, v, w
<1>6. CASE Signed(b.out) \/ Signed(c.out)
  <2>1. Len(y) = Len(z) /\ \A i \in DOMAIN y : Abs(y[i] - z[i]) =< Epsilon
    BY <1>3 DEF Close
  <2>2. \A m, n, k, l \in Int : k \in {m, Abs(m)} /\ l \in {n, Abs(n)} /\ Abs(k - l) =< Epsilon
                                  => Abs(Abs(m) - Abs(n)) =< Epsilon
    BY <1>1 DEF Abs
  <2>3. ASSUME NEW i \in DOMAIN y PROVE Abs(Abs(v[i]) - Abs(w[i])) =< Epsilon
    <3>1. i \in DOMAIN z
      BY <1>2, <2>1
    <3>2. /\ y[i] \in Int /\ v[i] \in Int /\ y[i] \in {v[i], Abs(v[i])}
          /\ z[i] \in Int /\ w[i] \in Int /\ z[i] \in {w[i], Abs(w[i])}
          /\ Abs(y[i] - z[i]) =< Epsilon
      BY <1>2, <2>1, <3>1
    <3>. QED
      BY <2>2, <3>2
  <2>4. /\ DOMAIN w = DOMAIN v /\ DOMAIN v = 1..Len(y) /\ DOMAIN y = DOMAIN v
    BY <1>2, <2>1
  <2>5. Len(Magnitudes(b.out)) = Len(y) /\ Len(Magnitudes(c.out)) = Len(y)
    BY <1>2, <1>4, <2>1, <2>4
  <2>6. Close(Magnitudes(b.out), Magnitudes(c.out))
    BY <1>4, <2>3, <2>4, <2>5 DEF Close
  <2>. QED
    BY <1>6, <2>6 DEF Nearly
<1>. QED
  BY <1>5, <1>6

\* What a strategy accepts is as promised, or nearly.
LEMMA PassesAsPromised ==
    ASSUME NEW x \in Worlds, NEW name \in Strategies, Single(name, Seen(x.base), Seen(x.cand), x.side)
    PROVE  \/ Promised(name, Seen(x.base), Seen(x.cand), x.side)
           \/ Nearly(name, Seen(x.base), Seen(x.cand), x.side)
<1> DEFINE b == Seen(x.base)  c == Seen(x.cand)
<1>1. b.out \in Seq(Printable) /\ c.out \in Seq(Printable)
  BY SeenStreams
<1>2. x.side.artifacts \in {"missing", "same", "different"}
  BY TrialAssumption DEF WorldType
<1> HIDE DEF b, c
<1>3. CASE name \in {"exitcode", "stdout", "exact"}
  BY <1>3 DEF Single, ExitCodeAccepts, StdoutAccepts, ExactAccepts, Promised, Alike, b, c
<1>4. CASE name = "checksum"
  BY <1>1, <1>4, ChecksumPromised DEF Single, b, c
<1>5. CASE name = "numeric"
  BY <1>1, <1>5, NumericPromised DEF Single, b, c
<1>6. CASE name = "digest"
  BY <1>2, <1>6 DEF Single, DigestAccepts, Promised, Nearly, b, c
<1>7. CASE name = "script"
  BY <1>7 DEF Single, ScriptAccepts, Promised, b, c
<1>. QED
  BY <1>3, <1>4, <1>5, <1>6, <1>7 DEF Strategies, b, c

\* A verdict is that of the strategies on a run that came to its end, or it is a
\* failure after a fault.
JudgedInv ==
    /\ judged = "pass" => Accepts(world.strategy, Seen(world.base), Seen(world.cand), world.side)
    /\ judged = "fail" => faults > 0 \/ ~Accepts(world.strategy, Seen(world.base), Seen(world.cand), world.side)
    /\ lost => faults > 0

\* Every step keeps the verdict of a trial that of its strategy.
LEMMA JudgedStep == TypeInv /\ JudgedInv /\ [Next]_vars => JudgedInv'
<1> SUFFICES ASSUME TypeInv, JudgedInv, [Next]_vars PROVE JudgedInv'
  OBVIOUS
<1>1. world \in Worlds /\ faults \in Nat
  BY Bounds DEF TypeInv, TypeOK
<1>2. CASE Validate
  <2>1. UNCHANGED <<world, faults>> /\ ~lost'
        /\ judged' = IF Accepts(world.strategy, Seen(world.base), Observed, world.side) THEN "pass" ELSE "fail"
    BY <1>2 DEF Validate, bounds
  <2>2. CASE lost
    <3>1. Observed = Lost /\ ~Lost.ok
      BY <2>2 DEF Observed, Lost, Observation
    <3>2. ~Accepts(world.strategy, Seen(world.base), Observed, world.side)
      BY <1>1, <3>1, LostIsRejected
    <3>. QED
      BY <2>1, <2>2, <3>2 DEF JudgedInv
  <2>3. CASE ~lost
    BY <2>1, <2>3 DEF JudgedInv, Observed
  <2>. QED
    BY <2>2, <2>3
<1>3. CASE Launch
  <2>1. UNCHANGED <<world, judged>> /\ (UNCHANGED <<lost, faults>> \/ faults' = faults + 1)
    BY <1>3 DEF Launch
  <2>. QED
    BY <1>1, <2>1 DEF JudgedInv
<1>4. CASE ~Validate /\ ~Launch
  <2>1. UNCHANGED <<world, faults>> /\ judged' \in {judged, "none"} /\ lost' \in {lost, FALSE}
    BY <1>4 DEF Next, Compile, Run, Assess, Breed, Take, Admit, Lower, RunOpt, Emit, Direct, Finish,
                Timeout, Record, Judge, Score, vars, series, bounds
  <2>2. lost \in BOOLEAN
    BY DEF TypeInv, TypeOK
  <2>3. lost' => lost
    BY <2>1, <2>2
  <2>4. judged' # "none" => judged' = judged
    BY <2>1
  <2>. QED
    BY <2>1, <2>3, <2>4 DEF JudgedInv
<1>. QED
  BY <1>2, <1>3, <1>4

\* Nothing is judged at the start.
LEMMA JudgedInit == Init => JudgedInv
BY DEF Init, JudgedInv

\* What a strategy accepts is what its documentation says of what the sandbox lets
\* through, or falls short of it in no way but those of Nearly.
THEOREM AcceptsAsPromised == Spec => []AcceptedAsPromised
<1>1. ASSUME TypeInv, JudgedInv PROVE AcceptedAsPromised
  <2>1. SUFFICES ASSUME judged = "pass", NEW i \in DOMAIN world.strategy
                 PROVE  \/ Promised(world.strategy[i], Seen(world.base), Seen(world.cand), world.side)
                        \/ Nearly(world.strategy[i], Seen(world.base), Seen(world.cand), world.side)
    BY DEF AcceptedAsPromised
  <2>2. world \in Worlds
    BY <1>1 DEF TypeInv, TypeOK
  <2>3. world.strategy[i] \in Strategies
    <3>1. world.strategy \in Seq(Strategies)
      BY <2>2, Streams
    <3>. QED
      BY <2>1, <3>1
  <2>4. Single(world.strategy[i], Seen(world.base), Seen(world.cand), world.side)
    BY <1>1, <2>1 DEF JudgedInv, Accepts
  <2>. QED
    BY <2>2, <2>3, <2>4, PassesAsPromised
<1>. QED
  BY <1>1, TypeInit, TypeStep, JudgedInit, JudgedStep, PTL DEF Spec

\* No strategy rejects what cannot be told from the baseline, unless a run failed,
\* an output was cut off or the user's own artifacts or script reject it.
THEOREM AlikeAccepted == Spec => []AlikeIsAccepted
<1>1. ASSUME TypeInv, JudgedInv PROVE AlikeIsAccepted
  BY <1>1, AlikePasses DEF AlikeIsAccepted, JudgedInv, TypeInv, TypeOK
<1>. QED
  BY <1>1, TypeInit, TypeStep, JudgedInit, JudgedStep, PTL DEF Spec
=============================================================================
