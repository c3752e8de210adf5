--------------------------- MODULE ConsumersProofs ---------------------------
(***************************************************************************)
(* Proofs about Consumers, for any commands, reports, recorded numbers and *)
(* directories and any number of faults, edits and interrupts.             *)
(***************************************************************************)
EXTENDS Consumers, TLAPS

\* The program has a version from the start.
TypeInv == TypeOK /\ src # 0

\* The bounds of the model and what a benchmark may measure are numbers.
LEMMA Bounds ==
    /\ MaxFaults \in Nat /\ MaxEdits \in Nat /\ MaxInterrupts \in Nat
    /\ Times \subseteq Nat \ {0}
BY ConsumerAssumption

\* What a command reads off its report.
LEMMA ReportType ==
    ASSUME TypeOK, NEW c \in Commands
    PROVE  Dir(c) \in Dirs /\ R(c).base \in Nat /\ R(c).passes \in BOOLEAN
<1>1. rep[c] \in Reports
  BY DEF TypeOK
<1>2. Rec[rep[c]] \in RecordType
  BY <1>1, ConsumerAssumption
<1>. QED
  BY <1>2 DEF RecordType, Dir, R

\* A failure stays within the bound and on the record.
LEMMA FaultType ==
    ASSUME TypeOK, NEW c \in Commands, Fault(c)
    PROVE  faults' \in 0..MaxFaults /\ broke' \in [Commands -> SUBSET Labels]
BY Bounds DEF TypeOK, Fault, Broken

\* A step that is broken is on the record.
LEMMA BrokenType ==
    ASSUME TypeOK, NEW c \in Commands, Broken(c)
    PROVE  /\ broke' \in [Commands -> SUBSET Labels]
           /\ broke'[c] = broke[c] \cup {pc[c]}
           /\ \A x \in Commands \ {c} : broke'[x] = broke[x]
BY DEF TypeOK, Broken

\* Writing a file keeps directories and calm in their types.
LEMMA PutType ==
    ASSUME TypeOK, NEW c \in Commands, NEW f \in Artifacts \cup ExportFiles,
           NEW content \in Content \cup {None, Cut}, Put(c, f, content)
    PROVE  /\ files' \in [Dirs -> [Artifacts \cup ExportFiles -> Content \cup {None, Cut}]]
           /\ calm' \in [Commands -> BOOLEAN]
<1>1. Dir(c) \in Dirs
  BY ReportType
<1>. QED
  BY <1>1 DEF TypeOK, Put

\* So does whatever a failing tool leaves.
LEMMA SpoilType ==
    ASSUME TypeOK, NEW c \in Commands, NEW f \in Artifacts \cup ExportFiles, Spoil(c, f)
    PROVE  /\ files' \in [Dirs -> [Artifacts \cup ExportFiles -> Content \cup {None, Cut}]]
           /\ calm' \in [Commands -> BOOLEAN]
BY PutType DEF Spoil, TypeOK

\* Every step keeps every variable in its type.
LEMMA TypeStep == TypeInv /\ [Next]_vars => TypeInv'
<1> SUFFICES ASSUME TypeInv, [Next]_vars PROVE TypeInv'
  OBVIOUS
<1> USE FaultType, Bounds DEF TypeInv, TypeOK, Goto, End, At, Labels, Judges, Artifacts, ExportFiles, Verdicts,
        Versions, world, judging, ledger, NoMetrics
<1>1. ASSUME NEW d \in Commands, StartGuard(d) PROVE TypeInv'
  BY <1>1 DEF StartGuard
<1>2. ASSUME NEW d \in Commands, StartReproduce(d) PROVE TypeInv'
  BY <1>2 DEF StartReproduce
<1>3. ASSUME NEW d \in Commands, BuildBaseline(d) PROVE TypeInv'
  BY <1>3 DEF BuildBaseline, BaselineBuilt, BaselineFailed
<1>4. ASSUME NEW d \in Commands, Check(d) PROVE TypeInv'
  BY <1>4 DEF Check, Checked, Reject
<1>5. ASSUME NEW d \in Commands, TimeGuardBaseline(d) PROVE TypeInv'
  BY <1>5 DEF TimeGuardBaseline, Measured
<1>6. ASSUME NEW d \in Commands, BuildGuardCandidate(d) PROVE TypeInv'
  BY <1>6 DEF BuildGuardCandidate, CandidateBuilt, CandidateFailed, CandidateRaised
<1>7. ASSUME NEW d \in Commands, TimeGuardCandidate(d) PROVE TypeInv'
  BY <1>7 DEF TimeGuardCandidate, Measured
<1>8. ASSUME NEW d \in Commands, ConcludeGuard(d) PROVE TypeInv'
  BY <1>8 DEF ConcludeGuard
<1>9. ASSUME NEW d \in Commands, TimeReproduceBaseline(d) PROVE TypeInv'
  BY <1>9 DEF TimeReproduceBaseline, Measured
<1>10. ASSUME NEW d \in Commands, BuildReproduceCandidate(d) PROVE TypeInv'
  BY <1>10 DEF BuildReproduceCandidate, CandidateBuilt, CandidateFailed, CandidateRaised
<1>11. ASSUME NEW d \in Commands, TimeReproduceCandidate(d) PROVE TypeInv'
  BY <1>11 DEF TimeReproduceCandidate, Measured
<1>12. ASSUME NEW d \in Commands, ConcludeReproduce(d) PROVE TypeInv'
  BY <1>12 DEF ConcludeReproduce
<1>13. ASSUME NEW d \in Commands, StartWriter(d) PROVE TypeInv'
  BY <1>13 DEF StartWriter, IsWriter
<1>14. ASSUME NEW d \in Commands, EmitRaw(d) PROVE TypeInv'
  BY <1>14, PutType, SpoilType DEF EmitRaw, Emit, Content, None, Cut, Successor
<1>15. ASSUME NEW d \in Commands, RunOpt(d) PROVE TypeInv'
  <2>1. files[Dir(d)]["raw"] \in Content \cup {None, Cut}
    BY ReportType
  <2>2. /\ [ver |-> files[Dir(d)]["raw"].ver, of |-> rep[d]] \in Content
        /\ UNCHANGED <<world, judging, interrupts>>
    BY <1>15, <2>1 DEF Content, None, Cut, RunOpt
  <2>3. CASE /\ Put(d, "opt", IF files[Dir(d)]["raw"] = Cut THEN Cut
                             ELSE [ver |-> files[Dir(d)]["raw"].ver, of |-> rep[d]])
             /\ Goto(d, "asm") /\ UNCHANGED <<verdict, ledger>>
    BY <2>2, <2>3, PutType
  <2>4. CASE Spoil(d, "opt") /\ End(d, "error") /\ ((Broken(d) /\ UNCHANGED faults) \/ Fault(d))
    <3>1. broke' \in [Commands -> SUBSET Labels] /\ faults' \in 0..MaxFaults
      BY <2>4, BrokenType
    <3>. QED
      BY <2>2, <2>4, <3>1, SpoilType
  <2>. QED
    BY <1>15, <2>3, <2>4 DEF RunOpt
<1>16. ASSUME NEW d \in Commands, EmitAsm(d) PROVE TypeInv'
  BY <1>16, PutType, SpoilType DEF EmitAsm, Emit, Content, None, Cut, Successor
<1>17. ASSUME NEW d \in Commands, BuildBinary(d) PROVE TypeInv'
  BY <1>17, PutType, SpoilType DEF BuildBinary, Content, None, Cut, Successor
<1>18. ASSUME NEW d \in Commands, OpenManifest(d) PROVE TypeInv'
  <2>1. UNCHANGED <<world, cand, baseMs, candMs, interrupts>>
    BY <1>18 DEF OpenManifest
  <2>2. CASE Put(d, "manifest", Cut)
    <3>1. /\ files' \in [Dirs -> [Artifacts \cup ExportFiles -> Content \cup {None, Cut}]]
          /\ calm' \in [Commands -> BOOLEAN]
      BY <2>2, PutType
    <3>. QED
      BY <1>18, <2>1, <3>1 DEF OpenManifest
  <2>3. CASE ~Put(d, "manifest", Cut)
    <3>1. Fault(d) /\ End(d, "error") /\ UNCHANGED <<base, files, calm>>
      BY <1>18, <2>3 DEF OpenManifest
    <3>. QED
      BY <2>1, <3>1
  <2>. QED
    BY <2>2, <2>3
<1>19. ASSUME NEW d \in Commands, CloseManifest(d) PROVE TypeInv'
  BY <1>19, PutType, SpoilType DEF CloseManifest, Content, None, Cut, Successor
<1>20. ASSUME NEW d \in Commands, ExportFile(d) PROVE TypeInv'
  <2>1. pc[d] \in ExportFiles /\ UNCHANGED <<world, judging, interrupts>>
    BY <1>20 DEF ExportFile
  <2>2. CASE Fault(d) /\ Spoil(d, pc[d]) /\ End(d, "raised")
    BY <2>1, <2>2, SpoilType
  <2>3. CASE ~(Fault(d) /\ Spoil(d, pc[d]) /\ End(d, "raised"))
    <3>1. Put(d, pc[d], [ver |-> 0, of |-> rep[d]]) /\ UNCHANGED ledger
      BY <1>20, <2>3 DEF ExportFile, Recipe
    <3>2. [ver |-> 0, of |-> rep[d]] \in Content
      BY DEF Content
    <3>3. pc' \in [Commands -> Labels] /\ verdict' \in [Commands -> Verdicts]
      BY <1>20, <2>1, <2>3 DEF ExportFile, Successor
    <3>. QED
      BY <2>1, <3>1, <3>2, <3>3, PutType
  <2>. QED
    BY <2>2, <2>3
<1>21. ASSUME NEW d \in Commands, Interrupt(d) PROVE TypeInv'
  <2>1. /\ files' \in [Dirs -> [Artifacts \cup ExportFiles -> Content \cup {None, Cut}]]
        /\ calm' \in [Commands -> BOOLEAN]
    BY <1>21, SpoilType DEF Interrupt, Built
  <2>2. broke' \in [Commands -> SUBSET Labels]
    BY <1>21, BrokenType DEF Interrupt
  <2>3. /\ interrupts' \in 0..MaxInterrupts /\ End(d, "interrupted")
        /\ UNCHANGED <<world, judging, faults>>
    BY <1>21 DEF Interrupt
  <2>. QED
    BY <2>1, <2>2, <2>3
<1>22. ASSUME Edit PROVE TypeInv'
  BY <1>22 DEF Edit
<1>23. CASE UNCHANGED vars
  BY <1>23 DEF vars
<1>. QED
  BY <1>1, <1>2, <1>3, <1>4, <1>5, <1>6, <1>7, <1>8, <1>9, <1>10, <1>11, <1>12, <1>13, <1>14, <1>15, <1>16, <1>17, <1>18, <1>19, <1>20, <1>21, <1>22, <1>23
  DEF Next, Judge, Guard, Reproduce, Write

\* The commands start well typed.
LEMMA TypeInit == Init => TypeInv
BY ConsumerAssumption
DEF Init, TypeInv, TypeOK, Labels, Judges, Artifacts, ExportFiles, Verdicts, Versions, NoMetrics, None, Cut

\* What the variables of the commands, and their files, can hold.
THEOREM TypeCorrect == Spec => []TypeOK
<1>1. TypeInv => TypeOK
  BY DEF TypeInv
<1>. QED
  BY <1>1, TypeInit, TypeStep, PTL DEF Spec

----------------------------------------------------------------------------
(* What a step of one command leaves to the others.                        *)

Frame(c) ==
    /\ UNCHANGED <<opt, install, kind, rep>>
    /\ pc'[c] = pc[c] /\ verdict'[c] = verdict[c] /\ broke'[c] = broke[c]
    /\ base'[c] = base[c] /\ cand'[c] = cand[c]
    /\ baseMs'[c] = baseMs[c] /\ candMs'[c] = candMs[c]
    /\ calm'[c] => calm[c] /\ src' = src /\ files'[Dir(c)] = files[Dir(c)]

\* A failure is on the record of nobody else.
LEMMA FaultFrame ==
    ASSUME TypeOK, NEW d \in Commands, NEW c \in Commands, c # d, Fault(d) \/ Broken(d)
    PROVE  broke'[c] = broke[c]
BY DEF TypeOK, Fault, Broken

\* A file that d writes is in a directory of c only if c loses its calm.
LEMMA PutFrame ==
    ASSUME TypeOK, NEW d \in Commands, NEW c \in Commands, c # d, NEW f, NEW content,
           Put(d, f, content)
    PROVE  calm'[c] => calm[c] /\ files'[Dir(c)] = files[Dir(c)]
<1>1. Dir(c) \in Dirs /\ Dir(d) \in Dirs
  BY ReportType
<1>. QED
  BY <1>1 DEF TypeOK, Put

\* The same of what a failing tool leaves.
LEMMA SpoilFrame ==
    ASSUME TypeOK, NEW d \in Commands, NEW c \in Commands, c # d, NEW f, Spoil(d, f)
    PROVE  calm'[c] => calm[c] /\ files'[Dir(c)] = files[Dir(c)]
BY PutFrame DEF Spoil

\* A step of d keeps every other command as it is.
LEMMA OthersFramed ==
    ASSUME TypeInv, NEW d \in Commands, NEW c \in Commands, c # d,
           Judge(d) \/ Write(d) \/ Interrupt(d)
    PROVE  Frame(c)
<1> USE FaultFrame, PutFrame, SpoilFrame DEF Frame, TypeInv, TypeOK, Goto, End, world, judging, ledger
<1>1. CASE StartGuard(d)
  BY <1>1 DEF StartGuard
<1>2. CASE StartReproduce(d)
  BY <1>2 DEF StartReproduce
<1>3. CASE BuildBaseline(d)
  BY <1>3 DEF BuildBaseline, BaselineBuilt, BaselineFailed
<1>4. CASE Check(d)
  BY <1>4 DEF Check, Checked, Reject
<1>5. CASE TimeGuardBaseline(d)
  BY <1>5 DEF TimeGuardBaseline, Measured
<1>6. CASE BuildGuardCandidate(d)
  BY <1>6 DEF BuildGuardCandidate, CandidateBuilt, CandidateFailed, CandidateRaised
<1>7. CASE TimeGuardCandidate(d)
  BY <1>7 DEF TimeGuardCandidate, Measured
<1>8. CASE ConcludeGuard(d)
  BY <1>8 DEF ConcludeGuard
<1>9. CASE TimeReproduceBaseline(d)
  BY <1>9 DEF TimeReproduceBaseline, Measured
<1>10. CASE BuildReproduceCandidate(d)
  BY <1>10 DEF BuildReproduceCandidate, CandidateBuilt, CandidateFailed, CandidateRaised
<1>11. CASE TimeReproduceCandidate(d)
  BY <1>11 DEF TimeReproduceCandidate, Measured
<1>12. CASE ConcludeReproduce(d)
  BY <1>12 DEF ConcludeReproduce
<1>13. CASE StartWriter(d)
  BY <1>13 DEF StartWriter, IsWriter
<1>14. CASE EmitRaw(d)
  BY <1>14 DEF EmitRaw, Emit
<1>15. CASE RunOpt(d)
  BY <1>15 DEF RunOpt
<1>16. CASE EmitAsm(d)
  BY <1>16 DEF EmitAsm, Emit
<1>17. CASE BuildBinary(d)
  BY <1>17 DEF BuildBinary
<1>18. CASE OpenManifest(d)
  BY <1>18 DEF OpenManifest
<1>19. CASE CloseManifest(d)
  BY <1>19 DEF CloseManifest
<1>20. CASE ExportFile(d)
  BY <1>20 DEF ExportFile
<1>21. CASE Interrupt(d)
  BY <1>21 DEF Interrupt
<1>. QED
  BY <1>1, <1>2, <1>3, <1>4, <1>5, <1>6, <1>7, <1>8, <1>9, <1>10, <1>11, <1>12, <1>13, <1>14, <1>15, <1>16, <1>17, <1>18, <1>19, <1>20, <1>21
  DEF Judge, Guard, Reproduce, Write

\* An edit takes the calm of a command, and nothing else of it.
LEMMA EditFramed == ASSUME TypeInv, Edit, NEW c \in Commands PROVE Frame(c)
BY DEF TypeInv, TypeOK, Edit, Frame, judging, ledger

\* A stutter keeps every command as it is.
LEMMA NothingFramed == ASSUME UNCHANGED vars, NEW c \in Commands PROVE Frame(c)
BY DEF Frame, vars, world, judging, ledger

----------------------------------------------------------------------------
(* The judgements.                                                         *)

Settled == {"pass", "regression", "reproduced", "inconclusive", "deviates"}
Compared == {"check", "timecand", "conclude"}

\* Only a judge judges; a verdict is the end; reproduce never compares without a
\* candidate, and a candidate that was compared is what the report promised;
\* while the source is left alone, both binaries are of its version; a median
\* is missing only if its benchmark failed.
Judged(c) ==
    /\ pc[c] \in Judges => IsJudge(c)
    /\ verdict[c] # "none" => pc[c] = "ended"
    /\ pc[c] \in Compared /\ kind[c] = "reproduce" => cand[c] # 0
    /\ pc[c] = "timecand" => cand[c] # 0
    /\ pc[c] \in {"timecand", "conclude"} /\ cand[c] # 0 => Makes(rep[c]) = "same"
    /\ pc[c] \in Judges \ {"baseline"} /\ calm[c] => base[c] = src
    /\ pc[c] = "check" /\ calm[c] => cand[c] \in {0, src}
    /\ pc[c] \in {"start", "baseline", "timebase"} => baseMs[c] = NoMetrics /\ "timebase" \notin broke[c]
    /\ pc[c] \in {"start", "baseline", "timebase", "candidate"} => cand[c] = 0
    /\ pc[c] \in {"start", "baseline", "timebase", "candidate", "check", "timecand"} => candMs[c] = NoMetrics
    /\ pc[c] \in Compared \cup {"candidate"} /\ baseMs[c] = NoMetrics => "timebase" \in broke[c]
    /\ "timebase" \in broke[c] => baseMs[c] = NoMetrics
    /\ pc[c] = "conclude" /\ cand[c] # 0 /\ candMs[c] = NoMetrics => "timecand" \in broke[c]

\* What a verdict promises of one command.
Verdicted(c) ==
    /\ verdict[c] \in Settled /\ R(c).passes =>
          Makes(rep[c]) = "same" \/ (kind[c] = "guard" /\ cand[c] = 0)
    /\ verdict[c] \in {"incorrect", "refuted"} =>
          Makes(rep[c]) # "same" \/ broke[c] # {} \/ ~calm[c]
    /\ verdict[c] = "deviates" /\ "timebase" \in broke[c] => R(c).base =< 2 * Default
    /\ kind[c] = "guard" /\ verdict[c] \in {"pass", "regression"}
          /\ Current(c) \notin {baseMs[c], candMs[c]}
          => "timebase" \in broke[c] /\ (cand[c] = 0 \/ "timecand" \in broke[c])

\* A command that is left alone keeps what is known of its judgement.
LEMMA FrameKeeps ==
    ASSUME TypeInv, NEW c \in Commands, Frame(c), Judged(c), Verdicted(c)
    PROVE  Judged(c)' /\ Verdicted(c)'
BY DEF TypeInv, TypeOK, Frame, Judged, Verdicted, IsJudge, Makes, R, Current, OrDefault

\* A fault of a command is on its record.
LEMMA FaultBreaks ==
    ASSUME TypeOK, NEW d \in Commands, Fault(d)
    PROVE  broke'[d] = broke[d] \cup {pc[d]}
BY DEF TypeOK, Fault, Broken

\* A command that takes a step keeps what is known of its judgement.
LEMMA ActorKeeps ==
    ASSUME TypeInv, NEW d \in Commands, Judged(d), Verdicted(d),
           Judge(d) \/ Write(d) \/ Interrupt(d)
    PROVE  Judged(d)' /\ Verdicted(d)'
<1> USE FaultBreaks, Bounds DEF TypeInv, TypeOK, Judged, Verdicted, Goto, End, At, world, judging, ledger, Settled,
        Compared, IsJudge, Makes, R, Current, OrDefault, Judges, Artifacts, ExportFiles, NoMetrics
<1>1. CASE StartGuard(d)
  BY <1>1 DEF StartGuard
<1>2. CASE StartReproduce(d)
  BY <1>2 DEF StartReproduce
<1>3. CASE BuildBaseline(d)
  <2>1. pc[d] = "baseline" /\ UNCHANGED <<world, cand, baseMs, candMs, files, calm, interrupts>>
    BY <1>3 DEF BuildBaseline, BaselineBuilt, BaselineFailed
  <2>2. CASE base' = [base EXCEPT ![d] = src] /\ Goto(d, "timebase") /\ UNCHANGED <<verdict, ledger>>
    BY <2>1, <2>2
  <2>3. CASE Fault(d) /\ End(d, IF kind[d] = "guard" THEN "error" ELSE "refuted") /\ UNCHANGED base
    <3>1. verdict'[d] \in {"error", "refuted"} /\ pc'[d] = "ended" /\ broke'[d] = broke[d] \cup {"baseline"}
      BY <2>1, <2>3
    <3>. QED
      BY <2>1, <2>3, <3>1
  <2>. QED
    BY <1>3, <2>2, <2>3 DEF BuildBaseline, BaselineBuilt, BaselineFailed
<1>4. CASE Check(d)
  <2>1. pc[d] = "check" /\ UNCHANGED <<world, judging, files, calm, interrupts>>
    BY <1>4 DEF Check
  <2>2. CASE TargetPrints(d) = Prints(base[d], "same") /\ Checked(d) /\ UNCHANGED <<verdict, ledger>>
    <3>1. cand[d] # 0 => Makes(rep[d]) = "same"
      BY <2>2 DEF TargetPrints, Prints
    <3>2. pc'[d] = IF cand[d] # 0 THEN "timecand" ELSE "conclude"
      BY <2>2 DEF Checked
    <3>3. kind[d] = "reproduce" => cand[d] # 0
      BY <2>1
    <3>. QED
      BY <2>1, <2>2, <3>1, <3>2, <3>3
  <2>3. CASE TargetPrints(d) # Prints(base[d], "same") /\ Reject(d) /\ UNCHANGED ledger
    <3>1. calm[d] => Makes(rep[d]) # "same"
      BY <2>1, <2>3 DEF TargetPrints, Prints
    <3>2. verdict'[d] \in {"incorrect", "refuted"} /\ pc'[d] = "ended"
      BY <2>3 DEF Reject
    <3>. QED
      BY <2>1, <2>3, <3>1, <3>2
  <2>4. CASE Fault(d) /\ Reject(d)
    <3>1. verdict'[d] \in {"incorrect", "refuted"} /\ pc'[d] = "ended" /\ broke'[d] = broke[d] \cup {"check"}
      BY <2>1, <2>4 DEF Reject
    <3>. QED
      BY <2>1, <2>4, <3>1
  <2>. QED
    BY <1>4, <2>2, <2>3, <2>4 DEF Check
<1>5. CASE TimeGuardBaseline(d)
  BY <1>5 DEF TimeGuardBaseline, Measured
<1>6. CASE BuildGuardCandidate(d)
  BY <1>6 DEF BuildGuardCandidate, CandidateBuilt, CandidateFailed, CandidateRaised
<1>7. CASE TimeGuardCandidate(d)
  BY <1>7 DEF TimeGuardCandidate, Measured
<1>8. CASE ConcludeGuard(d)
  BY <1>8 DEF ConcludeGuard
<1>9. CASE TimeReproduceBaseline(d)
  BY <1>9 DEF TimeReproduceBaseline, Measured
<1>10. CASE BuildReproduceCandidate(d)
  <2>1. pc[d] = "candidate" /\ kind[d] = "reproduce" /\ UNCHANGED <<world, base, baseMs, candMs, files, calm, interrupts>>
    BY <1>10 DEF BuildReproduceCandidate
  <2>2. CASE CandidateBuilt(d) /\ Goto(d, "check") /\ UNCHANGED verdict
    BY <2>1, <2>2 DEF CandidateBuilt
  <2>3. CASE CandidateFailed(d) /\ End(d, "refuted")
    <3>1. (Makes(rep[d]) # "same" /\ broke' = broke) \/ broke'[d] = broke[d] \cup {"candidate"}
      BY <2>1, <2>3 DEF CandidateFailed
    <3>2. verdict'[d] = "refuted" /\ pc'[d] = "ended" /\ UNCHANGED cand
      BY <2>3 DEF CandidateFailed
    <3>. QED
      BY <2>1, <3>1, <3>2
  <2>4. CASE CandidateRaised(d)
    <3>1. verdict'[d] = "raised" /\ pc'[d] = "ended" /\ UNCHANGED cand /\ broke'[d] = broke[d] \cup {"candidate"}
      BY <2>1, <2>4 DEF CandidateRaised
    <3>. QED
      BY <2>1, <3>1
  <2>. QED
    BY <1>10, <2>2, <2>3, <2>4 DEF BuildReproduceCandidate
<1>11. CASE TimeReproduceCandidate(d)
  <2>1. pc[d] = "timecand" /\ kind[d] = "reproduce" /\ UNCHANGED <<world, base, cand, baseMs, files, calm, interrupts>>
    BY <1>11 DEF TimeReproduceCandidate
  <2>2. CASE candMs'[d] = NoMetrics
    <3>1. verdict'[d] = "refuted" /\ pc'[d] = "ended"
      BY <1>11, <2>2 DEF TimeReproduceCandidate
    <3>2. broke'[d] = broke[d] \cup {"timecand"}
      BY <1>11, <2>1, <2>2 DEF TimeReproduceCandidate, Measured
    <3>. QED
      BY <2>1, <3>1, <3>2
  <2>3. CASE candMs'[d] # NoMetrics
    <3>1. UNCHANGED <<verdict, ledger>> /\ pc'[d] = "conclude"
      BY <1>11, <2>1, <2>3 DEF TimeReproduceCandidate, Measured
    <3>. QED
      BY <2>1, <2>3, <3>1
  <2>. QED
    BY <2>2, <2>3
<1>12. CASE ConcludeReproduce(d)
  <2>1. pc[d] = "conclude" /\ kind[d] = "reproduce" /\ UNCHANGED <<world, judging, files, ledger, calm, interrupts>>
    BY <1>12 DEF ConcludeReproduce
  <2>2. pc'[d] = "ended" /\ verdict'[d] \in {"inconclusive", "reproduced", "deviates"}
    BY <1>12 DEF ConcludeReproduce
  <2>3. cand[d] # 0 /\ Makes(rep[d]) = "same"
    BY <2>1
  <2>4. verdict'[d] = "deviates" => ~Shifted(OrDefault(baseMs[d]), R(d).base)
    BY <1>12 DEF ConcludeReproduce
  <2>5. R(d).base \in Nat
    BY ReportType
  <2>6. ~Shifted(Default, R(d).base) => R(d).base =< 2 * Default
    BY <2>5 DEF Shifted, Abs, Default
  <2>7. verdict'[d] = "deviates" /\ "timebase" \in broke[d] => R(d).base =< 2 * Default
    BY <2>4, <2>6
  <2>. QED
    BY <2>1, <2>2, <2>3, <2>7
<1>13. CASE StartWriter(d)
  BY <1>13 DEF StartWriter, IsWriter
<1>14. CASE EmitRaw(d)
  BY <1>14 DEF EmitRaw, Emit, Put, Spoil
<1>15. CASE RunOpt(d)
  BY <1>15, BrokenType DEF RunOpt, Put, Spoil
<1>16. CASE EmitAsm(d)
  BY <1>16 DEF EmitAsm, Emit, Put, Spoil
<1>17. CASE BuildBinary(d)
  BY <1>17 DEF BuildBinary, Put, Spoil
<1>18. CASE OpenManifest(d)
  BY <1>18 DEF OpenManifest, Put
<1>19. CASE CloseManifest(d)
  BY <1>19 DEF CloseManifest, Put
<1>20. CASE ExportFile(d)
  <2>1. pc[d] \in ExportFiles /\ UNCHANGED <<world, judging, interrupts>>
    BY <1>20 DEF ExportFile
  <2>2. (calm'[d] => calm[d]) /\ broke[d] \subseteq broke'[d] /\ "timebase" \notin broke'[d] \ broke[d]
    BY <1>20, <2>1 DEF ExportFile, Put, Spoil
  <2>3. \/ pc'[d] = "ended" /\ verdict'[d] \in {"exported", "raised"}
        \/ pc'[d] \in ExportFiles /\ verdict' = verdict
    BY <1>20, <2>1 DEF ExportFile, Successor
  <2>. QED
    BY <2>1, <2>2, <2>3
<1>21. CASE Interrupt(d)
  <2>1. /\ UNCHANGED <<world, judging, faults>> /\ (calm'[d] => calm[d])
        /\ pc'[d] = "ended" /\ verdict'[d] = "interrupted" /\ pc[d] # "ended"
    BY <1>21 DEF Interrupt, Spoil, Put
  <2>2. broke'[d] = broke[d] \cup {pc[d]}
    BY <1>21, BrokenType DEF Interrupt
  <2>3. pc[d] = "timebase" => baseMs[d] = NoMetrics
    OBVIOUS
  <2>. QED
    BY <2>1, <2>2, <2>3
<1>. QED
  BY <1>1, <1>2, <1>3, <1>4, <1>5, <1>6, <1>7, <1>8, <1>9, <1>10, <1>11, <1>12, <1>13, <1>14, <1>15, <1>16, <1>17, <1>18, <1>19, <1>20, <1>21
  DEF Judge, Guard, Reproduce, Write

JudgedInv == \A c \in Commands : Judged(c) /\ Verdicted(c)

\* Every step keeps what is known of all judgements.
LEMMA JudgedStep == TypeInv /\ JudgedInv /\ [Next]_vars => JudgedInv'
<1> SUFFICES ASSUME TypeInv, JudgedInv, [Next]_vars, NEW c \in Commands
             PROVE  Judged(c)' /\ Verdicted(c)'
  BY DEF JudgedInv
<1>0. Judged(c) /\ Verdicted(c)
  BY DEF JudgedInv
<1>1. ASSUME NEW d \in Commands, Judge(d) \/ Write(d) \/ Interrupt(d)
      PROVE  Judged(c)' /\ Verdicted(c)'
  <2>1. CASE c = d
    BY <1>0, <1>1, <2>1, ActorKeeps
  <2>2. CASE c # d
    BY <1>0, <1>1, <2>2, OthersFramed, FrameKeeps
  <2>. QED
    BY <2>1, <2>2
<1>2. CASE Edit
  BY <1>0, <1>2, EditFramed, FrameKeeps
<1>3. CASE UNCHANGED vars
  BY <1>0, <1>3, NothingFramed, FrameKeeps
<1>. QED
  BY <1>1, <1>2, <1>3 DEF Next

\* Nothing is judged at the start.
LEMMA JudgedInit == Init => JudgedInv
<1> SUFFICES ASSUME Init, NEW c \in Commands PROVE Judged(c) /\ Verdicted(c)
  BY DEF JudgedInv
<1>1. /\ pc[c] \in {"start", "ended"} /\ verdict[c] = "none" /\ broke[c] = {}
      /\ cand[c] = 0 /\ baseMs[c] = NoMetrics /\ candMs[c] = NoMetrics
  BY DEF Init
<1>. QED
  BY <1>1 DEF Judged, Verdicted, Judges, Compared, Settled

\* What is known of judgements is what they promise.
LEMMA JudgedMeans ==
    TypeInv /\ JudgedInv => AcceptedIsFaithful /\ RejectionsHaveReasons /\ GuardComparesMeasurements
<1> SUFFICES ASSUME TypeInv, JudgedInv
             PROVE  AcceptedIsFaithful /\ RejectionsHaveReasons /\ GuardComparesMeasurements
  OBVIOUS
<1>1. AcceptedIsFaithful
  BY DEF JudgedInv, Verdicted, AcceptedIsFaithful, Settled
<1>2. RejectionsHaveReasons
  <2>1. ASSUME NEW c \in Commands, ExitCode(c, FALSE) = 2 PROVE verdict[c] = "incorrect"
    <3>1. CASE verdict[c] \in {"pass", "reproduced", "applied", "exported"}
      BY <2>1, <3>1 DEF ExitCode
    <3>2. CASE verdict[c] = "error" /\ kind[c] = "guard"
      BY <2>1, <3>2 DEF ExitCode
    <3>3. CASE verdict[c] \notin {"pass", "reproduced", "applied", "exported", "incorrect"}
               /\ ~(verdict[c] = "error" /\ kind[c] = "guard")
      BY <2>1, <3>3 DEF ExitCode
    <3>. QED
      BY <3>1, <3>2, <3>3
  <2>. QED
    BY <2>1 DEF JudgedInv, Verdicted, RejectionsHaveReasons
<1>3. GuardComparesMeasurements
  BY DEF JudgedInv, Verdicted, GuardComparesMeasurements
<1>. QED
  BY <1>1, <1>2, <1>3

\* Nothing that guard passes or measures, or reproduce does not refute, is a
\* pipeline that the installed toolchain miscompiles.
THEOREM AcceptedFaithful == Spec => []AcceptedIsFaithful
BY TypeInit, TypeStep, JudgedInit, JudgedStep, JudgedMeans, PTL DEF Spec

\* Every rejection is the toolchain's fault, or that of a step that failed or of
\* an edit; and 1.0 ms in place of a baseline denies no slow report.
THEOREM RejectionsReasoned == Spec => []RejectionsHaveReasons
BY TypeInit, TypeStep, JudgedInit, JudgedStep, JudgedMeans, PTL DEF Spec

\* guard judges by a measurement unless all its benchmarks failed.
THEOREM GuardMeasures == Spec => []GuardComparesMeasurements
BY TypeInit, TypeStep, JudgedInit, JudgedStep, JudgedMeans, PTL DEF Spec

----------------------------------------------------------------------------
(* A faithful replay.                                                      *)

\* Nothing came in between, and the toolchain makes the same of the pipeline.
Undisturbed(c) == R(c).passes /\ Makes(rep[c]) = "same" /\ broke[c] = {} /\ calm[c]

\* A judge that nothing disturbs has a candidate to compare, and ends with a
\* verdict on two measurements that says what their comparison says.
Replays(c) ==
    IsJudge(c) =>
        /\ pc[c] \in Judges \cup {"start", "ended"}
        /\ pc[c] = "ended" => verdict[c] # "none"
        /\ Undisturbed(c) /\ pc[c] \in Compared => cand[c] # 0
        /\ Undisturbed(c) /\ pc[c] = "ended" /\ verdict[c] # "interrupted" =>
              /\ verdict[c] \in Settled
              /\ baseMs[c] # NoMetrics /\ candMs[c] # NoMetrics
              /\ verdict[c] = "regression" => Exceeds(c)
              /\ verdict[c] = "deviates" => ~Within(c)

ReplayInv == \A c \in Commands : Replays(c)

\* A judge that is left alone is no less replaying its report.
LEMMA FrameReplays ==
    ASSUME TypeInv, NEW c \in Commands, Frame(c), Replays(c)
    PROVE  Replays(c)'
<1>1. /\ UNCHANGED <<opt, install, kind, rep>>
      /\ pc'[c] = pc[c] /\ verdict'[c] = verdict[c] /\ broke'[c] = broke[c]
      /\ cand'[c] = cand[c] /\ baseMs'[c] = baseMs[c] /\ candMs'[c] = candMs[c]
      /\ calm'[c] => calm[c]
  BY DEF Frame
<1>2. Exceeds(c)' = Exceeds(c) /\ Within(c)' = Within(c)
  BY <1>1 DEF Exceeds, Within, Observed, Current, Reference, OrDefault, R
<1>3. Undisturbed(c)' => Undisturbed(c)
  BY <1>1 DEF Undisturbed, R, Makes
<1>. QED
  BY <1>1, <1>2, <1>3 DEF Replays, IsJudge

\* What a judge's own step does to it.
LEMMA ActorReplays ==
    ASSUME TypeInv, NEW d \in Commands, Judged(d), Replays(d), IsJudge(d),
           Judge(d) \/ Write(d) \/ Interrupt(d)
    PROVE  Replays(d)'
<1> USE FaultBreaks, Bounds DEF TypeInv, TypeOK, Judged, Replays, Undisturbed, Goto, End, At, world, judging,
        ledger, Settled, Compared, IsJudge, Makes, R, Judges, NoMetrics
<1>1. CASE StartGuard(d)
  <2>1. pc[d] = "start" /\ UNCHANGED <<world, judging>>
        /\ \/ pc'[d] = "baseline" /\ UNCHANGED <<verdict, ledger>>
           \/ Fault(d) /\ pc'[d] = "ended" /\ verdict'[d] \in {"error", "raised"}
    BY <1>1 DEF StartGuard
  <2>. QED
    BY <2>1
<1>2. CASE StartReproduce(d)
  <2>1. pc[d] = "start" /\ UNCHANGED <<world, judging>>
        /\ \/ pc'[d] = "baseline" /\ UNCHANGED <<verdict, ledger>>
           \/ Fault(d) /\ pc'[d] = "ended" /\ verdict'[d] = "raised"
    BY <1>2 DEF StartReproduce
  <2>. QED
    BY <2>1
<1>3. CASE BuildBaseline(d)
  <2>1. /\ pc[d] = "baseline" /\ UNCHANGED <<world, cand, baseMs, candMs, calm>>
        /\ \/ pc'[d] = "timebase" /\ UNCHANGED <<verdict, ledger>>
           \/ Fault(d) /\ pc'[d] = "ended" /\ verdict'[d] \in {"error", "refuted"}
    BY <1>3 DEF BuildBaseline, BaselineBuilt, BaselineFailed
  <2>. QED
    BY <2>1
<1>4. CASE Check(d)
  <2>1. pc[d] = "check" /\ UNCHANGED <<world, judging, files, calm, interrupts>>
    BY <1>4 DEF Check
  <2>2. CASE Checked(d) /\ UNCHANGED <<verdict, ledger>>
    BY <2>1, <2>2 DEF Checked
  <2>3. CASE TargetPrints(d) # Prints(base[d], "same") /\ Reject(d) /\ UNCHANGED ledger
    <3>1. calm[d] => Makes(rep[d]) # "same"
      BY <2>1, <2>3 DEF TargetPrints, Prints
    <3>2. verdict'[d] \in {"incorrect", "refuted"} /\ pc'[d] = "ended"
      BY <2>3 DEF Reject
    <3>. QED
      BY <2>1, <3>1, <3>2
  <2>4. CASE Fault(d) /\ Reject(d)
    <3>1. verdict'[d] \in {"incorrect", "refuted"} /\ pc'[d] = "ended" /\ broke'[d] = broke[d] \cup {"check"}
      BY <2>1, <2>4 DEF Reject
    <3>. QED
      BY <2>1, <3>1
  <2>. QED
    BY <1>4, <2>2, <2>3, <2>4 DEF Check
<1>5. CASE TimeGuardBaseline(d)
  BY <1>5 DEF TimeGuardBaseline, Measured
<1>6. CASE BuildGuardCandidate(d)
  <2>1. pc[d] = "candidate" /\ UNCHANGED <<world, calm, baseMs, candMs>>
    BY <1>6 DEF BuildGuardCandidate
  <2>2. CASE CandidateBuilt(d) /\ Goto(d, "check") /\ UNCHANGED verdict
    BY <2>1, <2>2 DEF CandidateBuilt
  <2>3. CASE CandidateFailed(d) /\ Goto(d, "check") /\ UNCHANGED verdict
    <3>1. ~Undisturbed(d)'
      BY <2>1, <2>3 DEF CandidateFailed
    <3>. QED
      BY <2>1, <2>3, <3>1
  <2>4. CASE CandidateRaised(d)
    <3>1. ~Undisturbed(d)' /\ pc'[d] = "ended" /\ verdict'[d] = "raised"
      BY <2>1, <2>4 DEF CandidateRaised
    <3>. QED
      BY <2>1, <3>1
  <2>. QED
    BY <1>6, <2>2, <2>3, <2>4 DEF BuildGuardCandidate
<1>7. CASE TimeGuardCandidate(d)
  BY <1>7 DEF TimeGuardCandidate, Measured
<1>8. CASE ConcludeGuard(d)
  <2>1. pc[d] = "conclude" /\ kind[d] = "guard" /\ UNCHANGED <<world, judging, files, ledger, calm, interrupts>>
    BY <1>8 DEF ConcludeGuard
  <2>2. pc'[d] = "ended" /\ verdict'[d] \in {"pass", "regression"}
        /\ (verdict'[d] = "regression" => Exceeds(d))
    BY <1>8 DEF ConcludeGuard
  <2>3. Exceeds(d)' = Exceeds(d)
    BY <2>1 DEF Exceeds, Current, Reference, OrDefault
  <2>4. Undisturbed(d)' => Undisturbed(d) /\ baseMs[d] # NoMetrics /\ candMs[d] # NoMetrics
    BY <2>1
  <2>. QED
    BY <2>1, <2>2, <2>3, <2>4
<1>9. CASE TimeReproduceBaseline(d)
  BY <1>9 DEF TimeReproduceBaseline, Measured
<1>10. CASE BuildReproduceCandidate(d)
  <2>1. pc[d] = "candidate" /\ UNCHANGED <<world, calm, baseMs, candMs>>
    BY <1>10 DEF BuildReproduceCandidate
  <2>2. CASE CandidateBuilt(d) /\ Goto(d, "check") /\ UNCHANGED verdict
    BY <2>1, <2>2 DEF CandidateBuilt
  <2>3. CASE CandidateFailed(d) /\ End(d, "refuted")
    <3>1. ~Undisturbed(d)' /\ pc'[d] = "ended" /\ verdict'[d] = "refuted"
      BY <2>1, <2>3 DEF CandidateFailed
    <3>. QED
      BY <2>1, <3>1
  <2>4. CASE CandidateRaised(d)
    <3>1. ~Undisturbed(d)' /\ pc'[d] = "ended" /\ verdict'[d] = "raised"
      BY <2>1, <2>4 DEF CandidateRaised
    <3>. QED
      BY <2>1, <3>1
  <2>. QED
    BY <1>10, <2>2, <2>3, <2>4 DEF BuildReproduceCandidate
<1>11. CASE TimeReproduceCandidate(d)
  <2>1. pc[d] = "timecand" /\ UNCHANGED <<world, cand, calm, baseMs>>
        /\ cand[d] # 0
    BY <1>11 DEF TimeReproduceCandidate
  <2>2. CASE candMs'[d] = NoMetrics
    <3>1. verdict'[d] = "refuted" /\ pc'[d] = "ended"
      BY <1>11, <2>2 DEF TimeReproduceCandidate
    <3>2. broke'[d] = broke[d] \cup {"timecand"}
      BY <1>11, <2>1, <2>2 DEF TimeReproduceCandidate, Measured
    <3>. QED
      BY <2>1, <3>1, <3>2
  <2>3. CASE candMs'[d] # NoMetrics
    <3>1. UNCHANGED verdict /\ pc'[d] = "conclude"
      BY <1>11, <2>3 DEF TimeReproduceCandidate
    <3>. QED
      BY <2>1, <3>1
  <2>. QED
    BY <2>2, <2>3
<1>12. CASE ConcludeReproduce(d)
  <2>1. pc[d] = "conclude" /\ kind[d] = "reproduce" /\ UNCHANGED <<world, judging, files, ledger, calm, interrupts>>
    BY <1>12 DEF ConcludeReproduce
  <2>2. pc'[d] = "ended" /\ verdict'[d] \in {"inconclusive", "reproduced", "deviates"}
        /\ (verdict'[d] = "deviates" => ~Within(d))
    BY <1>12 DEF ConcludeReproduce
  <2>3. Within(d)' = Within(d)
    BY <2>1 DEF Within, Observed, OrDefault
  <2>4. Undisturbed(d)' => Undisturbed(d) /\ baseMs[d] # NoMetrics /\ candMs[d] # NoMetrics
    BY <2>1
  <2>. QED
    BY <2>1, <2>2, <2>3, <2>4
<1>13. CASE Write(d)
  BY <1>13 DEF Write, StartWriter, EmitRaw, EmitAsm, Emit, RunOpt, BuildBinary, OpenManifest, CloseManifest,
     ExportFile, IsWriter, ExportFiles
<1>14. CASE Interrupt(d)
  BY <1>14 DEF Interrupt
<1>. QED
  BY <1>1, <1>2, <1>3, <1>4, <1>5, <1>6, <1>7, <1>8, <1>9, <1>10, <1>11, <1>12, <1>13, <1>14
  DEF Judge, Guard, Reproduce

\* Every step keeps what is known of all replays.
LEMMA ReplayStep == TypeInv /\ JudgedInv /\ ReplayInv /\ [Next]_vars => ReplayInv'
<1> SUFFICES ASSUME TypeInv, JudgedInv, ReplayInv, [Next]_vars, NEW c \in Commands
             PROVE  Replays(c)'
  BY DEF ReplayInv
<1>0. Judged(c) /\ Replays(c)
  BY DEF JudgedInv, ReplayInv
<1>1. ASSUME NEW d \in Commands, Judge(d) \/ Write(d) \/ Interrupt(d)
      PROVE  Replays(c)'
  <2>1. CASE c = d
    <3>1. CASE IsJudge(c)
      BY <1>0, <1>1, <2>1, <3>1, ActorReplays
    <3>2. CASE ~IsJudge(c)
      <4>1. kind' = kind
        BY <1>1 DEF Judge, Guard, Reproduce, Write, world, StartGuard, StartReproduce, BuildBaseline, BaselineBuilt, BaselineFailed, Check, TimeGuardBaseline, BuildGuardCandidate, TimeGuardCandidate, ConcludeGuard, TimeReproduceBaseline, BuildReproduceCandidate, TimeReproduceCandidate, ConcludeReproduce, StartWriter, EmitRaw, RunOpt, EmitAsm, BuildBinary, OpenManifest, CloseManifest, ExportFile, Interrupt, Emit
      <4>. QED
        BY <3>2, <4>1 DEF Replays, IsJudge
    <3>. QED
      BY <3>1, <3>2
  <2>2. CASE c # d
    BY <1>0, <1>1, <2>2, OthersFramed, FrameReplays
  <2>. QED
    BY <2>1, <2>2
<1>2. CASE Edit
  BY <1>0, <1>2, EditFramed, FrameReplays
<1>3. CASE UNCHANGED vars
  BY <1>0, <1>3, NothingFramed, FrameReplays
<1>. QED
  BY <1>1, <1>2, <1>3 DEF Next

\* Medians that are measured again neither regress nor deviate, whatever the
\* threshold and the tolerance.
LEMMA SameMedians ==
    ASSUME TypeInv, NEW c \in Commands, baseMs[c] # NoMetrics, candMs[c] # NoMetrics,
           baseMs[c] = R(c).base, candMs[c] = R(c).cand,
           R(c).ratio = Ratio(R(c).base, R(c).cand)
    PROVE  ~Exceeds(c) /\ Within(c)
<1>0. rep[c] \in Reports /\ candMs[c] \in Times
  BY DEF TypeInv, TypeOK
<1>1. candMs[c] \in Nat /\ candMs[c] > 0
  <2>1. candMs[c] \in Nat \ {0}
    BY <1>0, Bounds, Zenon
  <2>2. \A n \in Nat \ {0} : n \in Nat /\ n > 0
    OBVIOUS
  <2>. QED
    BY <2>1, <2>2, Zenon
<1>2. Rec[rep[c]] \in RecordType
  BY <1>0, ConsumerAssumption
<1>3. R(c).ratio \in Nat /\ Threshold \in Nat /\ Tolerance \in Nat
  BY <1>2, ConsumerAssumption DEF RecordType, R
<1>4. \A m, n \in Nat : m * n \in Nat
  OBVIOUS
<1>5. Threshold * candMs[c] \in Nat /\ Tolerance * R(c).ratio \in Nat
  BY <1>1, <1>3, <1>4
<1>6. Current(c) = candMs[c] /\ Reference(c) = candMs[c]
  BY <1>1 DEF Current, Reference
<1>7. ~Exceeds(c)
  BY <1>1, <1>5, <1>6 DEF Exceeds
<1>8. Observed(c) = R(c).ratio
  BY DEF Observed, OrDefault
<1>9. Within(c)
  BY <1>3, <1>5, <1>8 DEF Within, Abs
<1>. QED
  BY <1>7, <1>9

\* A report is confirmed wherever its numbers come out again.
THEOREM ReplayConfirms == Spec => []FaithfulReplayConfirms
<1>1. Init => ReplayInv
  <2> SUFFICES ASSUME Init, NEW c \in Commands, IsJudge(c) PROVE pc[c] = "start"
    BY DEF ReplayInv, Replays, Compared
  <2>. QED
    BY DEF Init, IsJudge
<1>2. TypeInv /\ ReplayInv => FaithfulReplayConfirms
  <2> SUFFICES ASSUME TypeInv, ReplayInv, NEW c \in Commands,
                      IsJudge(c), pc[c] = "ended", verdict[c] # "interrupted",
                      R(c).passes, Makes(rep[c]) = "same", broke[c] = {}, calm[c],
                      baseMs[c] = R(c).base, candMs[c] = R(c).cand,
                      R(c).ratio = Ratio(R(c).base, R(c).cand)
               PROVE  ExitCode(c, FALSE) = 0 \/ verdict[c] = "inconclusive"
    BY DEF FaithfulReplayConfirms
  <2>1. /\ verdict[c] \in Settled
        /\ baseMs[c] # NoMetrics /\ candMs[c] # NoMetrics
        /\ verdict[c] = "regression" => Exceeds(c)
        /\ verdict[c] = "deviates" => ~Within(c)
    BY DEF ReplayInv, Replays, Undisturbed
  <2>2. ~Exceeds(c) /\ Within(c)
    BY <2>1, SameMedians
  <2>3. verdict[c] \in {"pass", "reproduced", "inconclusive"}
    BY <2>1, <2>2 DEF Settled
  <2>. QED
    BY <2>3 DEF ExitCode
<1>. QED
  BY <1>1, <1>2, TypeInit, TypeStep, JudgedInit, JudgedStep, ReplayStep, PTL DEF Spec

----------------------------------------------------------------------------
(* The artifacts of an apply.                                              *)

\* What an apply has written so far, as long as nobody interfered.
Whole(c) ==
    kind[c] = "apply" /\ calm[c] =>
        LET own  == [ver |-> src, of |-> rep[c]]
            here == files[Dir(c)]
            done == verdict[c] = "applied" IN
        /\ pc[c] = "opt" /\ "raw" \notin broke[c] => here["raw"].ver = src
        /\ (pc[c] \in {"asm", "bin", "manifest", "close"} \/ done) /\ "raw" \notin broke[c]
              => here["opt"] = own
        /\ (pc[c] \in {"bin", "manifest", "close"} \/ done) /\ "asm" \notin broke[c]
              => here["asm"] = own
        /\ pc[c] \in {"manifest", "close"} \/ done => here["bin"] = own
        /\ pc[c] = "close" => base[c] = src
        /\ done => here["manifest"] = own

\* Only an apply applies, and a verdict is the end.
Applies(c) ==
    /\ pc[c] \in Artifacts \cup {"close"} \/ verdict[c] = "applied" => kind[c] = "apply"
    /\ pc[c] \in ExportFiles => kind[c] = "export"
    /\ verdict[c] = "applied" => pc[c] = "ended"

\* A writer that is left alone keeps its directory.
LEMMA WholeFrame ==
    ASSUME TypeInv, NEW c \in Commands, Frame(c), Whole(c), Applies(c)
    PROVE  Whole(c)' /\ Applies(c)'
BY DEF Frame, Whole, Applies, Dir, R

\* The file that d writes is in its directory, beside the others.
LEMMA PutActs ==
    ASSUME TypeOK, NEW d \in Commands, NEW f \in Artifacts, NEW content, Put(d, f, content)
    PROVE  /\ calm'[d] = calm[d]
           /\ files'[Dir(d)][f] = content
           /\ \A g \in Artifacts \ {f} : files'[Dir(d)][g] = files[Dir(d)][g]
<1>1. Dir(d) \in Dirs
  BY ReportType
<1>. QED
  BY <1>1 DEF TypeOK, Put

\* A writer that takes a step keeps what is known of its directory.
LEMMA WholeActs ==
    ASSUME TypeInv, NEW d \in Commands, Judged(d), Whole(d), Applies(d),
           Judge(d) \/ Write(d) \/ Interrupt(d)
    PROVE  Whole(d)' /\ Applies(d)'
<1>a. ASSUME NEW f \in Artifacts, NEW content, Put(d, f, content)
      PROVE  /\ calm'[d] = calm[d] /\ files'[Dir(d)][f] = content
             /\ \A g \in Artifacts \ {f} : files'[Dir(d)][g] = files[Dir(d)][g]
  BY <1>a, PutActs DEF TypeInv
<1>b. Artifacts = {"raw", "opt", "asm", "bin", "manifest"}
  BY DEF Artifacts
<1>c. ASSUME NEW f \in Artifacts, Spoil(d, f)
      PROVE  /\ calm'[d] = calm[d]
             /\ \A g \in Artifacts \ {f} : files'[Dir(d)][g] = files[Dir(d)][g]
  BY <1>a, <1>c DEF Spoil
<1> USE FaultBreaks DEF TypeInv, TypeOK, Whole, Applies, Judged, IsJudge, Goto, End, At, world, judging, ledger,
        Judges, Artifacts, ExportFiles
<1>0. Dir(d)' = Dir(d)
  BY DEF Judge, Guard, Reproduce, Write, Dir, R, StartGuard, StartReproduce, BuildBaseline, BaselineBuilt, BaselineFailed, Check, TimeGuardBaseline, BuildGuardCandidate, TimeGuardCandidate, ConcludeGuard, TimeReproduceBaseline, BuildReproduceCandidate, TimeReproduceCandidate, ConcludeReproduce, StartWriter, EmitRaw, RunOpt, EmitAsm, BuildBinary, OpenManifest, CloseManifest, ExportFile, Interrupt, Emit
<1>1. CASE StartGuard(d)
  BY <1>0, <1>1 DEF StartGuard
<1>2. CASE StartReproduce(d)
  BY <1>0, <1>2 DEF StartReproduce
<1>3. CASE BuildBaseline(d)
  BY <1>0, <1>3 DEF BuildBaseline, BaselineBuilt, BaselineFailed
<1>4. CASE Check(d)
  BY <1>0, <1>4 DEF Check, Checked, Reject
<1>5. CASE TimeGuardBaseline(d)
  BY <1>0, <1>5 DEF TimeGuardBaseline, Measured
<1>6. CASE BuildGuardCandidate(d)
  BY <1>0, <1>6 DEF BuildGuardCandidate, CandidateBuilt, CandidateFailed, CandidateRaised
<1>7. CASE TimeGuardCandidate(d)
  BY <1>0, <1>7 DEF TimeGuardCandidate, Measured
<1>8. CASE ConcludeGuard(d)
  BY <1>0, <1>8 DEF ConcludeGuard
<1>9. CASE TimeReproduceBaseline(d)
  BY <1>0, <1>9 DEF TimeReproduceBaseline, Measured
<1>10. CASE BuildReproduceCandidate(d)
  BY <1>0, <1>10 DEF BuildReproduceCandidate, CandidateBuilt, CandidateFailed, CandidateRaised
<1>11. CASE TimeReproduceCandidate(d)
  BY <1>0, <1>11 DEF TimeReproduceCandidate, Measured
<1>12. CASE ConcludeReproduce(d)
  BY <1>0, <1>12 DEF ConcludeReproduce
<1>13. CASE StartWriter(d)
  BY <1>0, <1>13 DEF StartWriter, IsWriter
<1>14. CASE EmitRaw(d)
  <2>1. pc[d] = "raw" /\ UNCHANGED <<world, judging, interrupts>> /\ kind[d] = "apply" /\ verdict[d] # "applied"
    BY <1>14 DEF EmitRaw, Emit
  <2>2. CASE Put(d, "raw", [ver |-> src, of |-> "any"]) /\ Goto(d, "opt") /\ UNCHANGED <<verdict, ledger>>
    <3>1. /\ calm'[d] = calm[d] /\ files'[Dir(d)]["raw"] = [ver |-> src, of |-> "any"]
          /\ \A g \in Artifacts \ {"raw"} : files'[Dir(d)][g] = files[Dir(d)][g]
      BY ONLY <1>a, <1>b, <2>2
    <3>2. pc'[d] = "opt" /\ UNCHANGED <<verdict, broke>>
      BY <2>2
    <3>. QED
      BY <1>0, <1>b, <2>1, <3>1, <3>2
  <2>3. CASE Fault(d) /\ Spoil(d, "raw") /\ Goto(d, "opt") /\ UNCHANGED verdict
    <3>1. pc'[d] = "opt" /\ broke'[d] = broke[d] \cup {"raw"} /\ UNCHANGED verdict
      BY <2>1, <2>3
    <3>2. /\ calm'[d] = calm[d]
          /\ \A g \in Artifacts \ {"raw"} : files'[Dir(d)][g] = files[Dir(d)][g]
      BY ONLY <1>b, <1>c, <2>3
    <3>. QED
      BY <1>0, <1>b, <2>1, <3>1, <3>2
  <2>4. CASE Fault(d) /\ Spoil(d, "raw") /\ End(d, "error")
    <3>1. pc'[d] = "ended" /\ verdict'[d] = "error"
      BY <2>1, <2>4
    <3>. QED
      BY <1>0, <2>1, <3>1
  <2>. QED
    BY <1>14, <2>2, <2>3, <2>4 DEF EmitRaw, Emit
<1>15. CASE RunOpt(d)
  <2>1. pc[d] = "opt" /\ UNCHANGED <<world, judging, interrupts>> /\ kind[d] = "apply" /\ verdict[d] # "applied"
    BY <1>15 DEF RunOpt
  <2>. DEFINE made == IF files[Dir(d)]["raw"] = Cut THEN Cut
                      ELSE [ver |-> files[Dir(d)]["raw"].ver, of |-> rep[d]]
  <2>2. CASE Put(d, "opt", made) /\ Goto(d, "asm") /\ UNCHANGED <<verdict, ledger>>
    <3>1. /\ calm'[d] = calm[d] /\ files'[Dir(d)]["opt"] = made
          /\ \A g \in Artifacts \ {"opt"} : files'[Dir(d)][g] = files[Dir(d)][g]
      BY ONLY <1>a, <1>b, <2>2
    <3>2. pc'[d] = "asm" /\ UNCHANGED <<verdict, broke>>
      BY <2>2
    <3>3. calm[d] /\ "raw" \notin broke[d] => made = [ver |-> src, of |-> rep[d]]
      BY <2>1 DEF Cut
    <3>. HIDE DEF made
    <3>. QED
      BY <1>0, <1>b, <2>1, <3>1, <3>2, <3>3
  <2>3. CASE End(d, "error")
    <3>1. pc'[d] = "ended" /\ verdict'[d] = "error"
      BY <2>3
    <3>. QED
      BY <1>0, <2>1, <3>1
  <2>. QED
    BY <1>15, <2>2, <2>3 DEF RunOpt
<1>16. CASE EmitAsm(d)
  <2>1. pc[d] = "asm" /\ UNCHANGED <<world, judging, interrupts>> /\ kind[d] = "apply" /\ verdict[d] # "applied"
    BY <1>16 DEF EmitAsm, Emit
  <2>2. CASE Put(d, "asm", [ver |-> src, of |-> rep[d]]) /\ Goto(d, "bin") /\ UNCHANGED <<verdict, ledger>>
    <3>1. /\ calm'[d] = calm[d] /\ files'[Dir(d)]["asm"] = [ver |-> src, of |-> rep[d]]
          /\ \A g \in Artifacts \ {"asm"} : files'[Dir(d)][g] = files[Dir(d)][g]
      BY ONLY <1>a, <1>b, <2>2
    <3>2. pc'[d] = "bin" /\ UNCHANGED <<verdict, broke>>
      BY <2>2
    <3>. QED
      BY <1>0, <1>b, <2>1, <3>1, <3>2
  <2>3. CASE Fault(d) /\ Spoil(d, "asm") /\ Goto(d, "bin") /\ UNCHANGED verdict
    <3>1. pc'[d] = "bin" /\ broke'[d] = broke[d] \cup {"asm"} /\ UNCHANGED verdict
      BY <2>1, <2>3
    <3>2. /\ calm'[d] = calm[d]
          /\ \A g \in Artifacts \ {"asm"} : files'[Dir(d)][g] = files[Dir(d)][g]
      BY ONLY <1>b, <1>c, <2>3
    <3>. QED
      BY <1>0, <1>b, <2>1, <3>1, <3>2
  <2>4. CASE Fault(d) /\ Spoil(d, "asm") /\ End(d, "error")
    <3>1. pc'[d] = "ended" /\ verdict'[d] = "error"
      BY <2>1, <2>4
    <3>. QED
      BY <1>0, <2>1, <3>1
  <2>. QED
    BY <1>16, <2>2, <2>3, <2>4 DEF EmitAsm, Emit
<1>17. CASE BuildBinary(d)
  <2>1. pc[d] = "bin" /\ UNCHANGED <<world, judging, interrupts>> /\ kind[d] = "apply" /\ verdict[d] # "applied"
    BY <1>17 DEF BuildBinary
  <2>2. CASE Put(d, "bin", [ver |-> src, of |-> rep[d]]) /\ Goto(d, "manifest") /\ UNCHANGED <<verdict, ledger>>
    <3>1. /\ calm'[d] = calm[d] /\ files'[Dir(d)]["bin"] = [ver |-> src, of |-> rep[d]]
          /\ \A g \in Artifacts \ {"bin"} : files'[Dir(d)][g] = files[Dir(d)][g]
      BY ONLY <1>a, <1>b, <2>2
    <3>2. pc'[d] = "manifest" /\ UNCHANGED <<verdict, broke>>
      BY <2>2
    <3>. QED
      BY <1>0, <1>b, <2>1, <3>1, <3>2
  <2>3. CASE End(d, "error")
    <3>1. pc'[d] = "ended" /\ verdict'[d] = "error"
      BY <2>3
    <3>. QED
      BY <1>0, <2>1, <3>1
  <2>. QED
    BY <1>17, <2>2, <2>3 DEF BuildBinary
<1>18. CASE OpenManifest(d)
  <2>1. pc[d] = "manifest" /\ UNCHANGED world /\ kind[d] = "apply" /\ verdict[d] # "applied"
    BY <1>18 DEF OpenManifest
  <2>2. CASE base' = [base EXCEPT ![d] = src] /\ Put(d, "manifest", Cut) /\ Goto(d, "close") /\ UNCHANGED <<verdict, ledger>>
    <3>1. /\ calm'[d] = calm[d]
          /\ \A g \in Artifacts \ {"manifest"} : files'[Dir(d)][g] = files[Dir(d)][g]
      BY ONLY <1>a, <1>b, <2>2
    <3>2. pc'[d] = "close" /\ base'[d] = src /\ UNCHANGED <<verdict, broke>>
      BY <2>2
    <3>. QED
      BY <1>0, <1>b, <2>1, <3>1, <3>2
  <2>3. CASE End(d, "error")
    <3>1. pc'[d] = "ended" /\ verdict'[d] = "error"
      BY <2>3
    <3>. QED
      BY <1>0, <2>1, <3>1
  <2>. QED
    BY <1>18, <2>2, <2>3 DEF OpenManifest
<1>19. CASE CloseManifest(d)
  <2>1. pc[d] = "close" /\ UNCHANGED <<world, judging>> /\ kind[d] = "apply" /\ verdict[d] # "applied"
    BY <1>19 DEF CloseManifest
  <2>2. CASE Put(d, "manifest", [ver |-> base[d], of |-> rep[d]]) /\ End(d, "applied") /\ UNCHANGED ledger
    <3>1. /\ calm'[d] = calm[d] /\ files'[Dir(d)]["manifest"] = [ver |-> base[d], of |-> rep[d]]
          /\ \A g \in Artifacts \ {"manifest"} : files'[Dir(d)][g] = files[Dir(d)][g]
      BY ONLY <1>a, <1>b, <2>2
    <3>2. pc'[d] = "ended" /\ verdict'[d] = "applied" /\ UNCHANGED broke
      BY <2>2
    <3>. QED
      BY <1>0, <1>b, <2>1, <3>1, <3>2
  <2>3. CASE End(d, "error")
    <3>1. pc'[d] = "ended" /\ verdict'[d] = "error"
      BY <2>3
    <3>. QED
      BY <1>0, <2>1, <3>1
  <2>. QED
    BY <1>19, <2>2, <2>3 DEF CloseManifest
<1>20. CASE ExportFile(d)
  <2>1. pc[d] \in ExportFiles /\ UNCHANGED world /\ kind[d] = "export" /\ verdict[d] # "applied"
    BY <1>20 DEF ExportFile
  <2>2. \/ pc'[d] = "ended" /\ verdict'[d] \in {"exported", "raised"}
        \/ pc'[d] \in ExportFiles /\ verdict' = verdict
    BY <1>20, <2>1 DEF ExportFile, Successor
  <2>. QED
    BY <2>1, <2>2
<1>21. CASE Interrupt(d)
  <2>1. pc'[d] = "ended" /\ verdict'[d] = "interrupted" /\ UNCHANGED kind
    BY <1>21 DEF Interrupt
  <2>. QED
    BY <1>0, <2>1
<1>. QED
  BY <1>1, <1>2, <1>3, <1>4, <1>5, <1>6, <1>7, <1>8, <1>9, <1>10, <1>11, <1>12, <1>13, <1>14, <1>15, <1>16, <1>17, <1>18, <1>19, <1>20, <1>21
  DEF Judge, Guard, Reproduce, Write

WholeInv == \A c \in Commands : Whole(c) /\ Applies(c)

\* Every step keeps what is known of the directories of writers.
LEMMA WholeStep == TypeInv /\ JudgedInv /\ WholeInv /\ [Next]_vars => WholeInv'
<1> SUFFICES ASSUME TypeInv, JudgedInv, WholeInv, [Next]_vars, NEW c \in Commands
             PROVE  Whole(c)' /\ Applies(c)'
  BY DEF WholeInv
<1>0. Judged(c) /\ Whole(c) /\ Applies(c)
  BY DEF JudgedInv, WholeInv
<1>1. ASSUME NEW d \in Commands, Judge(d) \/ Write(d) \/ Interrupt(d)
      PROVE  Whole(c)' /\ Applies(c)'
  <2>1. CASE c = d
    BY <1>0, <1>1, <2>1, WholeActs
  <2>2. CASE c # d
    BY <1>0, <1>1, <2>2, OthersFramed, WholeFrame
  <2>. QED
    BY <2>1, <2>2
<1>2. CASE Edit
  BY <1>0, <1>2, EditFramed, WholeFrame
<1>3. CASE UNCHANGED vars
  BY <1>0, <1>3, NothingFramed, WholeFrame
<1>. QED
  BY <1>1, <1>2, <1>3 DEF Next

\* What an undisturbed apply leaves behind belongs to its report and its source,
\* but for the outputs of tools that failed unnoticed.
THEOREM AppliedWhole == Spec => []AppliedIsWhole
<1>1. Init => WholeInv
  <2> SUFFICES ASSUME Init, NEW c \in Commands PROVE Whole(c) /\ Applies(c)
    BY DEF WholeInv
  <2>1. pc[c] \in {"start", "ended"} /\ verdict[c] = "none"
    BY DEF Init
  <2>. QED
    BY <2>1 DEF Whole, Applies, Artifacts, ExportFiles
<1>2. WholeInv => AppliedIsWhole
  BY DEF WholeInv, Whole, Applies, AppliedIsWhole
<1>. QED
  BY <1>1, <1>2, TypeInit, TypeStep, JudgedInit, JudgedStep, WholeStep, PTL DEF Spec

----------------------------------------------------------------------------
(* A manifest lists what exists.                                           *)

\* An artifact that is missing or only a part.
Gone(e, f) == files[e][f] \in {None, Cut}
\* The tool that makes it, or its input, was broken in an apply.
Blamed(e, f) ==
    \E c \in Commands :
        /\ kind[c] = "apply" /\ Dir(c) = e
        /\ f \in broke[c] \/ (f = "opt" /\ "raw" \in broke[c])
Sound(e, f) == Gone(e, f) => Blamed(e, f)

\* An apply has passed the tools before its next step.
Reached(c) ==
    \A e \in Dirs :
        kind[c] = "apply" /\ Dir(c) = e =>
            /\ pc[c] \in {"opt", "asm", "bin", "manifest", "close"} => Sound(e, "raw")
            /\ pc[c] \in {"asm", "bin", "manifest", "close"} => Sound(e, "opt")
            /\ pc[c] \in {"bin", "manifest", "close"} => Sound(e, "asm")
            /\ pc[c] \in {"manifest", "close"} => Sound(e, "bin")

\* Nobody opens a manifest before its artifacts were made, or their tools broke.
ManifestInv ==
    /\ \A c \in Commands : Reached(c)
    /\ \A e \in Dirs : files[e]["manifest"] \notin {None, Cut} => \A f \in Built : Sound(e, f)

\* Writing one file of a directory leaves the others.
LEMMA PutFiles ==
    ASSUME TypeOK, NEW d \in Commands, NEW f \in Artifacts \cup ExportFiles, NEW content, Put(d, f, content)
    PROVE  \A e \in Dirs, g \in Artifacts :
               files'[e][g] = IF e = Dir(d) /\ g = f THEN content ELSE files[e][g]
<1>1. Dir(d) \in Dirs
  BY ReportType
<1>. QED
  BY <1>1 DEF TypeOK, Put

\* So does whatever a failing tool leaves.
LEMMA SpoilFiles ==
    ASSUME TypeOK, NEW d \in Commands, NEW f \in Artifacts \cup ExportFiles, Spoil(d, f)
    PROVE  \A e \in Dirs, g \in Artifacts :
               files'[e][g] = files[e][g] \/ (e = Dir(d) /\ g = f)
BY PutFiles DEF Spoil

\* No step changes what a command is and where it writes, or takes anything
\* off a record.
LEMMA RecordsStay ==
    ASSUME TypeInv, NEW d \in Commands, Judge(d) \/ Write(d) \/ Interrupt(d)
    PROVE  /\ UNCHANGED <<kind, rep>>
           /\ \A c \in Commands : broke[c] \subseteq broke'[c] /\ Dir(c)' = Dir(c)
<1> USE FaultBreaks, FaultFrame, BrokenType DEF TypeInv, world, ledger, Dir, R
<1>1. CASE Judge(d)
  BY <1>1 DEF Judge, Guard, Reproduce, StartGuard, StartReproduce, BuildBaseline, BaselineBuilt,
     BaselineFailed, Check, TimeGuardBaseline, BuildGuardCandidate, TimeGuardCandidate, ConcludeGuard,
     TimeReproduceBaseline, BuildReproduceCandidate, TimeReproduceCandidate, ConcludeReproduce,
     Measured, CandidateBuilt, CandidateFailed, CandidateRaised
<1>2. CASE Write(d)
  BY <1>2 DEF Write, StartWriter, EmitRaw, RunOpt, EmitAsm, BuildBinary, OpenManifest, CloseManifest,
     ExportFile, Emit
<1>3. CASE Interrupt(d)
  BY <1>3 DEF Interrupt
<1>. QED
  BY <1>1, <1>2, <1>3

\* What a step of d does to the artifacts.
Kept(d) ==
    /\ \A e \in Dirs, f \in Built : Sound(e, f) => Sound(e, f)'
    /\ Reached(d)'
    /\ \A e \in Dirs : \/ files'[e]["manifest"] \in {files[e]["manifest"], Cut}
                       \/ \A f \in Built : Sound(e, f)

\* Blame stays, and falls on whoever breaks a tool.
LEMMA BlameStays ==
    ASSUME TypeInv, NEW d \in Commands, Judge(d) \/ Write(d) \/ Interrupt(d), NEW e \in Dirs, NEW f \in Built
    PROVE  /\ Blamed(e, f) => Blamed(e, f)'
           /\ kind[d] = "apply" /\ Dir(d) = e /\ f \in broke'[d] => Blamed(e, f)'
BY RecordsStay DEF Blamed

\* A file that nobody touches, or a real one, or one whose tool is to blame.
LEMMA SoundStays ==
    ASSUME TypeInv, NEW d \in Commands, Judge(d) \/ Write(d) \/ Interrupt(d), NEW e \in Dirs, NEW f \in Built,
           \/ files'[e][f] = files[e][f] /\ Sound(e, f)
           \/ files'[e][f] \notin {None, Cut}
           \/ kind[d] = "apply" /\ Dir(d) = e /\ f \in broke'[d]
    PROVE  Sound(e, f)'
BY BlameStays DEF Sound, Gone

\* A step that touches no file but f, and is past f only if f is sound, keeps
\* what is known of the artifacts.
LEMMA OneFile ==
    ASSUME TypeInv, ManifestInv, NEW d \in Commands, Judge(d) \/ Write(d) \/ Interrupt(d),
           NEW f \in Artifacts \cup ExportFiles, f # "manifest",
           \A e \in Dirs, g \in Artifacts : files'[e][g] = files[e][g] \/ (e = Dir(d) /\ g = f),
           f \in Built => kind[d] = "apply" /\ Sound(Dir(d), f)'
    PROVE  /\ \A e \in Dirs, g \in Built : Sound(e, g) => Sound(e, g)'
           /\ \A e \in Dirs : files'[e]["manifest"] = files[e]["manifest"]
<1>1. "manifest" \in Artifacts /\ Built \subseteq Artifacts
  BY DEF Artifacts, Built
<1>2. ASSUME NEW e \in Dirs, NEW g \in Built, Sound(e, g) PROVE Sound(e, g)'
  <2>1. CASE files'[e][g] = files[e][g]
    BY <1>2, <2>1, SoundStays
  <2>2. CASE e = Dir(d) /\ g = f
    <3>1. Dir(d)' = Dir(d)
      BY RecordsStay
    <3>. QED
      BY <1>2, <2>2, <3>1
  <2>. QED
    BY <1>1, <2>1, <2>2
<1>. QED
  BY <1>1, <1>2

\* What a step of an apply's tool does: it makes f, or breaks it, and goes on.
LEMMA ToolStep ==
    ASSUME TypeInv, ManifestInv, NEW d \in Commands, Write(d) \/ Interrupt(d), kind[d] = "apply",
           NEW f \in Built,
           \/ \E content : Put(d, f, content) /\ (content \notin {None, Cut} \/ Sound(Dir(d), f)')
           \/ Spoil(d, f) /\ f \in broke'[d]
    PROVE  /\ \A e \in Dirs, g \in Built : Sound(e, g) => Sound(e, g)'
           /\ \A e \in Dirs : files'[e]["manifest"] = files[e]["manifest"]
           /\ Sound(Dir(d), f)'
<1>1. f \in Artifacts /\ f # "manifest" /\ Dir(d) \in Dirs /\ Dir(d)' = Dir(d) /\ TypeOK
  BY ReportType, RecordsStay DEF Built, Artifacts, TypeInv
<1>2. \A e \in Dirs, g \in Artifacts : files'[e][g] = files[e][g] \/ (e = Dir(d) /\ g = f)
  BY <1>1, PutFiles, SpoilFiles
<1>3. Sound(Dir(d), f)'
  <2>1. CASE Spoil(d, f) /\ f \in broke'[d]
    <3>1. Blamed(Dir(d), f)'
      <4>1. \A e \in Dirs : Dir(d) = e => Blamed(e, f)'
        BY <2>1, BlameStays
      <4>. QED
        BY <1>1, <4>1
    <3>. QED
      BY <3>1 DEF Sound
  <2>2. ASSUME NEW content, Put(d, f, content), content \notin {None, Cut} PROVE Sound(Dir(d), f)'
    <3>1. files'[Dir(d)][f] = content
      BY <1>1, <2>2, PutFiles
    <3>. QED
      BY <1>1, <2>2, <3>1 DEF Sound, Gone
  <2>. QED
    BY <2>1, <2>2
<1>. QED
  BY <1>1, <1>2, <1>3, OneFile

\* What each step does to the artifacts.
LEMMA ManifestActs ==
    ASSUME TypeInv, JudgedInv, WholeInv, ManifestInv, NEW d \in Commands,
           Judge(d) \/ Write(d) \/ Interrupt(d)
    PROVE  Kept(d)
<1>0. /\ Dir(d)' = Dir(d) /\ Dir(d) \in Dirs /\ kind' = kind /\ pc \in [Commands -> Labels]
      /\ src # 0 /\ TypeOK /\ Reached(d) /\ Applies(d) /\ Judged(d)
      /\ "raw" \in Built /\ "opt" \in Built /\ "asm" \in Built /\ "bin" \in Built
      /\ Built = {"raw", "opt", "asm", "bin"}
  BY ReportType, RecordsStay DEF TypeInv, TypeOK, ManifestInv, WholeInv, JudgedInv, Built, Artifacts
<1>1. ASSUME \A e \in Dirs, g \in Built : Sound(e, g) => Sound(e, g)',
             \A e \in Dirs : files'[e]["manifest"] = files[e]["manifest"],
             \/ pc'[d] \in Judges \cup ExportFiles \cup {"ended", "raw"}
             \/ pc[d] = "raw" /\ pc'[d] = "opt" /\ Sound(Dir(d), "raw")'
             \/ pc[d] = "opt" /\ pc'[d] = "asm" /\ Sound(Dir(d), "opt")'
             \/ pc[d] = "asm" /\ pc'[d] = "bin" /\ Sound(Dir(d), "asm")'
             \/ pc[d] = "bin" /\ pc'[d] = "manifest" /\ Sound(Dir(d), "bin")'
      PROVE  Kept(d)
  <2>1. Reached(d)'
    BY <1>0, <1>1 DEF Reached, Judges, ExportFiles
  <2>. QED
    BY <1>1, <2>1 DEF Kept
<1>2. ASSUME UNCHANGED files, pc'[d] \in Judges \cup ExportFiles \cup {"ended", "raw"} PROVE Kept(d)
  BY <1>0, <1>1, <1>2, SoundStays
<1>3. CASE Judge(d) \/ StartWriter(d)
  <2>1. UNCHANGED files
    BY <1>3 DEF Judge, Guard, Reproduce, StartGuard, StartReproduce, BuildBaseline, BaselineBuilt,
       BaselineFailed, Check, TimeGuardBaseline, BuildGuardCandidate, TimeGuardCandidate, ConcludeGuard,
       TimeReproduceBaseline, BuildReproduceCandidate, TimeReproduceCandidate, ConcludeReproduce, StartWriter
  <2>2. pc'[d] \in Judges \cup ExportFiles \cup {"ended", "raw"}
    BY <1>0, <1>3 DEF Judge, Guard, Reproduce, Goto, End, Judges, Checked, Reject, CandidateBuilt,
       CandidateFailed, CandidateRaised, StartGuard, StartReproduce, BuildBaseline, BaselineBuilt,
       BaselineFailed, Check, TimeGuardBaseline, BuildGuardCandidate, TimeGuardCandidate, ConcludeGuard,
       TimeReproduceBaseline, BuildReproduceCandidate, TimeReproduceCandidate, ConcludeReproduce,
       StartWriter, ExportFiles
  <2>. QED
    BY <1>2, <2>1, <2>2
<1>4. ASSUME NEW f \in {"raw", "asm"}, NEW next, f = "raw" => next = "opt", f = "asm" => next = "bin",
             NEW content, content \notin {None, Cut}, Write(d), Emit(d, f, content, next)
      PROVE  Kept(d)
  <2>1. pc[d] = f /\ kind[d] = "apply" /\ f \in Built
    BY <1>0, <1>4 DEF Emit, At, Applies, Artifacts
  <2>2. /\ Put(d, f, content) \/ (Spoil(d, f) /\ Fault(d))
        /\ pc'[d] \in {next, "ended"}
    BY <1>0, <1>4 DEF Emit, Goto, End
  <2>3. Fault(d) => f \in broke'[d]
    BY <1>0, <2>1, FaultBreaks
  <2>. QED
    BY <1>1, <1>4, <2>1, <2>2, <2>3, ToolStep
<1>5. CASE EmitRaw(d)
  <2>1. [ver |-> src, of |-> "any"] \notin {None, Cut}
    BY <1>0 DEF None, Cut
  <2>. QED
    BY <1>4, <1>5, <2>1 DEF EmitRaw, Write
<1>6. CASE EmitAsm(d)
  <2>1. [ver |-> src, of |-> rep[d]] \notin {None, Cut}
    BY <1>0 DEF None, Cut
  <2>. QED
    BY <1>4, <1>6, <2>1 DEF EmitAsm, Write
<1>7. CASE BuildBinary(d)
  <2>1. pc[d] = "bin" /\ kind[d] = "apply"
    BY <1>0, <1>7 DEF BuildBinary, At, Applies, Artifacts
  <2>2. [ver |-> src, of |-> rep[d]] \notin {None, Cut}
    BY <1>0 DEF None, Cut
  <2>3. /\ Put(d, "bin", [ver |-> src, of |-> rep[d]]) \/ (Spoil(d, "bin") /\ Fault(d))
        /\ pc'[d] \in {"manifest", "ended"} /\ Write(d)
    BY <1>0, <1>7 DEF BuildBinary, Goto, End, Write
  <2>4. Fault(d) => "bin" \in broke'[d]
    BY <1>0, <2>1, FaultBreaks
  <2>. QED
    BY <1>0, <1>1, <2>1, <2>2, <2>3, <2>4, ToolStep
<1>8. CASE RunOpt(d)
  <2>1. pc[d] = "opt" /\ kind[d] = "apply" /\ Write(d)
    BY <1>0, <1>8 DEF RunOpt, At, Applies, Artifacts, Write
  <2>2. CASE Spoil(d, "opt") /\ End(d, "error") /\ (Fault(d) \/ Broken(d))
    <3>1. "opt" \in broke'[d] /\ pc'[d] = "ended"
      BY <1>0, <2>1, <2>2, FaultBreaks, BrokenType DEF End, Goto
    <3>. QED
      BY <1>0, <1>1, <2>1, <2>2, <3>1, ToolStep
  <2>3. ASSUME NEW content, Put(d, "opt", content), pc'[d] = "asm",
               content \in {None, Cut} => files[Dir(d)]["raw"] \in {None, Cut}
        PROVE  Kept(d)
    <3>1. Sound(Dir(d), "raw")
      BY <1>0, <2>1 DEF Reached
    <3>2. ASSUME content \in {None, Cut} PROVE Sound(Dir(d), "opt")'
      <4>1. Blamed(Dir(d), "opt")
        BY <2>3, <3>1, <3>2 DEF Sound, Gone, Blamed
      <4>. QED
        BY <1>0, <4>1, BlameStays DEF Sound
    <3>. QED
      BY <1>0, <1>1, <2>1, <2>3, <3>2, ToolStep
  <2>4. CASE \E content : /\ Put(d, "opt", content) /\ pc'[d] = "asm"
                          /\ content \in {None, Cut} => files[Dir(d)]["raw"] \in {None, Cut}
    BY <2>3, <2>4
  <2>5. CASE /\ files[Dir(d)]["raw"] # None
             /\ Put(d, "opt", IF files[Dir(d)]["raw"] = Cut THEN Cut
                              ELSE [ver |-> files[Dir(d)]["raw"].ver, of |-> rep[d]])
             /\ Goto(d, "asm")
    <3>1. files[Dir(d)]["raw"] # Cut => [ver |-> files[Dir(d)]["raw"].ver, of |-> rep[d]] \notin {None, Cut}
      <4>1. files[Dir(d)]["raw"] \in Content \cup {None, Cut}
        BY <1>0 DEF TypeOK, Artifacts
      <4>2. rep[d] \in Reports
        BY DEF TypeInv, TypeOK
      <4>. QED
        BY <4>1, <4>2, ConsumerAssumption DEF None, Cut
    <3>2. pc'[d] = "asm"
      BY <1>0, <2>5 DEF Goto
    <3>. QED
      BY <2>4, <2>5, <3>1, <3>2
  <2>. QED
    BY <1>8, <2>2, <2>5 DEF RunOpt
<1>9. CASE OpenManifest(d)
  <2>1. pc[d] = "manifest" /\ kind[d] = "apply" /\ "manifest" \in Artifacts /\ Built \subseteq Artifacts
    BY <1>0, <1>9 DEF OpenManifest, At, Applies, Artifacts, Built
  <2>2. CASE UNCHANGED files /\ End(d, "error")
    BY <1>0, <1>2, <2>2 DEF End, Goto
  <2>3. CASE Put(d, "manifest", Cut) /\ Goto(d, "close")
    <3>1. \A e \in Dirs, g \in Artifacts :
              files'[e][g] = IF e = Dir(d) /\ g = "manifest" THEN Cut ELSE files[e][g]
      BY <1>0, <2>1, <2>3, PutFiles
    <3>2. \A e \in Dirs, g \in Built : Sound(e, g) => Sound(e, g)'
      BY <1>9, <2>1, <3>1, SoundStays DEF Built, Write
    <3>3. pc'[d] = "close"
      BY <1>0, <2>3 DEF Goto
    <3>4. Reached(d)'
      BY <1>0, <2>1, <3>2, <3>3 DEF Reached
    <3>. QED
      BY <2>1, <3>1, <3>2, <3>4 DEF Kept
  <2>. QED
    BY <1>9, <2>2, <2>3 DEF OpenManifest
<1>10. CASE CloseManifest(d)
  <2>1. pc[d] = "close" /\ kind[d] = "apply" /\ "manifest" \in Artifacts /\ Built \subseteq Artifacts
    BY <1>0, <1>10 DEF CloseManifest, At, Applies, Artifacts, Built
  <2>2. CASE UNCHANGED files /\ End(d, "error")
    BY <1>0, <1>2, <2>2 DEF End, Goto
  <2>3. CASE Put(d, "manifest", [ver |-> base[d], of |-> rep[d]]) /\ End(d, "applied")
    <3>1. \A e \in Dirs, g \in Artifacts :
              e # Dir(d) \/ g # "manifest" => files'[e][g] = files[e][g]
      BY <1>0, <2>1, <2>3, PutFiles
    <3>2. \A e \in Dirs, g \in Built : Sound(e, g) => Sound(e, g)'
      BY <1>10, <2>1, <3>1, SoundStays DEF Built, Write
    <3>3. pc'[d] = "ended"
      BY <1>0, <2>3 DEF End, Goto
    <3>4. Reached(d)'
      BY <3>3 DEF Reached
    <3>5. \A f \in Built : Sound(Dir(d), f)
      BY <1>0, <2>1 DEF Reached
    <3>. QED
      BY <2>1, <3>1, <3>2, <3>4, <3>5 DEF Kept
  <2>. QED
    BY <1>10, <2>2, <2>3 DEF CloseManifest
<1>11. ASSUME pc[d] \in ExportFiles, Write(d) \/ Interrupt(d), pc'[d] \in ExportFiles \cup {"ended"},
              Spoil(d, pc[d]) \/ (\E content : Put(d, pc[d], content))
       PROVE  Kept(d)
  <2>1. pc[d] \notin Built /\ pc[d] # "manifest"
    BY <1>11 DEF Built, Artifacts, ExportFiles
  <2>2. \A e \in Dirs, g \in Artifacts : files'[e][g] = files[e][g] \/ (e = Dir(d) /\ g = pc[d])
    BY <1>0, <1>11, PutFiles, SpoilFiles
  <2>. QED
    BY <1>1, <1>11, <2>1, <2>2, OneFile
<1>12. CASE ExportFile(d)
  <2>1. pc[d] \in ExportFiles /\ (Spoil(d, pc[d]) \/ \E content : Put(d, pc[d], content))
    BY <1>12 DEF ExportFile
  <2>2. pc'[d] \in ExportFiles \cup {"ended"}
    <3>1. pc'[d] = "ended" \/ (pc[d] # "make" /\ pc'[d] = Successor[pc[d]])
      BY <1>0, <1>12 DEF ExportFile, End, Goto, At
    <3>2. pc[d] # "make" => Successor[pc[d]] \in ExportFiles
      BY <2>1 DEF Successor, ExportFiles
    <3>. QED
      BY <3>1, <3>2
  <2>. QED
    BY <1>11, <1>12, <2>1, <2>2 DEF Write
<1>13. CASE Interrupt(d)
  <2>1. pc'[d] = "ended" /\ broke'[d] = broke[d] \cup {pc[d]}
    BY <1>0, <1>13, BrokenType DEF Interrupt, End, Goto
  <2>2. CASE pc[d] \in Built
    <3>1. kind[d] = "apply" /\ Spoil(d, pc[d])
      BY <1>0, <1>13, <2>2 DEF Interrupt, Applies, Artifacts
    <3>. QED
      BY <1>1, <1>13, <2>1, <2>2, <3>1, ToolStep
  <2>3. CASE pc[d] \in ExportFiles
    BY <1>11, <1>13, <2>1, <2>3 DEF Interrupt
  <2>4. CASE pc[d] \notin Built \cup ExportFiles
    BY <1>2, <1>13, <2>1, <2>4 DEF Interrupt
  <2>. QED
    BY <2>2, <2>3, <2>4
<1>. QED
  BY <1>3, <1>5, <1>6, <1>7, <1>8, <1>9, <1>10, <1>12, <1>13 DEF Write

\* Every step keeps manifests true.
LEMMA ManifestStep == TypeInv /\ JudgedInv /\ WholeInv /\ ManifestInv /\ [Next]_vars => ManifestInv'
<1> SUFFICES ASSUME TypeInv, JudgedInv, WholeInv, ManifestInv, [Next]_vars PROVE ManifestInv'
  OBVIOUS
<1>1. ASSUME NEW d \in Commands, Judge(d) \/ Write(d) \/ Interrupt(d) PROVE ManifestInv'
  <2>1. Kept(d) /\ kind' = kind /\ \A c \in Commands : Dir(c)' = Dir(c)
    BY <1>1, ManifestActs, RecordsStay
  <2>2. ASSUME NEW c \in Commands PROVE Reached(c)'
    <3>1. CASE c = d
      BY <2>1, <3>1 DEF Kept
    <3>2. CASE c # d
      <4>1. pc'[c] = pc[c] /\ Reached(c)
        BY <1>1, <3>2, OthersFramed DEF Frame, ManifestInv
      <4>2. Built = {"raw", "opt", "asm", "bin"}
        BY DEF Built, Artifacts
      <4>. QED
        BY <2>1, <4>1, <4>2 DEF Kept, Reached
    <3>. QED
      BY <3>1, <3>2
  <2>3. ASSUME NEW e \in Dirs, files'[e]["manifest"] \notin {None, Cut}, NEW f \in Built PROVE Sound(e, f)'
    <3>1. Sound(e, f)
      BY <2>1, <2>3 DEF Kept, ManifestInv
    <3>. QED
      BY <2>1, <3>1 DEF Kept
  <2>. QED
    BY <2>2, <2>3 DEF ManifestInv
<1>2. CASE Edit \/ UNCHANGED vars
  <2>1. UNCHANGED <<kind, rep, pc, files, broke>>
    BY <1>2 DEF Edit, vars, world, ledger
  <2>. QED
    BY <2>1 DEF ManifestInv, Reached, Sound, Gone, Blamed, Dir, R
<1>. QED
  BY <1>1, <1>2 DEF Next

\* Whatever a manifest lists and is not there, or is only a part, was broken by
\* the failure or the interruption of its own tool, or of the tool before opt.
THEOREM ManifestsListWhatExists == Spec => []ManifestListsWhatExists
<1>1. Init => WholeInv /\ ManifestInv
  <2> SUFFICES ASSUME Init PROVE WholeInv /\ ManifestInv
    OBVIOUS
  <2>1. \A c \in Commands : pc[c] \in {"start", "ended"} /\ verdict[c] = "none"
    BY DEF Init
  <2>2. \A e \in Dirs : files[e]["manifest"] = None
    BY DEF Init, Artifacts
  <2>. QED
    BY <2>1, <2>2 DEF WholeInv, Whole, Applies, ManifestInv, Reached, Artifacts, ExportFiles
<1>2. ManifestInv => ManifestListsWhatExists
  BY DEF ManifestInv, ManifestListsWhatExists, Sound, Gone, Blamed
<1>. QED
  BY <1>1, <1>2, TypeInit, TypeStep, JudgedInit, JudgedStep, WholeStep, ManifestStep, PTL DEF Spec

=============================================================================
