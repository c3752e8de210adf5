-------------------------- MODULE DiagnosisProofs --------------------------
(***************************************************************************)
(* Proofs about Diagnosis, for any number of commands, run ids, ratios and *)
(* cleans.                                                                 *)
(***************************************************************************)
EXTENDS Diagnosis, TLAPS

----------------------------------------------------------------------------
(* What the operators of the model return.                                 *)

\* A sample that supports its flags.
Consistent(m) ==
    /\ m.significant => m.speed >= 102
    /\ m.clean => m.significant

\* What confirm_candidate returns of a measurement is a consistent sample.
LEMMA MeasuredIsSample ==
    ASSUME NEW s \in Ratios, NEW b \in BOOLEAN, NEW m \in Measured(s, b)
    PROVE  m \in Samples /\ Consistent(m) /\ m.speed = s /\ m.fresh = b /\ m.correct
BY DiagnosisAssumption DEF Measured, Samples, Consistent

\* So is the single sample of a run that measured nothing.
LEMMA SingleIsSample == Single \in Samples /\ Consistent(Single)
BY DEF Single, Samples, Consistent

\* Grades A and B stand for a correct, significant gain of 2% or more.
LEMMA GradeMeans ==
    ASSUME NEW m \in Samples
    PROVE  /\ Grade(m) \in {"A", "B"} <=> m.correct /\ m.significant /\ m.speed >= 102
           /\ ~m.correct => Grade(m) = "F"
           /\ Grade(m) \in Grades
<1>1. m.speed \in Nat
  <2>1. m.speed \in Ratios \cup {100}
    BY DEF Samples
  <2>2. Ratios \subseteq Nat
    BY DiagnosisAssumption
  <2>3. 100 \in Nat
    OBVIOUS
  <2>. QED
    BY <2>1, <2>2, <2>3
<1>2. m.correct \in BOOLEAN /\ m.significant \in BOOLEAN /\ m.clean \in BOOLEAN
  BY DEF Samples
<1>3. CASE ~m.correct
  BY <1>3 DEF Grade, Grades
<1>4. CASE m.correct /\ m.speed < 98
  BY <1>1, <1>4 DEF Grade, Grades
<1>5. CASE m.correct /\ m.speed >= 98 /\ m.speed < 102
  BY <1>1, <1>5 DEF Grade, Grades
<1>6. CASE m.correct /\ m.speed >= 102 /\ ~m.significant
  BY <1>1, <1>6 DEF Grade, Grades
<1>7. CASE m.correct /\ m.speed >= 102 /\ m.significant
  BY <1>1, <1>7 DEF Grade, Grades
<1>. QED
  BY <1>1, <1>2, <1>3, <1>4, <1>5, <1>6, <1>7

\* A file is opened empty, and closed as somebody's.
LEMMA WritingIsFile ==
    ASSUME NEW r \in Runs
    PROVE  /\ Part(r) \in File /\ Text(r) \in File
           /\ \A f \in File, others \in BOOLEAN : Closed(r, f, others) \subseteq File
<1>1. Part(r) \in File /\ Text(r) \in File
  BY DEF Part, Text, File
<1>2. ASSUME NEW f \in File, NEW others \in BOOLEAN PROVE Closed(r, f, others) \subseteq File
  BY <1>1 DEF Closed
<1>. QED
  BY <1>1, <1>2

----------------------------------------------------------------------------
(* Types.                                                                  *)

\* Every step keeps every variable in its type.
LEMMA TypeStep == TypeOK /\ [Next]_vars => TypeOK'
<1> SUFFICES ASSUME TypeOK, [Next]_vars PROVE TypeOK'
  OBVIOUS
<1> USE DiagnosisAssumption DEF TypeOK, Stages, Goto, args, files
<1>1. ASSUME NEW r \in Runs, Start(r) PROVE TypeOK'
  BY <1>1 DEF Start
<1>2. ASSUME NEW r \in Runs, Search(r) PROVE TypeOK'
  BY <1>2 DEF Search
<1>3. ASSUME NEW r \in Runs, ConfirmOnce(r) PROVE TypeOK'
  <2>1. PICK m \in IF winner[r] = 0 THEN {Single}
                   ELSE (UNION {Measured(s, TRUE) : s \in Ratios}) \cup Measured(winner[r], FALSE)
                        \cup IF cmd[r] = "doctor"
                             THEN {[x EXCEPT !.correct = FALSE] : x \in Measured(winner[r], FALSE)}
                             ELSE {} :
           sample' = [sample EXCEPT ![r] = m]
    BY <1>3 DEF ConfirmOnce
  <2>2. m \in Samples
    <3>1. CASE m = Single
      BY <3>1, SingleIsSample
    <3>2. CASE \E s \in Ratios : m \in Measured(s, TRUE) \cup Measured(s, FALSE)
      BY <3>2, MeasuredIsSample
    <3>3. winner[r] # 0 => winner[r] \in Ratios
      OBVIOUS
    <3>4. ASSUME NEW x \in Measured(winner[r], FALSE), m = [x EXCEPT !.correct = FALSE],
                 winner[r] # 0
          PROVE  m \in Samples
      <4>1. x \in Samples
        BY <3>3, <3>4, MeasuredIsSample
      <4>. QED
        BY <3>4, <4>1 DEF Samples
    <3>5. \/ m = Single
          \/ \E s \in Ratios : m \in Measured(s, TRUE)
          \/ winner[r] # 0 /\ m \in Measured(winner[r], FALSE)
          \/ winner[r] # 0 /\ \E x \in Measured(winner[r], FALSE) : m = [x EXCEPT !.correct = FALSE]
      <4>1. CASE winner[r] = 0
        BY <2>1, <4>1
      <4>2. CASE winner[r] # 0
        <5>1. \/ m \in UNION {Measured(s, TRUE) : s \in Ratios}
              \/ m \in Measured(winner[r], FALSE)
              \/ m \in {[x EXCEPT !.correct = FALSE] : x \in Measured(winner[r], FALSE)}
          BY <2>1, <4>2
        <5>. QED
          BY <5>1, <4>2
      <4>. QED
        BY <4>1, <4>2
    <3>. QED
      BY <3>1, <3>2, <3>3, <3>4, <3>5
  <2>. QED
    BY <1>3, <2>1, <2>2 DEF ConfirmOnce
<1>4. ASSUME NEW r \in Runs, ConfirmAgain(r) PROVE TypeOK'
  <2>1. sample' \in [Runs -> Samples]
    <3>1. CASE UNCHANGED sample
      BY <3>1
    <3>2. ASSUME NEW s \in Ratios, NEW m \in Measured(s, TRUE),
                 sample' = [sample EXCEPT ![r] = m]
          PROVE  sample' \in [Runs -> Samples]
      <4>1. m \in Samples
        BY MeasuredIsSample
      <4>. QED
        BY <3>2, <4>1
    <3>. QED
      BY <1>4, <3>1, <3>2 DEF ConfirmAgain
  <2>2. archive' \subseteq Runs /\ stage' \in [Runs -> Stages]
    BY <1>4 DEF ConfirmAgain
  <2>. QED
    BY <1>4, <2>1, <2>2 DEF ConfirmAgain
<1>5. ASSUME NEW r \in Runs, OpenReport(r) PROVE TypeOK'
  BY <1>5, WritingIsFile DEF OpenReport
<1>6. ASSUME NEW r \in Runs, CloseReport(r) PROVE TypeOK'
  <2>1. reports' \in [Places -> File]
    <3>1. CASE UNCHANGED reports
      BY <3>1
    <3>2. ASSUME NEW others \in BOOLEAN, NEW f \in Closed(r, reports[target[r]], others),
                 reports' = [reports EXCEPT ![target[r]] = f]
          PROVE  reports' \in [Places -> File]
      <4>1. f \in File
        <5>1. reports[target[r]] \in File
          BY DEF Places
        <5>. QED
          BY <3>2, <5>1, WritingIsFile
      <4>. QED
        BY <3>2, <4>1
    <3>. QED
      BY <1>6, <3>1, <3>2 DEF CloseReport
  <2>. QED
    BY <1>6, <2>1 DEF CloseReport
<1>7. ASSUME NEW r \in Runs, WriteHtml(r) PROVE TypeOK'
  BY <1>7 DEF WriteHtml
<1>8. ASSUME NEW r \in Runs, Record(r) PROVE TypeOK'
  BY <1>8, WritingIsFile DEF Record
<1>9. ASSUME NEW r \in Runs, Recorded(r) PROVE TypeOK'
  <2>. DEFINE others == \E q \in Runs \ {r} : stamp[q] = stamp[r] /\ stage[q] = "recorded"
  <2>2. PICK f \in Closed(r, entries[stamp[r]], others) :
           entries' = [entries EXCEPT ![stamp[r]] = f]
    BY <1>9 DEF Recorded
  <2>3. f \in File
    BY <2>2, WritingIsFile
  <2>4. entries' \in [Stamps -> File]
    BY <2>2, <2>3
  <2>. QED
    BY <1>9, <2>4 DEF Recorded
<1>10. ASSUME NEW r \in Runs, Abort(r) PROVE TypeOK'
  BY <1>10 DEF Abort
<1>11. CASE CleanRuns
  BY <1>11 DEF CleanRuns, File
<1>12. CASE UNCHANGED vars
  BY <1>12 DEF vars
<1>. QED
  BY <1>1, <1>2, <1>3, <1>4, <1>5, <1>6, <1>7, <1>8, <1>9, <1>10, <1>11, <1>12 DEF Next

\* The type invariant.
THEOREM TypeCorrect == Spec => []TypeOK
<1>1. Init => TypeOK
  <2>. SUFFICES ASSUME Init PROVE TypeOK
    OBVIOUS
  <2>1. /\ sample \in [Runs -> Samples] /\ stage \in [Runs -> Stages]
        /\ reports \in [Places -> File] /\ entries \in [Stamps -> File]
    BY SingleIsSample DEF Init, Stages, File
  <2>2. \A r \in Runs : target[r] \in {stamp[r], "file"}
    BY DEF Init
  <2>. QED
    BY <2>1, <2>2, DiagnosisAssumption DEF Init, TypeOK
<1>. QED
  BY <1>1, TypeStep, PTL DEF Spec

----------------------------------------------------------------------------
(* Claims follow the evidence.                                             *)

\* Before its confirmation a run has no evidence but the ratio of one; a run
\* without a winner never gets any; significance needs a gain.
EvidenceInv ==
    \A r \in Runs :
        /\ stage[r] \in {"start", "search"} => winner[r] = 0
        /\ stage[r] \in {"start", "search", "confirm"} => sample[r] = Single
        /\ winner[r] = 0 => sample[r] = Single
        /\ Consistent(sample[r])

\* Every step keeps what is known of samples and their grades.
LEMMA EvidenceStep == TypeOK /\ EvidenceInv /\ [Next]_vars => EvidenceInv'
<1> SUFFICES ASSUME TypeOK, EvidenceInv, [Next]_vars PROVE EvidenceInv'
  OBVIOUS
<1> USE DEF EvidenceInv, Goto, args, files
<1>. /\ stage \in [Runs -> Stages] /\ winner \in [Runs -> Ratios \cup {0}]
     /\ sample \in [Runs -> Samples]
  BY DEF TypeOK
\* Most steps leave winner and sample alone and only move on.
<1>0. ASSUME NEW r \in Runs, NEW s \in Stages \ {"start", "search", "confirm"},
             UNCHANGED <<winner, sample>>, stage' = [stage EXCEPT ![r] = s] \/ UNCHANGED stage
      PROVE  EvidenceInv'
  BY <1>0 DEF Stages
<1>1. ASSUME NEW r \in Runs, Start(r) PROVE EvidenceInv'
  BY <1>1 DEF Start
<1>2. ASSUME NEW r \in Runs, Search(r) PROVE EvidenceInv'
  BY <1>2 DEF Search
<1>3. ASSUME NEW r \in Runs, ConfirmOnce(r) PROVE EvidenceInv'
  <2>1. PICK m \in IF winner[r] = 0 THEN {Single}
                   ELSE (UNION {Measured(s, TRUE) : s \in Ratios}) \cup Measured(winner[r], FALSE)
                        \cup IF cmd[r] = "doctor"
                             THEN {[x EXCEPT !.correct = FALSE] : x \in Measured(winner[r], FALSE)}
                             ELSE {} :
           sample' = [sample EXCEPT ![r] = m]
    BY <1>3 DEF ConfirmOnce
  <2>2. winner[r] = 0 => m = Single
    BY <2>1
  <2>3. Consistent(m)
    <3>1. CASE winner[r] = 0
      BY <2>2, <3>1, SingleIsSample
    <3>2. CASE winner[r] # 0
      <4>1. \/ m \in UNION {Measured(s, TRUE) : s \in Ratios}
            \/ m \in Measured(winner[r], FALSE)
            \/ \E x \in Measured(winner[r], FALSE) : m = [x EXCEPT !.correct = FALSE]
        BY <2>1, <3>2
      <4>2. winner[r] \in Ratios
        BY <3>2
      <4>3. ASSUME NEW x \in Measured(winner[r], FALSE), m = [x EXCEPT !.correct = FALSE]
            PROVE  Consistent(m)
        <5>1. x \in Samples /\ Consistent(x)
          BY <4>2, MeasuredIsSample
        <5>2. m.significant = x.significant /\ m.speed = x.speed /\ m.clean = x.clean
          BY <4>3, <5>1 DEF Samples
        <5>. QED
          BY <5>1, <5>2 DEF Consistent
      <4>4. ASSUME NEW s \in Ratios, NEW b \in BOOLEAN, m \in Measured(s, b)
            PROVE  Consistent(m)
        BY <4>4, MeasuredIsSample
      <4>. QED
        BY <4>1, <4>2, <4>3, <4>4
    <3>. QED
      BY <3>1, <3>2
  <2>4. UNCHANGED winner /\ stage' = [stage EXCEPT ![r] = "open"]
    BY <1>3 DEF ConfirmOnce
  <2>. QED
    BY <2>1, <2>2, <2>3, <2>4
<1>4. ASSUME NEW r \in Runs, ConfirmAgain(r) PROVE EvidenceInv'
  <2>1. CASE UNCHANGED sample
    BY <1>4, <2>1, <1>0 DEF ConfirmAgain, Stages
  <2>2. CASE winner[r] # 0 /\ \E s \in Ratios : \E m \in Measured(s, TRUE) :
                /\ sample' = [sample EXCEPT ![r] = m]
                /\ stage' = [stage EXCEPT ![r] = "open"]
    <3>1. PICK s \in Ratios : \E m \in Measured(s, TRUE) :
                /\ sample' = [sample EXCEPT ![r] = m]
                /\ stage' = [stage EXCEPT ![r] = "open"]
      BY <2>2
    <3>2. PICK m \in Measured(s, TRUE) :
                /\ sample' = [sample EXCEPT ![r] = m]
                /\ stage' = [stage EXCEPT ![r] = "open"]
      BY <3>1
    <3>3. Consistent(m)
      BY MeasuredIsSample
    <3>4. UNCHANGED winner
      BY <1>4 DEF ConfirmAgain
    <3>. QED
      BY <2>2, <3>2, <3>3, <3>4
  <2>. QED
    BY <1>4, <2>1, <2>2 DEF ConfirmAgain
<1>5. ASSUME NEW r \in Runs, OpenReport(r) PROVE EvidenceInv'
  BY <1>5, <1>0 DEF OpenReport, Stages
<1>6. ASSUME NEW r \in Runs, CloseReport(r) PROVE EvidenceInv'
  BY <1>6, <1>0 DEF CloseReport, Stages
<1>7. ASSUME NEW r \in Runs, WriteHtml(r) PROVE EvidenceInv'
  BY <1>7, <1>0 DEF WriteHtml, Stages
<1>8. ASSUME NEW r \in Runs, Record(r) PROVE EvidenceInv'
  BY <1>8, <1>0 DEF Record, Stages
<1>9. ASSUME NEW r \in Runs, Recorded(r) PROVE EvidenceInv'
  BY <1>9, <1>0 DEF Recorded, Stages
<1>10. ASSUME NEW r \in Runs, Abort(r) PROVE EvidenceInv'
  BY <1>10, <1>0 DEF Abort, Stages
<1>11. CASE CleanRuns
  BY <1>11 DEF CleanRuns
<1>12. CASE UNCHANGED vars
  BY <1>12 DEF vars
<1>. QED
  BY <1>1, <1>2, <1>3, <1>4, <1>5, <1>6, <1>7, <1>8, <1>9, <1>10, <1>11, <1>12 DEF Next

\* What consistent evidence is turned into.
LEMMA ClaimMeans ==
    ASSUME TypeOK, EvidenceInv, NEW r \in Runs, cmd[r] # "search"
    PROVE  LET c == Claim(r)
               m == sample[r]
           IN  /\ c.class = "IMPROVED" <=>
                    winner[r] # 0 /\ m.correct /\ m.significant /\ m.speed >= 102
               /\ c.class = "IMPROVED" <=> c.grade \in {"A", "B"}
               /\ ~m.correct => c.grade = "F" /\ c.class = "REGRESSION"
<1>. DEFINE m == sample[r]
            grade == Grade(m)
            speed == IF ~m.correct THEN winner[r] ELSE m.speed
<1>1. m \in Samples /\ winner[r] \in Ratios \cup {0}
  BY DEF TypeOK
<1>2. m.speed \in Nat /\ winner[r] \in Nat
  <2>1. m.speed \in Ratios \cup {100}
    BY <1>1 DEF Samples
  <2>2. Ratios \subseteq Nat
    BY DiagnosisAssumption
  <2>3. winner[r] \in Ratios \cup {0}
    BY <1>1
  <2>4. 0 \in Nat /\ 100 \in Nat
    OBVIOUS
  <2>. HIDE DEF m
  <2>. QED
    BY <2>1, <2>2, <2>3, <2>4
<1>3. CASE winner[r] = 0
  <2>1. m.correct /\ ~m.significant
    BY <1>3 DEF EvidenceInv, Single
  <2>2. Claim(r) = [speed |-> 100, class |-> "NO_VALID_CANDIDATE", grade |-> "D"]
    BY <1>3 DEF Claim
  <2>. QED
    BY <2>1, <2>2
<1>4. CASE winner[r] # 0
  <2>1. Claim(r).class = Graded(speed, grade) /\ Claim(r).grade = grade
    BY <1>4 DEF Claim, Class
  <2>2. /\ grade \in {"A", "B"} <=> m.correct /\ m.significant /\ m.speed >= 102
        /\ ~m.correct => grade = "F"
        /\ grade \in Grades
    BY <1>1, GradeMeans
  <2>. HIDE DEF grade
  <2>3. CASE grade \in {"A", "B"}
    <3>1. speed = m.speed /\ m.speed >= 102
      BY <2>2, <2>3
    <3>2. Graded(speed, grade) = Ungraded(speed)
      BY <2>3 DEF Graded
    <3>3. Ungraded(speed) = "IMPROVED"
      BY <3>1, <1>2 DEF Ungraded
    <3>. QED
      BY <1>4, <2>1, <2>2, <2>3, <3>2, <3>3
  <2>4. CASE grade \in {"C", "D"}
    <3>1. Graded(speed, grade) \in {"REGRESSION", "TIE"}
      BY <2>4 DEF Graded
    <3>. QED
      BY <2>1, <2>2, <2>4, <3>1
  <2>5. CASE grade = "F"
    <3>1. Graded(speed, grade) = "REGRESSION"
      BY <2>5 DEF Graded
    <3>. QED
      BY <2>1, <2>2, <2>5, <3>1
  <2>. QED
    BY <2>2, <2>3, <2>4, <2>5 DEF Grades
<1>. QED
  BY <1>3, <1>4

\* So that is known in every reachable state.
LEMMA EvidenceHolds == Spec => []EvidenceInv
<1>1. Init => EvidenceInv
  BY SingleIsSample DEF Init, EvidenceInv
<1>. QED
  BY <1>1, EvidenceStep, TypeCorrect, PTL DEF Spec

\* Whatever was measured, a report of doctor or optimize calls improved exactly
\* what it has significant evidence for.
THEOREM ClaimsAreSound == Spec => []ClaimIsSound
<1>1. TypeOK /\ EvidenceInv => ClaimIsSound
  <2>. SUFFICES ASSUME TypeOK, EvidenceInv, NEW p \in Places, Whole(p), cmd[Writer(p)] # "search"
                PROVE  LET c == Claim(Writer(p))
                           m == sample[Writer(p)]
                       IN  /\ c.class = "IMPROVED" <=>
                                winner[Writer(p)] # 0 /\ m.correct /\ m.significant /\ m.speed >= 102
                           /\ c.class = "IMPROVED" <=> c.grade \in {"A", "B"}
                           /\ ~m.correct => c.grade = "F" /\ c.class = "REGRESSION"
    BY DEF ClaimIsSound
  <2>1. reports[p] \in [by : Runs, whole : BOOLEAN]
    BY DEF TypeOK, Whole, File
  <2>2. Writer(p) \in Runs
    BY <2>1 DEF Writer
  <2>. QED
    BY <2>2, ClaimMeans
<1>. QED
  BY <1>1, EvidenceHolds, TypeCorrect, PTL

----------------------------------------------------------------------------
(* What seeds later searches.                                              *)

\* A search archives its winner in its confirmation, from fresh evidence, and
\* measures no more; the knowledge store at the end is not its own.
ArchiveInv ==
    \A r \in Runs : cmd[r] = "search" =>
        /\ stage[r] \notin {"html", "record", "recorded"}
        /\ r \in archive =>
              /\ stage[r] \notin {"start", "search", "confirm"}
              /\ winner[r] # 0
              /\ sample[r].fresh /\ sample[r].correct
              /\ sample[r].significant /\ sample[r].speed >= 102

\* Every step keeps archives to proven pipelines.
LEMMA ArchiveStep == TypeOK /\ ArchiveInv /\ [Next]_vars => ArchiveInv'
<1> SUFFICES ASSUME TypeOK, ArchiveInv, [Next]_vars PROVE ArchiveInv'
  OBVIOUS
<1> USE DEF ArchiveInv, Goto, args, files
<1>. /\ stage \in [Runs -> Stages] /\ winner \in [Runs -> Ratios \cup {0}]
     /\ sample \in [Runs -> Samples] /\ archive \subseteq Runs
  BY DEF TypeOK
<1>1. ASSUME NEW r \in Runs, Start(r) PROVE ArchiveInv'
  BY <1>1 DEF Start
<1>2. ASSUME NEW r \in Runs, Search(r) PROVE ArchiveInv'
  BY <1>2 DEF Search
<1>3. ASSUME NEW r \in Runs, ConfirmOnce(r) PROVE ArchiveInv'
  <2>1. \A q \in Runs \ {r} : sample'[q] = sample[q]
    BY <1>3 DEF ConfirmOnce
  <2>. QED
    BY <1>3, <2>1 DEF ConfirmOnce
<1>4. ASSUME NEW r \in Runs, ConfirmAgain(r) PROVE ArchiveInv'
  <2>1. CASE UNCHANGED <<sample, archive>>
    BY <1>4, <2>1 DEF ConfirmAgain
  <2>2. ASSUME winner[r] # 0, NEW s \in Ratios, NEW m \in Measured(s, TRUE),
               sample' = [sample EXCEPT ![r] = m],
               archive' = IF Archived(r, m) THEN archive \cup {r} ELSE archive,
               stage' = [stage EXCEPT ![r] = "open"]
        PROVE  ArchiveInv'
    <3>1. m \in Samples /\ m.fresh /\ m.correct
      BY MeasuredIsSample
    <3>2. Archived(r, m) => m.significant /\ m.speed >= 102
      BY <3>1, GradeMeans DEF Archived
    <3>3. r \notin archive
      BY <1>4 DEF ConfirmAgain
    <3>4. UNCHANGED <<cmd, winner>>
      BY <1>4 DEF ConfirmAgain
    <3>. QED
      BY <2>2, <3>1, <3>2, <3>3, <3>4
  <2>. QED
    BY <1>4, <2>1, <2>2 DEF ConfirmAgain
<1>5. ASSUME NEW r \in Runs, OpenReport(r) PROVE ArchiveInv'
  BY <1>5 DEF OpenReport
<1>6. ASSUME NEW r \in Runs, CloseReport(r) PROVE ArchiveInv'
  BY <1>6 DEF CloseReport
<1>7. ASSUME NEW r \in Runs, WriteHtml(r) PROVE ArchiveInv'
  BY <1>7 DEF WriteHtml
<1>8. ASSUME NEW r \in Runs, Record(r) PROVE ArchiveInv'
  BY <1>8 DEF Record
<1>9. ASSUME NEW r \in Runs, Recorded(r) PROVE ArchiveInv'
  BY <1>9 DEF Recorded
<1>10. ASSUME NEW r \in Runs, Abort(r) PROVE ArchiveInv'
  BY <1>10 DEF Abort
<1>11. CASE CleanRuns
  BY <1>11 DEF CleanRuns
<1>12. CASE UNCHANGED vars
  BY <1>12 DEF vars
<1>. QED
  BY <1>1, <1>2, <1>3, <1>4, <1>5, <1>6, <1>7, <1>8, <1>9, <1>10, <1>11, <1>12 DEF Next

\* What "autotune search" puts into the seed archive won its confirmation.
THEOREM OnlyConfirmedIsArchived == Spec => []ArchiveIsConfirmed
<1>1. Init => ArchiveInv
  BY DEF Init, ArchiveInv
<1>2. TypeOK /\ ArchiveInv => ArchiveIsConfirmed
  BY DEF TypeOK, ArchiveInv, ArchiveIsConfirmed
<1>. QED
  BY <1>1, <1>2, ArchiveStep, TypeCorrect, PTL DEF Spec

----------------------------------------------------------------------------
(* The ledger and the reports.                                             *)

\* No other run writes to the same place.
Alone(r) == \A q \in Runs \ {r} : target[q] # target[r]

\* While nothing is cleaned, the report of a run that is alone is open, then
\* complete, from its opening on; an entry comes after it.
LedgerInv ==
    cleans = 0 => \A r \in Runs : Alone(r) =>
        /\ stage[r] = "close" => reports[target[r]] = Part(r)
        /\ stage[r] \in {"html", "record", "recorded"} => reports[target[r]] = Text(r)
        /\ \A i \in Stamps : entries[i] # Nothing /\ entries[i].by = r =>
              stage[r] \in {"recorded", "done", "failed"} /\ reports[target[r]] = Text(r)

\* A step that writes no file and moves no run into the stages after its
\* opening keeps the ledger in order.
LEMMA LedgerKept ==
    ASSUME TypeOK, LedgerInv, UNCHANGED <<target, reports, entries, cleans>>,
           \A r \in Runs : \/ stage'[r] = stage[r]
                           \/ /\ stage'[r] \notin {"close", "html", "record", "recorded"}
                              /\ stage'[r] = "failed" \/ stage[r] \notin {"recorded", "done", "failed"}
                           \/ /\ stage[r] \in {"html", "record"}
                              /\ stage'[r] \in {"record", "done"}
    PROVE  LedgerInv'
<1>. SUFFICES ASSUME cleans' = 0, NEW r \in Runs, Alone(r)'
              PROVE  /\ stage'[r] = "close" => reports[target[r]] = Part(r)
                     /\ stage'[r] \in {"html", "record", "recorded"} => reports[target[r]] = Text(r)
                     /\ \A i \in Stamps : entries[i] # Nothing /\ entries[i].by = r =>
                           /\ stage'[r] \in {"recorded", "done", "failed"}
                           /\ reports[target[r]] = Text(r)
  BY DEF LedgerInv, Part, Text
<1>1. cleans = 0 /\ Alone(r)
  BY DEF Alone
<1>2. /\ stage[r] = "close" => reports[target[r]] = Part(r)
      /\ stage[r] \in {"html", "record", "recorded"} => reports[target[r]] = Text(r)
      /\ \A i \in Stamps : entries[i] # Nothing /\ entries[i].by = r =>
            stage[r] \in {"recorded", "done", "failed"} /\ reports[target[r]] = Text(r)
  BY <1>1 DEF LedgerInv
<1>. QED
  BY <1>2

\* Every step keeps the account of history entries.
LEMMA LedgerStep == TypeOK /\ LedgerInv /\ [Next]_vars => LedgerInv'
<1> SUFFICES ASSUME TypeOK, LedgerInv, [Next]_vars PROVE LedgerInv'
  OBVIOUS
<1> USE DEF Goto, args, files
<1>. /\ stage \in [Runs -> Stages] /\ target \in [Runs -> Places]
     /\ reports \in [Places -> File] /\ entries \in [Stamps -> File]
     /\ stamp \in [Runs -> Stamps]
  BY DEF TypeOK
<1>1. ASSUME NEW r \in Runs, Start(r) PROVE LedgerInv'
  BY <1>1, LedgerKept DEF Start
<1>2. ASSUME NEW r \in Runs, Search(r) PROVE LedgerInv'
  BY <1>2, LedgerKept DEF Search
<1>3. ASSUME NEW r \in Runs, ConfirmOnce(r) PROVE LedgerInv'
  BY <1>3, LedgerKept DEF ConfirmOnce
<1>4. ASSUME NEW r \in Runs, ConfirmAgain(r) PROVE LedgerInv'
  <2>1. UNCHANGED <<target, reports, entries, cleans>>
    BY <1>4 DEF ConfirmAgain
  <2>2. stage[r] = "confirm" /\ stage' \in {[stage EXCEPT ![r] = s] : s \in {"open", "failed"}}
    BY <1>4 DEF ConfirmAgain
  <2>. QED
    BY <2>1, <2>2, LedgerKept
<1>5. ASSUME NEW r \in Runs, OpenReport(r) PROVE LedgerInv'
  <2>1. CASE UNCHANGED reports /\ stage' = [stage EXCEPT ![r] = "failed"]
    BY <1>5, <2>1, LedgerKept DEF OpenReport
  <2>2. CASE /\ reports' = [reports EXCEPT ![target[r]] = Part(r)]
             /\ stage' = [stage EXCEPT ![r] = "close"]
    <3>1. stage[r] = "open" /\ UNCHANGED <<target, entries, cleans>>
      BY <1>5 DEF OpenReport
    <3>. QED
      BY <2>2, <3>1 DEF LedgerInv, Alone, Part, Text
  <2>. QED
    BY <1>5, <2>1, <2>2 DEF OpenReport
<1>6. ASSUME NEW r \in Runs, CloseReport(r) PROVE LedgerInv'
  <2>. DEFINE others == \E q \in Runs \ {r} : target[q] = target[r] /\ stage[q] = "close"
  <2>1. /\ stage[r] = "close" /\ UNCHANGED <<target, entries, cleans>>
        /\ \/ stage' = [stage EXCEPT ![r] = "html"]
           \/ stage' = [stage EXCEPT ![r] = "done"]
    BY <1>6 DEF CloseReport
  <2>2. \A p \in Places \ {target[r]} : reports'[p] = reports[p]
    BY <1>6 DEF CloseReport
  <2>3. cleans = 0 /\ Alone(r) => reports'[target[r]] = Text(r)
    <3>. SUFFICES ASSUME cleans = 0, Alone(r) PROVE reports'[target[r]] = Text(r)
      OBVIOUS
    <3>1. reports[target[r]] = Part(r)
      BY <2>1 DEF LedgerInv
    <3>2. ~others
      BY DEF Alone
    <3>3. Part(r) # Nothing
      BY DEF Part, Nothing
    <3>4. \E f \in Closed(r, reports[target[r]], others) :
             reports' = [reports EXCEPT ![target[r]] = f]
      BY <1>6, <3>1, <3>3 DEF CloseReport
    <3>5. Closed(r, reports[target[r]], others) = {Text(r)}
      BY <3>1, <3>2 DEF Closed
    <3>. QED
      BY <3>4, <3>5
  <2>4. ASSUME cleans' = 0, NEW q \in Runs, Alone(q)'
        PROVE  /\ stage'[q] = "close" => reports'[target[q]] = Part(q)
               /\ stage'[q] \in {"html", "record", "recorded"} => reports'[target[q]] = Text(q)
               /\ \A i \in Stamps : entries[i] # Nothing /\ entries[i].by = q =>
                     /\ stage'[q] \in {"recorded", "done", "failed"}
                     /\ reports'[target[q]] = Text(q)
    <3>1. cleans = 0 /\ Alone(q)
      BY <2>1, <2>4 DEF Alone
    <3>2. /\ stage[q] = "close" => reports[target[q]] = Part(q)
          /\ stage[q] \in {"html", "record", "recorded"} => reports[target[q]] = Text(q)
          /\ \A i \in Stamps : entries[i] # Nothing /\ entries[i].by = q =>
                stage[q] \in {"recorded", "done", "failed"} /\ reports[target[q]] = Text(q)
      BY <3>1 DEF LedgerInv
    <3>3. CASE q = r
      BY <2>1, <2>3, <3>1, <3>2, <3>3
    <3>4. CASE q # r
      <4>1. reports'[target[q]] = reports[target[q]] /\ stage'[q] = stage[q]
        BY <2>1, <2>2, <3>1, <3>4 DEF Alone
      <4>. QED
        BY <3>2, <4>1
    <3>. QED
      BY <3>3, <3>4
  <2>. QED
    BY <2>1, <2>4 DEF LedgerInv, Part, Text
<1>7. ASSUME NEW r \in Runs, WriteHtml(r) PROVE LedgerInv'
  <2>1. /\ stage[r] = "html" /\ UNCHANGED <<target, reports, entries, cleans>>
        /\ stage' \in {[stage EXCEPT ![r] = s] : s \in {"failed", "record", "done"}}
    BY <1>7 DEF WriteHtml
  <2>. QED
    BY <2>1, LedgerKept
<1>8. ASSUME NEW r \in Runs, Record(r) PROVE LedgerInv'
  <2>1. /\ stage[r] = "record" /\ stage' = [stage EXCEPT ![r] = "recorded"]
        /\ entries' = [entries EXCEPT ![stamp[r]] = Part(r)]
        /\ UNCHANGED <<target, reports, cleans>>
    BY <1>8 DEF Record
  <2>. QED
    BY <2>1 DEF LedgerInv, Alone, Part, Text
<1>9. ASSUME NEW r \in Runs, Recorded(r) PROVE LedgerInv'
  <2>1. /\ stage[r] = "recorded" /\ stage' = [stage EXCEPT ![r] = "done"]
        /\ UNCHANGED <<target, reports, cleans>>
    BY <1>9 DEF Recorded
  <2>2. PICK f \in {entries[stamp[r]], Text(r), Part(r)} :
           entries' = [entries EXCEPT ![stamp[r]] = f]
    BY <1>9 DEF Recorded, Closed
  <2>3. ASSUME cleans' = 0, NEW q \in Runs, Alone(q)'
        PROVE  /\ stage'[q] = "close" => reports[target[q]] = Part(q)
               /\ stage'[q] \in {"html", "record", "recorded"} => reports[target[q]] = Text(q)
               /\ \A i \in Stamps : entries'[i] # Nothing /\ entries'[i].by = q =>
                     /\ stage'[q] \in {"recorded", "done", "failed"}
                     /\ reports[target[q]] = Text(q)
    <3>1. cleans = 0 /\ Alone(q)
      BY <2>1, <2>3 DEF Alone
    <3>2. /\ stage[q] = "close" => reports[target[q]] = Part(q)
          /\ stage[q] \in {"html", "record", "recorded"} => reports[target[q]] = Text(q)
          /\ \A i \in Stamps : entries[i] # Nothing /\ entries[i].by = q =>
                stage[q] \in {"recorded", "done", "failed"} /\ reports[target[q]] = Text(q)
      BY <3>1 DEF LedgerInv
    <3>3. ASSUME NEW i \in Stamps, entries'[i] # Nothing, entries'[i].by = q
          PROVE  (entries[i] # Nothing /\ entries[i].by = q) \/ q = r
      BY <2>2, <3>3 DEF Part, Text
    <3>. QED
      BY <2>1, <3>2, <3>3
  <2>. QED
    BY <2>1, <2>3 DEF LedgerInv, Part, Text
<1>10. ASSUME NEW r \in Runs, Abort(r) PROVE LedgerInv'
  BY <1>10, LedgerKept DEF Abort
<1>11. CASE CleanRuns
  <2>1. cleans' # 0
    BY <1>11 DEF CleanRuns, TypeOK
  <2>. QED
    BY <2>1 DEF LedgerInv
<1>12. CASE UNCHANGED vars
  BY <1>12 DEF vars, LedgerInv, Alone, Part, Text
<1>. QED
  BY <1>1, <1>2, <1>3, <1>4, <1>5, <1>6, <1>7, <1>8, <1>9, <1>10, <1>11, <1>12 DEF Next

\* A complete history entry points to a complete report, unless another run
\* wrote there or the run directories were removed.
THEOREM LedgerPointsToReports == Spec => []HistoryMatchesReport
<1>1. Init => LedgerInv
  BY DEF Init, LedgerInv
<1>2. TypeOK /\ LedgerInv => HistoryMatchesReport
  <2>. SUFFICES ASSUME TypeOK, LedgerInv,
                       NEW i \in Stamps, entries[i] # Nothing, entries[i].whole,
                       cleans = 0, Alone(entries[i].by)
                PROVE  reports[target[entries[i].by]] = Text(entries[i].by)
    BY DEF HistoryMatchesReport, Alone, TypeOK
  <2>1. entries[i].by \in Runs
    BY DEF TypeOK, File
  <2>. QED
    BY <2>1 DEF LedgerInv
<1>. QED
  BY <1>1, <1>2, LedgerStep, TypeCorrect, PTL DEF Spec
=============================================================================
