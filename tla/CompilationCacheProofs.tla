---------------------- MODULE CompilationCacheProofs ----------------------
(***************************************************************************)
(* Proofs about CompilationCache, for any set of workers, sessions and     *)
(* keys, any assignment of workers to sessions and any bounds on faults.   *)
(***************************************************************************)
EXTENDS CompilationCache, TLAPS

\* A fault is counted and remembered.
LEMMA MishapType ==
    ASSUME TypeOK, NEW kind, Mishap(kind)
    PROVE  happened' \in SUBSET Faults /\ count' \in 0..MaxFaults /\ kind \in happened'
  BY FaultAssumption DEF TypeOK, Mishap

\* Every step keeps every variable in its type.
LEMMA TypeStep == TypeOK /\ [Next]_vars => TypeOK'
<1> SUFFICES ASSUME TypeOK, [Next]_vars PROVE TypeOK'
  OBVIOUS
<1> USE SessionAssumption DEF TypeOK, File, MetaFile, Content, Labels, Resting,
        Goto, Sees, Remember, disk, session, worker, faults, past, Mishap
<1>1. ASSUME NEW w \in Workers, NEW k \in Keys, Submit(w, k) PROVE TypeOK'
  BY <1>1 DEF Submit, Resting, Labels
<1>2. ASSUME NEW w \in Workers, GetProbe(w) PROVE TypeOK'
  <2>1. UNCHANGED <<disk, session, key, held, hash, faults>>
    BY <1>2 DEF GetProbe
  <2>2. pc' \in {[pc EXCEPT ![w] = "readmeta"], [pc EXCEPT ![w] = "compile"]}
    BY <1>2 DEF GetProbe
  <2>. QED
    BY <2>1, <2>2
<1>3. ASSUME NEW w \in Workers, GetReadMeta(w) PROVE TypeOK'
  BY <1>3 DEF GetReadMeta
<1>4. ASSUME NEW w \in Workers, GetVerify(w) PROVE TypeOK'
  BY <1>4 DEF GetVerify
<1>5. ASSUME NEW w \in Workers, QuarantineMeta(w) PROVE TypeOK'
  <2>1. happened' \in SUBSET Faults /\ count' \in 0..MaxFaults
    <3>1. CASE UNCHANGED past
      BY <3>1
    <3>2. CASE Mishap("failure")
      BY <3>2, MishapType
    <3>. QED
      BY <1>5, <3>1, <3>2 DEF QuarantineMeta
  <2>2. meta' \in [Keys -> MetaFile] /\ UNCHANGED tainted
    BY <1>5 DEF QuarantineMeta
  <2>. QED
    BY <1>5, <2>1, <2>2 DEF QuarantineMeta
<1>6. ASSUME NEW w \in Workers, QuarantineBin(w) PROVE TypeOK'
  <2>1. happened' \in SUBSET Faults /\ count' \in 0..MaxFaults
    <3>1. CASE UNCHANGED past
      BY <3>1
    <3>2. CASE Mishap("failure")
      BY <3>2, MishapType
    <3>. QED
      BY <1>6, <3>1, <3>2 DEF QuarantineBin
  <2>2. bin' \in [Keys -> File] /\ UNCHANGED tainted
    BY <1>6 DEF QuarantineBin
  <2>. QED
    BY <1>6, <2>1, <2>2 DEF QuarantineBin
<1>7. ASSUME NEW w \in Workers, UseHit(w) PROVE TypeOK'
  BY <1>7 DEF UseHit
<1>8. ASSUME NEW w \in Workers, CompileFails(w) PROVE TypeOK'
  BY <1>8 DEF CompileFails
<1>9. ASSUME NEW w \in Workers, LinkStart(w) PROVE TypeOK'
  BY <1>9 DEF LinkStart
<1>10. ASSUME NEW w \in Workers, LinkEnd(w) PROVE TypeOK'
  BY <1>10 DEF LinkEnd
<1>11. ASSUME NEW w \in Workers, LinkFails(w) PROVE TypeOK'
  BY <1>11 DEF LinkFails
<1>12. ASSUME NEW w \in Workers, PutProbe(w) PROVE TypeOK'
  BY <1>12 DEF PutProbe
<1>13. ASSUME NEW w \in Workers, PutCopy(w) PROVE TypeOK'
  BY <1>13 DEF PutCopy
<1>14. ASSUME NEW w \in Workers, PutRename(w) PROVE TypeOK'
  BY <1>14 DEF PutRename
<1>15. ASSUME NEW w \in Workers, PutHash(w) PROVE TypeOK'
  BY <1>15 DEF PutHash
<1>16. ASSUME NEW w \in Workers, PutMeta(w) PROVE TypeOK'
  BY <1>16 DEF PutMeta
<1>17. ASSUME NEW w \in Workers, Run(w) PROVE TypeOK'
  BY <1>17 DEF Run, CandidateFile
<1>18. ASSUME NEW s \in Sessions, EndSession(s) PROVE TypeOK'
  BY <1>18 DEF EndSession, Forget
<1>19. ASSUME NEW s \in Sessions, Crash(s) PROVE TypeOK'
  BY <1>19, FaultAssumption DEF Crash, Forget
<1>20. ASSUME NEW k \in Keys, Damage(k) PROVE TypeOK'
  <2>1. bin' \in [Keys -> File] /\ meta' \in [Keys -> MetaFile]
    BY <1>20 DEF Damage
  <2>2. held' \in [Workers -> File] /\ tainted' \in SUBSET Keys
    BY <1>20 DEF Damage
  <2>3. happened' \in SUBSET Faults /\ count' \in 0..MaxFaults
    BY <1>20, FaultAssumption DEF Damage
  <2>. QED
    BY <1>20, <2>1, <2>2, <2>3 DEF Damage
<1>21. ASSUME ClearStart PROVE TypeOK'
  BY <1>21, FaultAssumption DEF ClearStart, Listing, Names
<1>22. ASSUME NEW f \in Names, ClearNext(f) PROVE TypeOK'
  BY <1>22 DEF ClearNext, Names
<1>23. CASE UNCHANGED vars
  BY <1>23 DEF vars, disk, session, worker, faults, past
<1>24. ASSUME NEW w \in Workers, PutRaises(w) PROVE TypeOK'
  BY <1>24, FaultAssumption DEF PutRaises
<1>. QED
  BY <1>1, <1>2, <1>3, <1>4, <1>5, <1>6, <1>7, <1>8, <1>9, <1>10, <1>11, <1>12, <1>13, <1>14, <1>15, <1>16, <1>17, <1>18, <1>19, <1>20, <1>21, <1>22, <1>23, <1>24
  DEF Next, Acquire, Get, Compile, Put, Environment

\* The type invariant of the compilation layer: what its files, sessions and
\* workers can hold.
THEOREM TypeCorrect == Spec => []TypeOK
<1>1. Init => TypeOK
  BY SessionAssumption, FaultAssumption
  DEF Init, TypeOK, File, MetaFile, Content, Labels, Resting
<1>. QED
  BY <1>1, TypeStep, PTL DEF Spec

----------------------------------------------------------------------------
(* Altered bytes are never verified.                                       *)

\* The strengthening: as long as nobody alters what is being put, no path into a
\* hash or into metadata starts at altered bytes.
AlteredInv ==
    /\ \A s \in Sessions, k \in Keys : out[s][k] # "rotten"
    /\ \A k \in Keys \ tainted : meta[k] # "rotten"
    /\ \A w \in Workers : key[w] \notin tainted =>
          /\ pc[w] \in {"hit", "rename"} => held[w] # "rotten"
          /\ pc[w] \in {"verify", "record"} => hash[w] # "rotten"
          /\ pc[w] = "rehash" => bin[key[w]] # "rotten"

\* Every step keeps what is known of altered files.
LEMMA AlteredStep == TypeOK /\ AlteredInv /\ [Next]_vars => AlteredInv'
<1> SUFFICES ASSUME TypeOK, AlteredInv, [Next]_vars PROVE AlteredInv'
  OBVIOUS
<1> USE SessionAssumption DEF TypeOK, AlteredInv, File, MetaFile, Content,
        Resting, Goto, Sees, Remember, disk, session, worker, faults, past, Mishap
<1>1. ASSUME NEW w \in Workers, NEW k \in Keys, Submit(w, k) PROVE AlteredInv'
  BY <1>1 DEF Submit
<1>2. ASSUME NEW w \in Workers, GetProbe(w) PROVE AlteredInv'
  BY <1>2 DEF GetProbe
<1>3. ASSUME NEW w \in Workers, GetReadMeta(w) PROVE AlteredInv'
  <2>1. CASE meta[key[w]] \in Content
    BY <1>3, <2>1 DEF GetReadMeta
  <2>2. CASE meta[key[w]] \notin Content
    BY <1>3, <2>2 DEF GetReadMeta
  <2>. QED
    BY <2>1, <2>2
<1>4. ASSUME NEW w \in Workers, GetVerify(w) PROVE AlteredInv'
  BY <1>4 DEF GetVerify
<1>5. ASSUME NEW w \in Workers, QuarantineMeta(w) PROVE AlteredInv'
  BY <1>5 DEF QuarantineMeta
<1>6. ASSUME NEW w \in Workers, QuarantineBin(w) PROVE AlteredInv'
  BY <1>6 DEF QuarantineBin
<1>7. ASSUME NEW w \in Workers, UseHit(w) PROVE AlteredInv'
  BY <1>7 DEF UseHit
<1>8. ASSUME NEW w \in Workers, CompileFails(w) PROVE AlteredInv'
  BY <1>8 DEF CompileFails
<1>9. ASSUME NEW w \in Workers, LinkStart(w) PROVE AlteredInv'
  BY <1>9 DEF LinkStart
<1>10. ASSUME NEW w \in Workers, LinkEnd(w) PROVE AlteredInv'
  BY <1>10 DEF LinkEnd
<1>11. ASSUME NEW w \in Workers, LinkFails(w) PROVE AlteredInv'
  BY <1>11 DEF LinkFails
<1>12. ASSUME NEW w \in Workers, PutProbe(w) PROVE AlteredInv'
  BY <1>12 DEF PutProbe
<1>13. ASSUME NEW w \in Workers, PutCopy(w) PROVE AlteredInv'
  BY <1>13 DEF PutCopy
<1>14. ASSUME NEW w \in Workers, PutRename(w) PROVE AlteredInv'
  BY <1>14 DEF PutRename
<1>15. ASSUME NEW w \in Workers, PutHash(w) PROVE AlteredInv'
  BY <1>15 DEF PutHash
<1>16. ASSUME NEW w \in Workers, PutMeta(w) PROVE AlteredInv'
  BY <1>16 DEF PutMeta
<1>17. ASSUME NEW w \in Workers, Run(w) PROVE AlteredInv'
  BY <1>17 DEF Run, CandidateFile
<1>18. ASSUME NEW s \in Sessions, EndSession(s) PROVE AlteredInv'
  BY <1>18 DEF EndSession, Forget
<1>19. ASSUME NEW s \in Sessions, Crash(s) PROVE AlteredInv'
  BY <1>19 DEF Crash, Forget
<1>20. ASSUME NEW k \in Keys, Damage(k) PROVE AlteredInv'
  <2>1. CASE bin' = [bin EXCEPT ![k] = "rotten"] /\ UNCHANGED <<meta, held>>
    <3>1. \A w \in Workers : pc[w] = "rehash" /\ key[w] = k => k \in tainted'
      BY <1>20, <2>1 DEF Damage
    <3>. QED
      BY <1>20, <2>1, <3>1 DEF Damage
  <2>2. CASE meta' = [meta EXCEPT ![k] = "junk"]
    BY <1>20, <2>2 DEF Damage
  <2>3. CASE UNCHANGED disk /\ tainted' = tainted \cup {k}
    BY <1>20, <2>3 DEF Damage
  <2>. QED
    BY <1>20, <2>1, <2>2, <2>3 DEF Damage
<1>21. ASSUME ClearStart PROVE AlteredInv'
  BY <1>21 DEF ClearStart
<1>22. ASSUME NEW f \in Names, ClearNext(f) PROVE AlteredInv'
  BY <1>22 DEF ClearNext, Names, Listing
<1>23. CASE UNCHANGED vars
  BY <1>23 DEF vars, disk, session, worker, faults, past
<1>24. ASSUME NEW w \in Workers, PutRaises(w) PROVE AlteredInv'
  BY <1>24 DEF PutRaises
<1>. QED
  BY <1>1, <1>2, <1>3, <1>4, <1>5, <1>6, <1>7, <1>8, <1>9, <1>10, <1>11, <1>12, <1>13, <1>14, <1>15, <1>16, <1>17, <1>18, <1>19, <1>20, <1>21, <1>22, <1>23, <1>24
  DEF Next, Acquire, Get, Compile, Put, Environment

\* Whatever the threads, sessions, kills, failures and clears: only bytes altered
\* between the copy of put_compilation and its hash are ever recorded, and no
\* lookup reports a hit on any others.
THEOREM AlteredNeverVerified == Spec => []AlteredBytesNeverVerified
<1>1. Init => AlteredInv
  BY DEF Init, AlteredInv
<1>2. AlteredInv => AlteredBytesNeverVerified
  BY DEF AlteredInv, AlteredBytesNeverVerified
<1>. QED
  BY <1>1, <1>2, TypeCorrect, AlteredStep, PTL DEF Spec

----------------------------------------------------------------------------
(* Executables without metadata have owners.                               *)

\* The strengthening: nothing is being cleared before the first clear, and who is
\* about to compare or to record a hash has one.
OrphanInv ==
    /\ OrphansHaveOwners
    /\ "clear" \notin happened => toClear = {}
    /\ \A w \in Workers : pc[w] \in {"verify", "record"} => hash[w] # "none"

\* A step of a worker that owns nothing takes no owner away.
LEMMA OwnersStay ==
    ASSUME TypeOK,
           NEW w \in Workers, pc[w] \notin {"rehash", "record", "unbin"},
           NEW l, pc' = [pc EXCEPT ![w] = l],
           \A v \in Workers \ {w} : key'[v] = key[v],
           NEW k \in Keys, WillSettle(k)
    PROVE  WillSettle(k)'
  BY DEF TypeOK, WillSettle

\* Every step leaves a temporary file or an unfinished pair only to a worker on its way or to a death.
LEMMA OrphanStep == TypeOK /\ OrphanInv /\ [Next]_vars => OrphanInv'
<1> SUFFICES ASSUME TypeOK, OrphanInv, [Next]_vars PROVE OrphanInv'
  OBVIOUS
<1> USE SessionAssumption, FaultAssumption
    DEF TypeOK, OrphanInv, OrphansHaveOwners, Orphan, File, MetaFile,
        Content, Resting, Goto, Sees, Remember, disk, session, worker, faults, past, Mishap
<1>1. ASSUME NEW w \in Workers, NEW k \in Keys, Submit(w, k) PROVE OrphanInv'
  <2>1. \A j \in Keys : WillSettle(j) => WillSettle(j)'
    BY <1>1, OwnersStay DEF Submit
  <2>. QED
    BY <1>1, <2>1 DEF Submit
<1>2. ASSUME NEW w \in Workers, GetProbe(w) PROVE OrphanInv'
  <2>1. \A j \in Keys : WillSettle(j) => WillSettle(j)'
    BY <1>2, OwnersStay DEF GetProbe
  <2>. QED
    BY <1>2, <2>1 DEF GetProbe
<1>3. ASSUME NEW w \in Workers, GetReadMeta(w) PROVE OrphanInv'
  <2>1. \A j \in Keys : WillSettle(j) => WillSettle(j)'
    BY <1>3, OwnersStay DEF GetReadMeta
  <2>. QED
    BY <1>3, <2>1 DEF GetReadMeta
<1>4. ASSUME NEW w \in Workers, GetVerify(w) PROVE OrphanInv'
  <2>1. \A j \in Keys : WillSettle(j) => WillSettle(j)'
    BY <1>4, OwnersStay DEF GetVerify
  <2>. QED
    BY <1>4, <2>1 DEF GetVerify
<1>5. ASSUME NEW w \in Workers, QuarantineMeta(w) PROVE OrphanInv'
  <2>1. \A j \in Keys : WillSettle(j) => WillSettle(j)'
    BY <1>5, OwnersStay DEF QuarantineMeta
  <2>. QED
    BY <1>5, <2>1 DEF QuarantineMeta, WillSettle
<1>6. ASSUME NEW w \in Workers, QuarantineBin(w) PROVE OrphanInv'
  <2>1. CASE bin' = [bin EXCEPT ![key[w]] = "none"]
    BY <1>6, <2>1 DEF QuarantineBin, WillSettle
  <2>2. CASE "failure" \in happened'
    BY <1>6, <2>2 DEF QuarantineBin
  <2>. QED
    BY <1>6, <2>1, <2>2 DEF QuarantineBin
<1>7. ASSUME NEW w \in Workers, UseHit(w) PROVE OrphanInv'
  <2>1. \A j \in Keys : WillSettle(j) => WillSettle(j)'
    BY <1>7, OwnersStay DEF UseHit
  <2>. QED
    BY <1>7, <2>1 DEF UseHit
<1>8. ASSUME NEW w \in Workers, CompileFails(w) PROVE OrphanInv'
  <2>1. \A j \in Keys : WillSettle(j) => WillSettle(j)'
    BY <1>8, OwnersStay DEF CompileFails
  <2>. QED
    BY <1>8, <2>1 DEF CompileFails
<1>9. ASSUME NEW w \in Workers, LinkStart(w) PROVE OrphanInv'
  <2>1. \A j \in Keys : WillSettle(j) => WillSettle(j)'
    BY <1>9, OwnersStay DEF LinkStart
  <2>. QED
    BY <1>9, <2>1 DEF LinkStart
<1>10. ASSUME NEW w \in Workers, LinkEnd(w) PROVE OrphanInv'
  <2>1. \A j \in Keys : WillSettle(j) => WillSettle(j)'
    BY <1>10, OwnersStay DEF LinkEnd
  <2>. QED
    BY <1>10, <2>1 DEF LinkEnd
<1>11. ASSUME NEW w \in Workers, LinkFails(w) PROVE OrphanInv'
  <2>1. \A j \in Keys : WillSettle(j) => WillSettle(j)'
    BY <1>11, OwnersStay DEF LinkFails
  <2>. QED
    BY <1>11, <2>1 DEF LinkFails
<1>12. ASSUME NEW w \in Workers, PutProbe(w) PROVE OrphanInv'
  <2>1. \A j \in Keys : WillSettle(j) => WillSettle(j)'
    BY <1>12, OwnersStay DEF PutProbe
  <2>. QED
    BY <1>12, <2>1 DEF PutProbe
<1>13. ASSUME NEW w \in Workers, PutCopy(w) PROVE OrphanInv'
  <2>1. \A j \in Keys : WillSettle(j) => WillSettle(j)'
    BY <1>13, OwnersStay DEF PutCopy
  <2>. QED
    BY <1>13, <2>1 DEF PutCopy
<1>14. ASSUME NEW w \in Workers, PutRename(w) PROVE OrphanInv'
  <2>1. \A j \in Keys : WillSettle(j) => WillSettle(j)'
    BY <1>14, OwnersStay DEF PutRename
  <2>2. CASE held[w] = "none"
    BY <1>14, <2>1, <2>2 DEF PutRename
  <2>3. CASE held[w] # "none"
    <3>1. WillSettle(key[w])'
      BY <1>14, <2>3 DEF PutRename, WillSettle
    <3>. QED
      BY <1>14, <2>1, <2>3, <3>1 DEF PutRename
  <2>. QED
    BY <2>2, <2>3
<1>15. ASSUME NEW w \in Workers, PutHash(w) PROVE OrphanInv'
  BY <1>15 DEF PutHash, WillSettle
<1>16. ASSUME NEW w \in Workers, PutMeta(w) PROVE OrphanInv'
  BY <1>16 DEF PutMeta, WillSettle
<1>17. ASSUME NEW w \in Workers, Run(w) PROVE OrphanInv'
  <2>1. \A j \in Keys : WillSettle(j) => WillSettle(j)'
    BY <1>17, OwnersStay DEF Run
  <2>. QED
    BY <1>17, <2>1 DEF Run
<1>18. ASSUME NEW s \in Sessions, EndSession(s) PROVE OrphanInv'
  BY <1>18 DEF EndSession, Forget, WorkersOf, WillSettle
<1>19. ASSUME NEW s \in Sessions, Crash(s) PROVE OrphanInv'
  BY <1>19 DEF Crash, Forget, WillSettle
<1>20. ASSUME NEW k \in Keys, Damage(k) PROVE OrphanInv'
  BY <1>20 DEF Damage, WillSettle
<1>21. ASSUME ClearStart PROVE OrphanInv'
  BY <1>21 DEF ClearStart, WillSettle
<1>22. ASSUME NEW f \in Names, ClearNext(f) PROVE OrphanInv'
  BY <1>22 DEF ClearNext, Names, Listing, WillSettle
<1>23. CASE UNCHANGED vars
  BY <1>23 DEF vars, disk, session, worker, faults, past, WillSettle
<1>24. ASSUME NEW w \in Workers, PutRaises(w) PROVE OrphanInv'
  BY <1>24 DEF PutRaises
<1>. QED
  BY <1>1, <1>2, <1>3, <1>4, <1>5, <1>6, <1>7, <1>8, <1>9, <1>10, <1>11, <1>12, <1>13, <1>14, <1>15, <1>16, <1>17, <1>18, <1>19, <1>20, <1>21, <1>22, <1>23, <1>24
  DEF Next, Acquire, Get, Compile, Put, Environment

\* Without kills, clears and failed writes or removals, whatever is altered at
\* rest, an executable that lacks its metadata, the one
\* state of an entry the layer cannot repair, is always about to be completed
\* or removed by a live worker; in particular none is left behind.
THEOREM OrphansOwned == Spec => []OrphansHaveOwners
<1>1. Init => OrphanInv
  BY DEF Init, OrphanInv, OrphansHaveOwners, Orphan
<1>2. OrphanInv => OrphansHaveOwners
  BY DEF OrphanInv
<1>. QED
  BY <1>1, <1>2, TypeCorrect, OrphanStep, PTL DEF Spec

----------------------------------------------------------------------------
(* One worker per session.                                                 *)

\* The strengthening: the linker's output is whole from the end of a session's
\* only link on, so that every copy made of it is.
TornInv ==
    PrivateOutputs =>
        /\ \A k \in Keys : bin[k] # "torn" /\ meta[k] # "torn"
        /\ \A w \in Workers :
              /\ \/ pc[w] \in {"put", "copy"}
                 \/ pc[w] = "ready" /\ mode[SessionOf[w]] = "off"
                 => out[SessionOf[w]][key[w]] = "whole"
              /\ pc[w] = "rename" => held[w] # "torn"
              /\ pc[w] = "record" => hash[w] # "torn"
              /\ pc[w] = "done" => held[w] # "torn"
              /\ pc[w] \in {"probe", "readmeta", "verify", "hit", "unmeta", "unbin",
                            "copy", "put", "rename", "rehash", "record"}
                 => mode[SessionOf[w]] # "off"

\* Every step keeps what is known of artifacts while outputs are private.
LEMMA TornStep == TypeOK /\ TornInv /\ [Next]_vars => TornInv'
<1> SUFFICES ASSUME TypeOK, TornInv, PrivateOutputs, [Next]_vars PROVE TornInv'
  BY DEF TornInv, PrivateOutputs
<1> USE SessionAssumption
    DEF TypeOK, TornInv, PrivateOutputs, File, MetaFile, Content, Resting,
        Goto, Sees, Remember, disk, session, worker, faults, past, Mishap
<1>1. ASSUME NEW w \in Workers, NEW k \in Keys, Submit(w, k) PROVE TornInv'
  BY <1>1 DEF Submit
<1>2. ASSUME NEW w \in Workers, GetProbe(w) PROVE TornInv'
  BY <1>2 DEF GetProbe
<1>3. ASSUME NEW w \in Workers, GetReadMeta(w) PROVE TornInv'
  BY <1>3 DEF GetReadMeta
<1>4. ASSUME NEW w \in Workers, GetVerify(w) PROVE TornInv'
  BY <1>4 DEF GetVerify
<1>5. ASSUME NEW w \in Workers, QuarantineMeta(w) PROVE TornInv'
  BY <1>5 DEF QuarantineMeta
<1>6. ASSUME NEW w \in Workers, QuarantineBin(w) PROVE TornInv'
  BY <1>6 DEF QuarantineBin
<1>7. ASSUME NEW w \in Workers, UseHit(w) PROVE TornInv'
  BY <1>7 DEF UseHit
<1>8. ASSUME NEW w \in Workers, CompileFails(w) PROVE TornInv'
  BY <1>8 DEF CompileFails
<1>9. ASSUME NEW w \in Workers, LinkStart(w) PROVE TornInv'
  BY <1>9 DEF LinkStart
<1>10. ASSUME NEW w \in Workers, LinkEnd(w) PROVE TornInv'
  BY <1>10 DEF LinkEnd, Linking
<1>11. ASSUME NEW w \in Workers, LinkFails(w) PROVE TornInv'
  BY <1>11 DEF LinkFails
<1>12. ASSUME NEW w \in Workers, PutProbe(w) PROVE TornInv'
  BY <1>12 DEF PutProbe
<1>13. ASSUME NEW w \in Workers, PutCopy(w) PROVE TornInv'
  BY <1>13 DEF PutCopy
<1>14. ASSUME NEW w \in Workers, PutRename(w) PROVE TornInv'
  BY <1>14 DEF PutRename
<1>15. ASSUME NEW w \in Workers, PutHash(w) PROVE TornInv'
  BY <1>15 DEF PutHash
<1>16. ASSUME NEW w \in Workers, PutMeta(w) PROVE TornInv'
  BY <1>16 DEF PutMeta
<1>17. ASSUME NEW w \in Workers, Run(w) PROVE TornInv'
  BY <1>17 DEF Run, CandidateFile
<1>18. ASSUME NEW s \in Sessions, EndSession(s) PROVE TornInv'
  BY <1>18 DEF EndSession, Forget, WorkersOf
<1>19. ASSUME NEW s \in Sessions, Crash(s) PROVE TornInv'
  BY <1>19 DEF Crash, Forget
<1>20. ASSUME NEW k \in Keys, Damage(k) PROVE TornInv'
  BY <1>20 DEF Damage
<1>21. ASSUME ClearStart PROVE TornInv'
  BY <1>21 DEF ClearStart
<1>22. ASSUME NEW f \in Names, ClearNext(f) PROVE TornInv'
  BY <1>22 DEF ClearNext, Names, Listing
<1>23. CASE UNCHANGED vars
  BY <1>23 DEF vars, disk, session, worker, faults, past
<1>24. ASSUME NEW w \in Workers, PutRaises(w) PROVE TornInv'
  BY <1>24 DEF PutRaises
<1>. QED
  BY <1>1, <1>2, <1>3, <1>4, <1>5, <1>6, <1>7, <1>8, <1>9, <1>10, <1>11, <1>12, <1>13, <1>14, <1>15, <1>16, <1>17, <1>18, <1>19, <1>20, <1>21, <1>22, <1>23, <1>24
  DEF Next, Acquire, Get, Compile, Put, Environment

\* Sessions with one worker each never publish, record or execute a torn
\* executable, however they interleave, die and restart: what the temporary
\* file and the rename of _atomic_copy_file are for.
THEOREM NothingTorn == Spec => []NoTornArtifact
<1>1. Init => TornInv
  BY DEF Init, TornInv
<1>2. TornInv => NoTornArtifact
  BY DEF TornInv, NoTornArtifact
<1>. QED
  BY <1>1, <1>2, TypeCorrect, TornStep, PTL DEF Spec

\* The strengthening, while nothing has been damaged or cleared: executables and
\* metadata are absent or whole, metadata comes after its executable, and from
\* there on both stay, so a lookup that found them finds them equal.
AlarmInv ==
    PrivateOutputs /\ happened \subseteq {"crash", "failure"} =>
        /\ toClear = {}
        /\ \A k \in Keys :
              /\ bin[k] # "rotten"
              /\ meta[k] \in {"none", "whole"}
              /\ meta[k] = "whole" => bin[k] = "whole"
        /\ \A w \in Workers :
              /\ pc[w] = "rename" => held[w] = "whole"
              /\ pc[w] \in {"rehash", "record", "verify", "readmeta"}
                 => bin[key[w]] = "whole"
              /\ pc[w] \in {"record", "verify"} => hash[w] = "whole"
              /\ pc[w] = "readmeta" => meta[key[w]] = "whole"
              /\ pc[w] \notin {"unmeta", "unbin"}
        /\ \A s \in Sessions : ~recovered[s]

\* Every step keeps what is known of alarms.
LEMMA AlarmStep == TypeOK /\ TornInv /\ AlarmInv /\ [Next]_vars => AlarmInv'
<1> SUFFICES ASSUME TypeOK, TornInv, AlarmInv, PrivateOutputs, [Next]_vars
             PROVE  AlarmInv'
  BY DEF AlarmInv, PrivateOutputs
<1> USE SessionAssumption, FaultAssumption
    DEF TypeOK, TornInv, AlarmInv, PrivateOutputs, File, MetaFile, Content,
        Resting, Goto, Sees, Remember, disk, session, worker, faults, past, Mishap
<1>1. ASSUME NEW w \in Workers, NEW k \in Keys, Submit(w, k) PROVE AlarmInv'
  BY <1>1 DEF Submit
<1>2. ASSUME NEW w \in Workers, GetProbe(w) PROVE AlarmInv'
  BY <1>2 DEF GetProbe
<1>3. ASSUME NEW w \in Workers, GetReadMeta(w) PROVE AlarmInv'
  BY <1>3 DEF GetReadMeta
<1>4. ASSUME NEW w \in Workers, GetVerify(w) PROVE AlarmInv'
  BY <1>4 DEF GetVerify
<1>5. ASSUME NEW w \in Workers, QuarantineMeta(w) PROVE AlarmInv'
  BY <1>5 DEF QuarantineMeta
<1>6. ASSUME NEW w \in Workers, QuarantineBin(w) PROVE AlarmInv'
  BY <1>6 DEF QuarantineBin
<1>7. ASSUME NEW w \in Workers, UseHit(w) PROVE AlarmInv'
  BY <1>7 DEF UseHit
<1>8. ASSUME NEW w \in Workers, CompileFails(w) PROVE AlarmInv'
  BY <1>8 DEF CompileFails
<1>9. ASSUME NEW w \in Workers, LinkStart(w) PROVE AlarmInv'
  BY <1>9 DEF LinkStart
<1>10. ASSUME NEW w \in Workers, LinkEnd(w) PROVE AlarmInv'
  BY <1>10 DEF LinkEnd, Linking
<1>11. ASSUME NEW w \in Workers, LinkFails(w) PROVE AlarmInv'
  BY <1>11 DEF LinkFails
<1>12. ASSUME NEW w \in Workers, PutProbe(w) PROVE AlarmInv'
  BY <1>12 DEF PutProbe
<1>13. ASSUME NEW w \in Workers, PutCopy(w) PROVE AlarmInv'
  BY <1>13 DEF PutCopy
<1>14. ASSUME NEW w \in Workers, PutRename(w) PROVE AlarmInv'
  BY <1>14 DEF PutRename
<1>15. ASSUME NEW w \in Workers, PutHash(w) PROVE AlarmInv'
  BY <1>15 DEF PutHash
<1>16. ASSUME NEW w \in Workers, PutMeta(w) PROVE AlarmInv'
  BY <1>16 DEF PutMeta
<1>17. ASSUME NEW w \in Workers, Run(w) PROVE AlarmInv'
  BY <1>17 DEF Run, CandidateFile
<1>18. ASSUME NEW s \in Sessions, EndSession(s) PROVE AlarmInv'
  BY <1>18 DEF EndSession, Forget, WorkersOf
<1>19. ASSUME NEW s \in Sessions, Crash(s) PROVE AlarmInv'
  BY <1>19 DEF Crash, Forget
<1>20. ASSUME NEW k \in Keys, Damage(k) PROVE AlarmInv'
  BY <1>20 DEF Damage
<1>21. ASSUME ClearStart PROVE AlarmInv'
  BY <1>21 DEF ClearStart
<1>22. ASSUME NEW f \in Names, ClearNext(f) PROVE AlarmInv'
  BY <1>22 DEF ClearNext, Names, Listing
<1>23. CASE UNCHANGED vars
  BY <1>23 DEF vars, disk, session, worker, faults, past
<1>24. ASSUME NEW w \in Workers, PutRaises(w) PROVE AlarmInv'
  BY <1>24 DEF PutRaises
<1>. QED
  BY <1>1, <1>2, <1>3, <1>4, <1>5, <1>6, <1>7, <1>8, <1>9, <1>10, <1>11, <1>12, <1>13, <1>14, <1>15, <1>16, <1>17, <1>18, <1>19, <1>20, <1>21, <1>22, <1>23, <1>24
  DEF Next, Acquire, Get, Compile, Put, Environment

\* Sessions with one worker each never quarantine one another's entries: kills,
\* failed writes and interleavings never make a lookup report corruption.
THEOREM NoAlarms == Spec => []NoFalseAlarm
<1>1. Init => TornInv /\ AlarmInv
  BY DEF Init, TornInv, AlarmInv
<1>2. AlarmInv => NoFalseAlarm
  BY DEF AlarmInv, NoFalseAlarm
<1>. QED
  BY <1>1, <1>2, TypeCorrect, TornStep, AlarmStep, PTL DEF Spec

----------------------------------------------------------------------------
(* The layer implements an immutable store with an atomic lookup and put.  *)

\* Only a session that has a cache is anywhere in get_compilation, or past the
\* link in put_compilation: a disabled manager returns before its first access.
ModeInv ==
    \A w \in Workers :
        pc[w] \notin Resting \cup {"compile", "link", "ready"}
        => mode[SessionOf[w]] # "off"

\* Every step keeps sessions without a cache away from its files.
LEMMA ModeStep == TypeOK /\ ModeInv /\ [Next]_vars => ModeInv'
<1> SUFFICES ASSUME TypeOK, ModeInv, [Next]_vars PROVE ModeInv'
  OBVIOUS
<1> USE SessionAssumption DEF TypeOK, ModeInv, Resting, Goto, session, worker, faults, past, Mishap
<1>1. ASSUME NEW w \in Workers, NEW k \in Keys, Submit(w, k) PROVE ModeInv'
  BY <1>1 DEF Submit
<1>2. ASSUME NEW w \in Workers, GetProbe(w) PROVE ModeInv'
  BY <1>2 DEF GetProbe
<1>3. ASSUME NEW w \in Workers, GetReadMeta(w) PROVE ModeInv'
  BY <1>3 DEF GetReadMeta
<1>4. ASSUME NEW w \in Workers, GetVerify(w) PROVE ModeInv'
  BY <1>4 DEF GetVerify
<1>5. ASSUME NEW w \in Workers, QuarantineMeta(w) PROVE ModeInv'
  BY <1>5 DEF QuarantineMeta
<1>6. ASSUME NEW w \in Workers, QuarantineBin(w) PROVE ModeInv'
  BY <1>6 DEF QuarantineBin
<1>7. ASSUME NEW w \in Workers, UseHit(w) PROVE ModeInv'
  BY <1>7 DEF UseHit
<1>8. ASSUME NEW w \in Workers, CompileFails(w) PROVE ModeInv'
  BY <1>8 DEF CompileFails
<1>9. ASSUME NEW w \in Workers, LinkStart(w) PROVE ModeInv'
  BY <1>9 DEF LinkStart
<1>10. ASSUME NEW w \in Workers, LinkEnd(w) PROVE ModeInv'
  BY <1>10 DEF LinkEnd
<1>11. ASSUME NEW w \in Workers, LinkFails(w) PROVE ModeInv'
  BY <1>11 DEF LinkFails
<1>12. ASSUME NEW w \in Workers, PutProbe(w) PROVE ModeInv'
  BY <1>12 DEF PutProbe
<1>13. ASSUME NEW w \in Workers, PutCopy(w) PROVE ModeInv'
  BY <1>13 DEF PutCopy
<1>14. ASSUME NEW w \in Workers, PutRename(w) PROVE ModeInv'
  BY <1>14 DEF PutRename
<1>15. ASSUME NEW w \in Workers, PutHash(w) PROVE ModeInv'
  BY <1>15 DEF PutHash
<1>16. ASSUME NEW w \in Workers, PutMeta(w) PROVE ModeInv'
  BY <1>16 DEF PutMeta
<1>17. ASSUME NEW w \in Workers, Run(w) PROVE ModeInv'
  BY <1>17 DEF Run
<1>18. ASSUME NEW s \in Sessions, EndSession(s) PROVE ModeInv'
  BY <1>18 DEF EndSession, Forget
<1>19. ASSUME NEW s \in Sessions, Crash(s) PROVE ModeInv'
  BY <1>19 DEF Crash, Forget
<1>20. ASSUME NEW k \in Keys, Damage(k) PROVE ModeInv'
  BY <1>20 DEF Damage
<1>21. ASSUME ClearStart PROVE ModeInv'
  BY <1>21 DEF ClearStart
<1>22. ASSUME NEW f \in Names, ClearNext(f) PROVE ModeInv'
  BY <1>22 DEF ClearNext
<1>23. CASE UNCHANGED vars
  BY <1>23 DEF vars
<1>24. ASSUME NEW w \in Workers, PutRaises(w) PROVE ModeInv'
  BY <1>24 DEF PutRaises
<1>. QED
  BY <1>1, <1>2, <1>3, <1>4, <1>5, <1>6, <1>7, <1>8, <1>9, <1>10, <1>11, <1>12, <1>13, <1>14, <1>15, <1>16, <1>17, <1>18, <1>19, <1>20, <1>21, <1>22, <1>23, <1>24
  DEF Next, Acquire, Get, Compile, Put, Environment

\* What the store sees of the workers.
Doings == [w \in Workers |-> Doing(w)]

\* A step of one worker moves nobody else.
LEMMA Turned ==
    ASSUME TypeOK, NEW w \in Workers, NEW l, pc' = [pc EXCEPT ![w] = l], UNCHANGED mode
    PROVE  Doings' = [Doings EXCEPT ![w] = Doing(w)'] /\ pc'[w] = l
<1>1. \A v \in Workers \ {w} : pc'[v] = pc[v]
  BY DEF TypeOK
<1>2. \A v \in Workers \ {w} : Doing(v)' = Doing(v)
  BY <1>1 DEF Doing
<1>. QED
  BY <1>2 DEF Doings, TypeOK

\* Who moves within one phase of an evaluation moves nobody.
LEMMA Unmoved ==
    ASSUME NEW w \in Workers, Doings' = [Doings EXCEPT ![w] = Doing(w)'], Doing(w)' = Doing(w)
    PROVE  Doings' = Doings
  BY DEF Doings

\* Every step of the layer is a step of the store or leaves it as it was.
LEMMA StoreStep ==
    /\ TypeOK /\ ModeInv /\ TornInv /\ AlteredInv /\ OrphanInv
    /\ AlarmInv /\ [Next]_vars
    => [Store!Next]_(Store!vars)
<1> SUFFICES ASSUME TypeOK, ModeInv, TornInv, AlteredInv, OrphanInv,
                    AlarmInv, [Next]_vars
             PROVE  [Store!Next]_(Store!vars)
  OBVIOUS
<1> DEFINE Goal == Store!Next \/ UNCHANGED Store!vars
<1>0. SUFFICES Goal
  OBVIOUS
<1> USE SessionAssumption DEF TypeOK, Goto, Store!faults
<1>1. ASSUME NEW w \in Workers, NEW k \in Keys, Submit(w, k) PROVE Goal
  <2>1. Doings' = [Doings EXCEPT ![w] = Doing(w)']
    <3>1. PICK l : pc' = [pc EXCEPT ![w] = l]
      BY <1>1 DEF Submit
    <3>. QED
      BY <1>1, <3>1, Turned DEF Submit, session
  <2>2. Doing(w) = "idle" /\ Doing(w)' \in {"looking", "making"}
    BY <1>1 DEF Submit, Doing, Resting
  <2>3. Store!Ask(w, k)
    BY <1>1, <2>1, <2>2 DEF Submit, disk, faults, past, Store!Ask, Store!Turn, Doings
  <2>. QED
    BY <2>3 DEF Store!Next
<1>2. ASSUME NEW w \in Workers, GetProbe(w) PROVE Goal
  <2>1. Doings' = [Doings EXCEPT ![w] = Doing(w)'] /\ Doing(w) = "looking"
    <3>1. PICK l : pc' = [pc EXCEPT ![w] = l]
      BY <1>2 DEF GetProbe
    <3>2. Doing(w) = "looking"
      BY <1>2 DEF GetProbe, Doing, Resting
    <3>. QED
      BY <1>2, <3>1, <3>2, Turned DEF GetProbe, session
  <2>2. CASE meta[key[w]] # "none" /\ bin[key[w]] # "none"
    <3>1. Doing(w)' = Doing(w)
      BY <1>2, <2>1, <2>2 DEF GetProbe, Doing, Resting
    <3>2. Doings' = Doings
      BY <2>1, <3>1, Unmoved
    <3>. QED
      BY <1>2, <3>2 DEF GetProbe, disk, faults, past, Store!vars, Doings
  <2>3. CASE ~(meta[key[w]] # "none" /\ bin[key[w]] # "none")
    <3>1. Doing(w)' = "making"
      BY <1>2, <2>3 DEF GetProbe, Doing, Resting
    <3>2. Store!Miss(w)
      BY <1>2, <2>1, <2>3, <3>1 DEF GetProbe, disk, faults, past, Store!Miss, Store!Turn, Doings
    <3>. QED
      BY <3>2 DEF Store!Next
  <2>. QED
    BY <2>2, <2>3
<1>3. ASSUME NEW w \in Workers, GetReadMeta(w) PROVE Goal
  <2>1. Doings' = [Doings EXCEPT ![w] = Doing(w)'] /\ Doing(w) = "looking"
    <3>1. PICK l : pc' = [pc EXCEPT ![w] = l]
      BY <1>3 DEF GetReadMeta
    <3>2. Doing(w) = "looking"
      BY <1>3 DEF GetReadMeta, Doing, Resting
    <3>. QED
      BY <1>3, <3>1, <3>2, Turned DEF GetReadMeta, session
  <2>2. Doing(w)' = Doing(w)
    BY <1>3, <2>1 DEF GetReadMeta, Doing, Resting
  <2>3. Doings' = Doings
    BY <2>1, <2>2, Unmoved
  <2>. QED
    BY <1>3, <2>3 DEF GetReadMeta, disk, faults, past, Store!vars, Doings
<1>4. ASSUME NEW w \in Workers, GetVerify(w) PROVE Goal
  <2>1. Doings' = [Doings EXCEPT ![w] = Doing(w)'] /\ Doing(w) = "looking"
    <3>1. PICK l : pc' = [pc EXCEPT ![w] = l]
      BY <1>4 DEF GetVerify
    <3>2. Doing(w) = "looking"
      BY <1>4 DEF GetVerify, Doing, Resting
    <3>. QED
      BY <1>4, <3>1, <3>2, Turned DEF GetVerify, session
  <2>2. CASE bin[key[w]] = hash[w]
    <3>1. Doing(w)' = "holding"
      BY <1>4, <2>2 DEF GetVerify, Doing, Resting
    <3>2. bin[key[w]] \in Content
      BY <1>4, <2>2 DEF GetVerify, OrphanInv, File
    <3>3. bin[key[w]] \in Store!Taken(key[w])
      BY <1>4, <2>2, <3>2 DEF GetVerify, TornInv, AlteredInv, Content,
         Store!Taken, Store!Outputs
    <3>4. Store!Hit(w)
      BY <1>4, <2>1, <2>2, <3>1, <3>3 DEF GetVerify, disk, faults, past, Store!Hit, Store!Turn, Doings
    <3>. QED
      BY <3>4 DEF Store!Next
  <2>3. CASE bin[key[w]] # hash[w]
    <3>1. Doing(w)' = Doing(w)
      BY <1>4, <2>1, <2>3 DEF GetVerify, Doing, Resting
    <3>2. Doings' = Doings
      BY <2>1, <3>1, Unmoved
    <3>. QED
      BY <1>4, <2>3, <3>2 DEF GetVerify, disk, faults, past, Store!vars, Doings
  <2>. QED
    BY <2>2, <2>3
<1>5. ASSUME NEW w \in Workers, QuarantineMeta(w) PROVE Goal
  <2>1. Doings' = [Doings EXCEPT ![w] = Doing(w)'] /\ Doing(w) = "looking"
    <3>1. PICK l : pc' = [pc EXCEPT ![w] = l]
      BY <1>5 DEF QuarantineMeta
    <3>2. Doing(w) = "looking"
      BY <1>5 DEF QuarantineMeta, Doing, Resting
    <3>. QED
      BY <1>5, <3>1, <3>2, Turned DEF QuarantineMeta, session
  <2>2. Doing(w)' = "making"
    BY <1>5 DEF QuarantineMeta, Doing, Resting
  <2>3. UNCHANGED <<bin, key, tainted>> /\ (happened' \cap {"damage", "clear"} # {}
                                            <=> happened \cap {"damage", "clear"} # {})
    BY <1>5 DEF QuarantineMeta, past, Mishap
  <2>4. Store!Miss(w)
    BY <2>1, <2>2, <2>3 DEF Store!Miss, Store!Turn, Doings
  <2>. QED
    BY <2>4 DEF Store!Next
<1>6. ASSUME NEW w \in Workers, QuarantineBin(w) PROVE Goal
  <2>1. Doings' = Doings
    <3>1. pc' = [pc EXCEPT ![w] = "compile"] /\ UNCHANGED mode
      BY <1>6 DEF QuarantineBin, session
    <3>2. Doing(w)' = Doing(w)
      BY <1>6, <3>1 DEF QuarantineBin, Doing, Resting
    <3>. QED
      BY <3>1, <3>2, Turned, Unmoved
  <2>2. CASE bin' = [bin EXCEPT ![key[w]] = "none"] /\ UNCHANGED past
    <3>1. happened \cap {"damage", "clear"} # {} \/ ~PrivateOutputs
      BY <1>6, FaultAssumption DEF QuarantineBin, AlarmInv
    <3>2. Store!Remove(key[w])
      BY <1>6, <2>1, <2>2, <3>1 DEF QuarantineBin, session, past, Store!Remove, Doings
    <3>. QED
      BY <3>2 DEF Store!Next
  <2>3. CASE Mishap("failure") /\ UNCHANGED <<bin, tainted>>
    BY <1>6, <2>1, <2>3 DEF QuarantineBin, Mishap, Store!vars, Doings
  <2>. QED
    BY <1>6, <2>2, <2>3 DEF QuarantineBin
<1>7. ASSUME NEW w \in Workers, UseHit(w) PROVE Goal
  <2>1. Doings' = [Doings EXCEPT ![w] = Doing(w)'] /\ Doing(w) = "holding"
    <3>1. PICK l : pc' = [pc EXCEPT ![w] = l]
      BY <1>7 DEF UseHit
    <3>2. Doing(w) = "holding"
      BY <1>7 DEF UseHit, Doing, Resting
    <3>. QED
      BY <1>7, <3>1, <3>2, Turned DEF UseHit, session
  <2>2. CASE bin[key[w]] = "none"
    <3>1. Doing(w)' = "making"
      BY <1>7, <2>2 DEF UseHit, Doing, Resting
    <3>2. Store!Lost(w)
      BY <1>7, <2>1, <2>2, <3>1 DEF UseHit, disk, faults, past, Store!Lost, Store!Turn, Doings
    <3>. QED
      BY <3>2 DEF Store!Next
  <2>3. CASE bin[key[w]] # "none"
    <3>1. Doing(w)' = Doing(w)
      <4>1. pc'[w] = "ready" /\ mode'[SessionOf[w]] = mode[SessionOf[w]]
        BY <1>7, <2>3 DEF UseHit, session
      <4>2. mode[SessionOf[w]] # "off"
        BY <1>7 DEF UseHit, ModeInv, Resting
      <4>. QED
        BY <2>1, <4>1, <4>2 DEF Doing, Resting
    <3>2. Doings' = Doings
      BY <2>1, <3>1, Unmoved
    <3>. QED
      BY <1>7, <3>2 DEF UseHit, disk, faults, past, Store!vars, Doings
  <2>. QED
    BY <2>2, <2>3
<1>8. ASSUME NEW w \in Workers, CompileFails(w) PROVE Goal
  <2>1. Doings' = [Doings EXCEPT ![w] = Doing(w)'] /\ Doing(w) = "making"
    <3>1. PICK l : pc' = [pc EXCEPT ![w] = l]
      BY <1>8 DEF CompileFails
    <3>2. Doing(w) = "making"
      BY <1>8 DEF CompileFails, Doing, Resting
    <3>. QED
      BY <1>8, <3>1, <3>2, Turned DEF CompileFails, session
  <2>2. Doing(w)' = "idle"
    BY <1>8 DEF CompileFails, Doing, Resting
  <2>3. Store!Leave(w)
    BY <1>8, <2>1, <2>2 DEF CompileFails, disk, faults, past, Store!Leave, Store!Turn, Doings
  <2>. QED
    BY <2>3 DEF Store!Next
<1>9. ASSUME NEW w \in Workers, LinkStart(w) PROVE Goal
  <2>1. Doings' = [Doings EXCEPT ![w] = Doing(w)'] /\ Doing(w) = "making"
    <3>1. PICK l : pc' = [pc EXCEPT ![w] = l]
      BY <1>9 DEF LinkStart
    <3>2. Doing(w) = "making"
      BY <1>9 DEF LinkStart, Doing, Resting
    <3>. QED
      BY <1>9, <3>1, <3>2, Turned DEF LinkStart, session
  <2>2. Doing(w)' = Doing(w)
    BY <1>9, <2>1 DEF LinkStart, Doing, Resting
  <2>3. Doings' = Doings
    BY <2>1, <2>2, Unmoved
  <2>. QED
    BY <1>9, <2>3 DEF LinkStart, disk, faults, past, Store!vars, Doings
<1>10. ASSUME NEW w \in Workers, LinkEnd(w) PROVE Goal
  <2>1. Doings' = [Doings EXCEPT ![w] = Doing(w)'] /\ Doing(w) = "making"
    <3>1. PICK l : pc' = [pc EXCEPT ![w] = l]
      BY <1>10 DEF LinkEnd
    <3>2. Doing(w) = "making"
      BY <1>10 DEF LinkEnd, Doing, Resting
    <3>. QED
      BY <1>10, <3>1, <3>2, Turned DEF LinkEnd, session
  <2>2. CASE mode[SessionOf[w]] = "off"
    <3>1. Doing(w)' = "own"
      BY <1>10, <2>2 DEF LinkEnd, Doing, Resting
    <3>2. Store!Keep(w)
      BY <1>10, <2>1, <2>2, <3>1 DEF LinkEnd, disk, faults, past, Store!Keep, Store!Turn, Doings
    <3>. QED
      BY <3>2 DEF Store!Next
  <2>3. CASE mode[SessionOf[w]] # "off"
    <3>1. Doing(w)' = Doing(w)
      BY <1>10, <2>1, <2>3 DEF LinkEnd, Doing, Resting
    <3>2. Doings' = Doings
      BY <2>1, <3>1, Unmoved
    <3>. QED
      BY <1>10, <3>2 DEF LinkEnd, disk, faults, past, Store!vars, Doings
  <2>. QED
    BY <2>2, <2>3
<1>11. ASSUME NEW w \in Workers, LinkFails(w) PROVE Goal
  <2>1. Doings' = [Doings EXCEPT ![w] = Doing(w)'] /\ Doing(w) = "making"
    <3>1. PICK l : pc' = [pc EXCEPT ![w] = l]
      BY <1>11 DEF LinkFails
    <3>2. Doing(w) = "making"
      BY <1>11 DEF LinkFails, Doing, Resting
    <3>. QED
      BY <1>11, <3>1, <3>2, Turned DEF LinkFails, session
  <2>2. Doing(w)' = "idle"
    BY <1>11 DEF LinkFails, Doing, Resting
  <2>3. Store!Leave(w)
    BY <1>11, <2>1, <2>2 DEF LinkFails, disk, faults, past, Store!Leave, Store!Turn, Doings
  <2>. QED
    BY <2>3 DEF Store!Next
<1>12. ASSUME NEW w \in Workers, PutProbe(w) PROVE Goal
  <2>1. Doings' = [Doings EXCEPT ![w] = Doing(w)'] /\ Doing(w) = "making"
    <3>1. PICK l : pc' = [pc EXCEPT ![w] = l]
      BY <1>12 DEF PutProbe
    <3>2. Doing(w) = "making"
      BY <1>12 DEF PutProbe, Doing, Resting
    <3>. QED
      BY <1>12, <3>1, <3>2, Turned DEF PutProbe, session
  <2>2. CASE bin[key[w]] = "none"
    <3>1. Doing(w)' = Doing(w)
      BY <1>12, <2>1, <2>2 DEF PutProbe, Doing, Resting
    <3>2. Doings' = Doings
      BY <2>1, <3>1, Unmoved
    <3>. QED
      BY <1>12, <3>2 DEF PutProbe, disk, faults, past, Store!vars, Doings
  <2>3. CASE bin[key[w]] # "none"
    <3>1. Doing(w)' = "holding"
      <4>1. pc'[w] = "ready" /\ mode'[SessionOf[w]] = mode[SessionOf[w]]
        BY <1>12, <2>3 DEF PutProbe, session
      <4>2. mode[SessionOf[w]] # "off"
        BY <1>12 DEF PutProbe, ModeInv, Resting
      <4>. QED
        BY <4>1, <4>2 DEF Doing, Resting
    <3>2. Store!Found(w)
      BY <1>12, <2>1, <2>3, <3>1 DEF PutProbe, disk, faults, past, Store!Found, Store!Turn, Doings
    <3>. QED
      BY <3>2 DEF Store!Next
  <2>. QED
    BY <2>2, <2>3
<1>13. ASSUME NEW w \in Workers, PutCopy(w) PROVE Goal
  <2>1. Doings' = [Doings EXCEPT ![w] = Doing(w)'] /\ Doing(w) = "making"
    <3>1. PICK l : pc' = [pc EXCEPT ![w] = l]
      BY <1>13 DEF PutCopy
    <3>2. Doing(w) = "making"
      BY <1>13 DEF PutCopy, Doing, Resting
    <3>. QED
      BY <1>13, <3>1, <3>2, Turned DEF PutCopy, session
  <2>2. CASE out[SessionOf[w]][key[w]] = "none"
    <3>1. Doing(w)' = "idle"
      BY <1>13, <2>2 DEF PutCopy, Doing, Resting
    <3>2. Store!Leave(w)
      BY <1>13, <2>1, <2>2, <3>1 DEF PutCopy, disk, faults, past, Store!Leave, Store!Turn, Doings
    <3>. QED
      BY <3>2 DEF Store!Next
  <2>3. CASE out[SessionOf[w]][key[w]] # "none"
    <3>1. Doing(w)' = Doing(w)
      BY <1>13, <2>1, <2>3 DEF PutCopy, Doing, Resting
    <3>2. Doings' = Doings
      BY <2>1, <3>1, Unmoved
    <3>. QED
      BY <1>13, <3>2 DEF PutCopy, disk, faults, past, Store!vars, Doings
  <2>. QED
    BY <2>2, <2>3
<1>14. ASSUME NEW w \in Workers, PutRename(w) PROVE Goal
  <2>1. Doings' = [Doings EXCEPT ![w] = Doing(w)'] /\ Doing(w) = "making"
    <3>1. PICK l : pc' = [pc EXCEPT ![w] = l]
      BY <1>14 DEF PutRename
    <3>2. Doing(w) = "making"
      BY <1>14 DEF PutRename, Doing, Resting
    <3>. QED
      BY <1>14, <3>1, <3>2, Turned DEF PutRename, session
  <2>2. CASE held[w] = "none"
    <3>1. Doing(w)' = "idle"
      BY <1>14, <2>2 DEF PutRename, Doing, Resting
    <3>2. Store!Leave(w)
      BY <1>14, <2>1, <2>2, <3>1 DEF PutRename, disk, faults, past, Store!Leave, Store!Turn, Doings
    <3>. QED
      BY <3>2 DEF Store!Next
  <2>3. CASE held[w] # "none"
    <3>1. Doing(w)' = "holding"
      BY <1>14, <2>3 DEF PutRename, Doing, Resting
    <3>2. held[w] \in Store!Taken(key[w])
      BY <1>14, <2>3 DEF PutRename, TornInv, AlteredInv, File, Content,
         Store!Taken, Store!Outputs
    <3>3. \/ bin[key[w]] \in {"none", "rotten", held[w]}
          \/ ~PrivateOutputs \/ key[w] \in tainted
      BY <1>14, <2>3 DEF PutRename, TornInv, AlteredInv, File, Content
    <3>4. bin' = [bin EXCEPT ![key[w]] = held[w]] /\ key' = key /\ UNCHANGED past
      BY <1>14, <2>3 DEF PutRename, faults
    <3>5. Store!Fill(w)
      BY <2>1, <3>1, <3>2, <3>3, <3>4 DEF past, Store!Fill, Store!Turn, Doings
    <3>. QED
      BY <3>5 DEF Store!Next
  <2>. QED
    BY <2>2, <2>3
<1>15. ASSUME NEW w \in Workers, PutHash(w) PROVE Goal
  <2>1. Doings' = [Doings EXCEPT ![w] = Doing(w)'] /\ Doing(w) = "holding"
    <3>1. PICK l : pc' = [pc EXCEPT ![w] = l]
      BY <1>15 DEF PutHash
    <3>2. Doing(w) = "holding"
      BY <1>15 DEF PutHash, Doing, Resting
    <3>. QED
      BY <1>15, <3>1, <3>2, Turned DEF PutHash, session
  <2>2. CASE bin[key[w]] = "none"
    <3>1. Doing(w)' = "idle"
      BY <1>15, <2>2 DEF PutHash, Doing, Resting
    <3>2. Store!Leave(w)
      BY <1>15, <2>1, <2>2, <3>1 DEF PutHash, disk, faults, past, Store!Leave, Store!Turn, Doings
    <3>. QED
      BY <3>2 DEF Store!Next
  <2>3. CASE bin[key[w]] # "none"
    <3>1. Doing(w)' = Doing(w)
      BY <1>15, <2>1, <2>3 DEF PutHash, Doing, Resting
    <3>2. Doings' = Doings
      BY <2>1, <3>1, Unmoved
    <3>. QED
      BY <1>15, <3>2 DEF PutHash, disk, faults, past, Store!vars, Doings
  <2>. QED
    BY <2>2, <2>3
<1>16. ASSUME NEW w \in Workers, PutMeta(w) PROVE Goal
  <2>1. pc' = [pc EXCEPT ![w] = "ready"] /\ UNCHANGED mode
    BY <1>16 DEF PutMeta, session
  <2>2. mode[SessionOf[w]] # "off"
    BY <1>16 DEF PutMeta, ModeInv, Resting
  <2>3. Doing(w) = "holding"
    BY <1>16 DEF PutMeta, Doing, Resting
  <2>4. Doing(w)' = "holding"
    BY <2>1, <2>2 DEF Doing, Resting
  <2>5. Doings' = Doings
    BY <2>1, <2>3, <2>4, Turned, Unmoved
  <2>. QED
    BY <1>16, <2>5 DEF PutMeta, disk, faults, past, Store!vars, Doings
<1>17. ASSUME NEW w \in Workers, Run(w) PROVE Goal
  <2>1. pc' = [pc EXCEPT ![w] = "done"] /\ UNCHANGED mode
    BY <1>17 DEF Run
  <2>2. Doing(w) \in {"own", "holding"} /\ Doing(w)' = "idle"
    BY <1>17, <2>1 DEF Run, Doing, Resting
  <2>3. Doings' = [Doings EXCEPT ![w] = "idle"]
    BY <2>1, <2>2, Turned
  <2>4. Store!Leave(w)
    BY <1>17, <2>2, <2>3 DEF Run, disk, faults, past, Store!Leave, Store!Turn, Doings
  <2>. QED
    BY <2>4 DEF Store!Next
<1>18. ASSUME NEW s \in Sessions, Forget(s), UNCHANGED tainted,
              happened' = happened \/ happened' = happened \cup {"crash"}
       PROVE  Goal
  <2> DEFINE dead == WorkersOf(s)
  <2>1. \A w \in Workers : Doing(w)' = IF w \in dead THEN "idle" ELSE Doing(w)
    <3> SUFFICES ASSUME NEW w \in Workers
                 PROVE  Doing(w)' = IF w \in dead THEN "idle" ELSE Doing(w)
      OBVIOUS
    <3>1. CASE w \in dead
      BY <1>18, <3>1 DEF Forget, WorkersOf, Doing, Resting
    <3>2. CASE w \notin dead
      <4>1. pc'[w] = pc[w] /\ mode'[SessionOf[w]] = mode[SessionOf[w]]
        BY <1>18, <3>2 DEF Forget, WorkersOf
      <4>2. Doing(w)' = Doing(w)
        BY <4>1, Zenon DEF Doing
      <4>. QED
        BY <3>2, <4>2
    <3>. QED
      BY <3>1, <3>2
  <2>2. Store!Die(dead)
    <3>1. happened' \cap {"damage", "clear"} = happened \cap {"damage", "clear"}
      BY <1>18
    <3>. QED
      BY <1>18, <2>1, <3>1 DEF Forget, disk, Store!Die, Doings
  <2>3. dead \in SUBSET Workers
    BY DEF WorkersOf
  <2>. QED
    BY <2>2, <2>3 DEF Store!Next
<1>19. ASSUME NEW s \in Sessions, EndSession(s) \/ Crash(s) PROVE Goal
  BY <1>18, <1>19 DEF EndSession, Crash, faults, past, Mishap
<1>20. ASSUME NEW k \in Keys, Damage(k) PROVE Goal
  <2>1. Doings' = Doings
    BY <1>20 DEF Damage, session, Doings, Doing
  <2>2. "damage" \in happened'
    BY <1>20 DEF Damage, Mishap
  <2>3. ASSUME NEW w \in Workers, key[w] = k, pc[w] \in {"rename", "rehash"}
        PROVE  Doing(w) \in {"making", "holding"}
    BY <2>3 DEF Doing, Resting
  <2>4. tainted' = tainted
        \/ /\ \E w \in Workers : key[w] = k /\ Doing(w) \in {"making", "holding"}
           /\ tainted' = tainted \cup {k}
    <3>1. CASE \E w \in Workers : key[w] = k /\ pc[w] \in {"rename", "rehash"}
      BY <1>20, <2>3, <3>1 DEF Damage
    <3>2. CASE ~ \E w \in Workers : key[w] = k /\ pc[w] \in {"rename", "rehash"}
      <4>1. {j \in {k} : \E w \in Workers : key[w] = k /\ pc[w] = "rehash"} = {}
        BY <3>2
      <4>2. tainted \cup {} = tainted
        OBVIOUS
      <4>3. ~ \E w \in Workers : key[w] = k /\ pc[w] = "rename"
        BY <3>2
      <4>. QED
        BY <1>20, <4>1, <4>2, <4>3, Zenon DEF Damage
    <3>. QED
      BY <3>1, <3>2
  <2>5. bin' = bin \/ (bin[k] # "none" /\ bin' = [bin EXCEPT ![k] = "rotten"])
    <3>1. CASE bin[k] # "none" /\ bin' = [bin EXCEPT ![k] = "rotten"]
      BY <3>1
    <3>2. CASE bin' = bin
      BY <3>2
    <3>. QED
      BY <1>20, <3>1, <3>2 DEF Damage, disk
  <2>6. key' = key
    BY <1>20 DEF Damage
  <2>7. Store!Alter(k)
    BY <2>1, <2>2, <2>4, <2>5, <2>6 DEF Store!Alter, Doings
  <2>. QED
    BY <2>7 DEF Store!Next
<1>21. ASSUME ClearStart PROVE Goal
  <2>1. Doings' = Doings
    BY <1>21 DEF ClearStart, session, worker, Doings, Doing
  <2>2. "clear" \in happened'
    BY <1>21 DEF ClearStart, Mishap
  <2>3. Store!Doom
    BY <1>21, <2>1, <2>2 DEF ClearStart, disk, worker, Store!Doom, Doings
  <2>. QED
    BY <2>3 DEF Store!Next
<1>22. ASSUME NEW f \in Names, ClearNext(f) PROVE Goal
  <2>1. Doings' = Doings
    BY <1>22 DEF ClearNext, session, Doings, Doing
  <2>2. "clear" \in happened
    BY <1>22 DEF ClearNext, OrphanInv
  <2>3. CASE f[1] = "bin"
    <3>1. f[2] \in Keys
      BY <2>3 DEF Names
    <3>2. Store!Remove(f[2])
      BY <1>22, <2>1, <2>2, <2>3 DEF ClearNext, past, Store!Remove, Doings
    <3>. QED
      BY <3>1, <3>2 DEF Store!Next
  <2>4. CASE f[1] # "bin"
    BY <1>22, <2>1, <2>4 DEF ClearNext, past, Store!vars, Doings
  <2>. QED
    BY <2>3, <2>4
<1>23. CASE UNCHANGED vars
  <2>1. Doings' = Doings
    BY <1>23 DEF vars, session, worker, Doings, Doing
  <2>. QED
    BY <1>23, <2>1 DEF vars, disk, worker, faults, past, Store!vars, Doings
<1>24. ASSUME NEW w \in Workers, PutRaises(w) PROVE Goal
  <2>1. pc' = [pc EXCEPT ![w] = "raised"] /\ UNCHANGED mode
    BY <1>24 DEF PutRaises, session
  <2>2. Doing(w) \in {"making", "holding"} /\ Doing(w)' = "idle"
    BY <1>24, <2>1 DEF PutRaises, Doing, Resting
  <2>3. Doings' = [Doings EXCEPT ![w] = "idle"]
    BY <2>1, <2>2, Turned
  <2>4. Store!Leave(w)
    BY <1>24, <2>2, <2>3 DEF PutRaises, disk, Mishap, Store!Leave, Store!Turn, Doings
  <2>. QED
    BY <2>4 DEF Store!Next
<1>. QED
  BY <1>1, <1>2, <1>3, <1>4, <1>5, <1>6, <1>7, <1>8, <1>9, <1>10, <1>11, <1>12, <1>13, <1>14, <1>15, <1>16, <1>17, <1>19, <1>20, <1>21, <1>22, <1>23, <1>24
  DEF Next, Acquire, Get, Compile, Put, Environment

\* The store starts empty, undisturbed, and with nobody at work.
LEMMA StoreInit == Init => Store!Init
<1> SUFFICES ASSUME Init PROVE Store!Init
  OBVIOUS
<1>1. \A w \in Workers : Doing(w) = "idle"
  BY DEF Init, Doing, Resting
<1>. QED
  BY <1>1 DEF Init, Store!Init

\* Whatever the threads, processes, kills, failures, damage and clears: to its users the
\* layer of two files per key, probes, renames and hashes is a store whose lookup
\* and put take one step each, and whose entries, for sessions of one worker,
\* never change.
THEOREM CacheImplementsStore == Spec => ImplementsStore
<1>1. Init => ModeInv /\ TornInv /\ AlteredInv /\ OrphanInv /\ AlarmInv
  BY DEF Init, ModeInv, Resting, TornInv, AlteredInv, OrphanInv, OrphansHaveOwners, Orphan, AlarmInv
<1>. QED
  BY <1>1, TypeCorrect, ModeStep, TornStep, AlteredStep, OrphanStep, AlarmStep,
     StoreInit, StoreStep, PTL DEF Spec, ImplementsStore, Store!Spec
=============================================================================
