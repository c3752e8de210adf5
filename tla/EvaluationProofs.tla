-------------------------- MODULE EvaluationProofs --------------------------
(***************************************************************************)
(* Proofs about Evaluation, for any threads, sessions, pipelines, builds   *)
(* and baselines, and any number of transient failures, damaged files and  *)
(* clears.                                                                 *)
(***************************************************************************)
EXTENDS Evaluation, TLAPS

\* Concluding an evaluation changes one place of one memory, and one worker.
LEMMA ConcludeEffect ==
    ASSUME TypeOK, NEW w \in Workers, NEW r \in Results, Conclude(w, r)
    PROVE  /\ memo' \in [Sessions -> [Keys -> Results \cup {"none"}]]
           /\ pc' \in [Workers -> Labels]
           /\ \A s \in Sessions, k \in Keys :
                 memo'[s][k] = IF s = SessionOf[w] /\ k = key[w] THEN r ELSE memo[s][k]
           /\ \A v \in Workers : pc'[v] = IF v = w THEN "rest" ELSE pc[v]
BY SessionAssumption DEF TypeOK, Conclude, Goto, Labels

\* What get_compilation leaves is nothing, or what it found with or without metadata.
LEMMA LeftType ==
    ASSUME TypeOK, NEW w \in Workers, NEW left \in Left(w)
    PROVE  /\ left \in Executables \cup {Missing}
           /\ left = Missing \/ /\ left.build = comp[key[w]].build
                                /\ left.bytes = comp[key[w]].bytes
                                /\ left.seal \in {comp[key[w]].seal, "none"}
           /\ comp[key[w]].seal # "other" => left = comp[key[w]]
<1> DEFINE file == comp[key[w]]
<1>1. file \in Executables \cup {Missing}
  BY DEF TypeOK
<1> HIDE DEF file
<1>2. \/ left = file
      \/ file.seal = "other" /\ left \in {Missing, file, [file EXCEPT !.seal = "none"]}
  BY DEF Left, file
<1>3. CASE left = file
  BY <1>1, <1>3 DEF Executables, Missing, file
<1>4. CASE left = Missing /\ file.seal = "other"
  BY <1>4 DEF file
<1>5. CASE left = [file EXCEPT !.seal = "none"] /\ file.seal = "other"
  <2>1. file \in Executables
    BY <1>1, <1>5 DEF Missing
  <2>2. /\ left \in Executables
        /\ left.build = file.build /\ left.bytes = file.bytes /\ left.seal = "none"
    BY <1>5, <2>1 DEF Executables
  <2>. QED
    BY <1>5, <2>2 DEF file
<1>. QED
  BY <1>2, <1>3, <1>4, <1>5

\* Publishing keeps a file that is there, or puts the session's own in its place.
LEMMA PutEffect ==
    ASSUME TypeOK, NEW w \in Workers, NEW left \in Left(w),
           NEW seal \in {"match", "none"}, Put(w, left, seal)
    PROVE  /\ comp' \in [Keys -> Executables \cup {Missing}]
           /\ spoiled' \in [Keys -> SUBSET {"torn", "rotten", "meta"}]
           /\ \A k \in Keys : k # key[w] => comp'[k] = comp[k]
           /\ \A k \in Keys : spoiled[k] \subseteq spoiled'[k]
           /\ \/ comp'[key[w]] = left
              \/ /\ left = Missing
                 /\ comp'[key[w]] \in Executables
                 /\ comp'[key[w]].build = conf[SessionOf[w]].build
                 /\ comp'[key[w]].bytes # "rotten"
                 /\ comp'[key[w]].bytes = "torn" => "torn" \in spoiled'[key[w]]
                 /\ comp'[key[w]].seal = seal
           /\ Writes(SessionOf[w]) => comp'[key[w]] # Missing
<1>. DEFINE k0 == key[w]
            s0 == SessionOf[w]
<1>1. k0 \in Keys /\ s0 \in Sessions /\ conf[s0].build \in Builds /\ conf[s0].build # "none"
  BY SessionAssumption, ConfigAssumption DEF TypeOK, Builds
<1>2. CASE Writes(s0) /\ left = Missing
  <2>1. PICK bytes \in Linked(w) :
            /\ comp' = [comp EXCEPT ![k0] =
                            [build |-> conf[s0].build, bytes |-> bytes, seal |-> seal]]
            /\ Spoil(k0, bytes)
    BY <1>2 DEF Put
  <2>2. bytes \in {"whole", "torn"}
    BY DEF Linked
  <2>3. [build |-> conf[s0].build, bytes |-> bytes, seal |-> seal] \in Executables
    BY <1>1, <2>2 DEF Executables
  <2>4. /\ comp'[k0] = [build |-> conf[s0].build, bytes |-> bytes, seal |-> seal]
        /\ \A k \in Keys : k # k0 => comp'[k] = comp[k]
        /\ comp' \in [Keys -> Executables \cup {Missing}]
    BY <1>1, <2>1, <2>3 DEF TypeOK
  <2>5. /\ spoiled' \in [Keys -> SUBSET {"torn", "rotten", "meta"}]
        /\ \A k \in Keys : spoiled[k] \subseteq spoiled'[k]
        /\ bytes = "torn" => "torn" \in spoiled'[k0]
    BY <1>1, <2>1 DEF TypeOK, Spoil
  <2>. QED
    BY <1>1, <1>2, <2>2, <2>3, <2>4, <2>5 DEF Missing
<1>3. CASE ~(Writes(s0) /\ left = Missing)
  <2>1. comp' = [comp EXCEPT ![k0] = left] /\ UNCHANGED spoiled
    BY <1>3 DEF Put
  <2>. QED
    BY <1>1, <1>3, <2>1, LeftType DEF TypeOK
<1>. QED
  BY <1>2, <1>3

\* What an acquisition does: it changes at most the executable of its key, and the
\* worker goes on with one, or comes to rest.
Acquired(w) ==
    /\ pc[w] = "acquire" \/ Goto(w, "rest")
    /\ UNCHANGED <<conf, mode, verdict, timing, key, judged, raced, transients, damages, clears>>
    /\ \/ Goto(w, "lookup") /\ UNCHANGED memo
       \/ Goto(w, "rest") /\ UNCHANGED memo
       \/ Conclude(w, "uncompilable")
    /\ comp' \in [Keys -> Executables \cup {Missing}]
    /\ spoiled' \in [Keys -> SUBSET {"torn", "rotten", "meta"}]
    /\ \A k \in Keys : k # key[w] => comp'[k] = comp[k]
    /\ \A k \in Keys : spoiled[k] \subseteq spoiled'[k]
    /\ \/ comp'[key[w]] \in Left(w)
       \/ /\ comp'[key[w]].build = conf[SessionOf[w]].build
          /\ comp'[key[w]] # Missing
          /\ comp'[key[w]].bytes # "rotten"
          /\ comp'[key[w]].bytes = "torn" => "torn" \in spoiled'[key[w]]
          /\ comp'[key[w]].seal # "other"
    /\ Goto(w, "lookup") /\ Writes(SessionOf[w]) => comp'[key[w]] # Missing

LEMMA AcquireEffect ==
    ASSUME TypeOK, NEW w \in Workers, Acquire(w) \/ Raise(w)
    PROVE  Acquired(w)
<1>0. key[w] \in Keys /\ "rest" # "lookup" /\ pc \in [Workers -> Labels]
  BY DEF TypeOK
<1>01. ~(Goto(w, "rest") /\ Goto(w, "lookup"))
  BY <1>0 DEF Goto
<1>1. ASSUME Acquire(w), Found(w), Goto(w, "lookup"), UNCHANGED <<comp, memo, spoiled>>
      PROVE  Acquired(w)
  <2>1. comp[key[w]] \in Left(w) /\ comp[key[w]] # Missing
    BY <1>1 DEF Found, Left, Missing
  <2>. QED
    BY <1>0, <1>1, <2>1 DEF Acquire, TypeOK, setup, faults, Acquired
<1>2. ASSUME NEW left \in Left(w), NEW seal \in {"match", "none"}, Put(w, left, seal)
      PROVE  \/ comp'[key[w]] \in Left(w)
             \/ /\ comp'[key[w]].build = conf[SessionOf[w]].build
                /\ comp'[key[w]] # Missing
                /\ comp'[key[w]].bytes # "rotten"
                /\ comp'[key[w]].bytes = "torn" => "torn" \in spoiled'[key[w]]
                /\ comp'[key[w]].seal # "other"
  <2>1. Missing \notin Executables
    BY ConfigAssumption DEF Executables, Missing
  <2>. QED
    BY <1>2, <2>1, PutEffect
<1>3. ASSUME NEW left \in Left(w), comp' = [comp EXCEPT ![key[w]] = left], UNCHANGED spoiled
      PROVE  /\ comp' \in [Keys -> Executables \cup {Missing}]
             /\ comp'[key[w]] = left
             /\ \A k \in Keys : k # key[w] => comp'[k] = comp[k]
             /\ spoiled' \in [Keys -> SUBSET {"torn", "rotten", "meta"}]
             /\ \A k \in Keys : spoiled[k] \subseteq spoiled'[k]
  BY <1>0, <1>3, LeftType DEF TypeOK
<1>4. ASSUME Acquire(w), NEW left \in Left(w), Put(w, left, "match"), Goto(w, "lookup"),
             UNCHANGED memo
      PROVE  Acquired(w)
  BY <1>01, <1>2, <1>4, PutEffect DEF Acquire, setup, faults, Acquired
<1>5. ASSUME Acquire(w), NEW left \in Left(w), Conclude(w, "uncompilable"),
             comp' = [comp EXCEPT ![key[w]] = left], UNCHANGED spoiled
      PROVE  Acquired(w)
  <2>1. Goto(w, "rest")
    BY <1>5 DEF Conclude
  <2>. QED
    BY <1>01, <1>3, <1>5, <2>1 DEF Acquire, setup, faults, Acquired
<1>6. CASE Acquire(w)
  BY <1>1, <1>4, <1>5, <1>6 DEF Acquire
<1>7. ASSUME Raise(w)
      PROVE  Goto(w, "rest") /\ UNCHANGED <<conf, mode, verdict, timing, memo, key, judged, raced, faults>>
  BY <1>7 DEF Raise, setup, faults
<1>8. ASSUME Raise(w), NEW left \in Left(w), Put(w, left, "none")
      PROVE  Acquired(w)
  BY <1>0, <1>01, <1>2, <1>7, <1>8, PutEffect DEF TypeOK, faults, Acquired
<1>9. ASSUME Raise(w), NEW left \in Left(w), comp' = [comp EXCEPT ![key[w]] = left],
             UNCHANGED spoiled
      PROVE  Acquired(w)
  BY <1>0, <1>01, <1>3, <1>7, <1>9 DEF TypeOK, faults, Acquired
<1>10. ASSUME Raise(w), UNCHANGED <<comp, spoiled>> PROVE Acquired(w)
  <2>1. comp[key[w]] \in Left(w)
    BY DEF Left
  <2>. QED
    BY <1>0, <1>01, <1>7, <1>10, <2>1 DEF TypeOK, faults, Acquired
<1>11. CASE Raise(w)
  BY <1>8, <1>9, <1>10, <1>11 DEF Raise
<1>. QED
  BY <1>6, <1>11

\* What a run of a file adds to the history of its key.
LEMMA SpoilEffect ==
    ASSUME TypeOK, NEW k \in Keys, NEW bytes, Spoil(k, bytes)
    PROVE  /\ spoiled' \in [Keys -> SUBSET {"torn", "rotten", "meta"}]
           /\ \A j \in Keys : spoiled[j] \subseteq spoiled'[j]
           /\ bytes = "torn" => "torn" \in spoiled'[k]
BY DEF TypeOK, Spoil

\* What damage does: it alters an entry, and remembers it if it is an executable's.
Damaged(k) ==
    /\ UNCHANGED <<conf, mode, memo, pc, key, judged, raced, transients, clears>>
    /\ damages' \in 0..MaxDamage
    /\ verdict' \in {verdict, [verdict EXCEPT ![k] = "junk"]}
    /\ timing' \in {timing, [timing EXCEPT ![k] = "junk"]}
    /\ comp' \in [Keys -> Executables \cup {Missing}]
    /\ spoiled' \in [Keys -> SUBSET {"torn", "rotten", "meta"}]
    /\ \A j \in Keys : spoiled[j] \subseteq spoiled'[j]
    /\ \A j \in Keys : \/ comp'[j] = comp[j]
                       \/ /\ comp[j] # Missing /\ comp'[j] # Missing
                          /\ comp'[j].build = comp[j].build
                          /\ \/ comp'[j].bytes = comp[j].bytes
                             \/ comp'[j].bytes = "rotten" /\ "rotten" \in spoiled'[j]
                          /\ spoiled'[j] # {}

LEMMA DamageEffect ==
    ASSUME TypeOK, NEW k \in Keys, Damage(k)
    PROVE  Damaged(k)
<1>0. Missing \notin Executables
  BY ConfigAssumption DEF Executables, Missing
<1>00. /\ UNCHANGED <<conf, mode, memo, pc, key, judged, raced, transients, clears>>
       /\ damages' \in 0..MaxDamage
  BY BoundAssumption DEF Damage, TypeOK, setup
<1>1. CASE /\ UNCHANGED <<comp, spoiled>>
           /\ verdict' \in {verdict, [verdict EXCEPT ![k] = "junk"]}
           /\ timing' \in {timing, [timing EXCEPT ![k] = "junk"]}
  BY <1>00, <1>1 DEF TypeOK, Damaged
<1>2. ASSUME comp[k] # Missing, NEW seal \in {"match", "other", "none"},
             comp' = [comp EXCEPT ![k] = [@ EXCEPT !.bytes = "rotten", !.seal = seal]],
             spoiled' = [spoiled EXCEPT ![k] = @ \cup {"rotten"}], UNCHANGED <<verdict, timing>>
      PROVE  Damaged(k)
  <2>1. comp[k] \in Executables
    BY <1>2 DEF TypeOK
  <2>2. /\ [comp[k] EXCEPT !.bytes = "rotten", !.seal = seal] \in Executables
        /\ [comp[k] EXCEPT !.bytes = "rotten", !.seal = seal].build = comp[k].build
        /\ [comp[k] EXCEPT !.bytes = "rotten", !.seal = seal].bytes = "rotten"
    BY <2>1 DEF Executables
  <2>3. comp'[k] = [comp[k] EXCEPT !.bytes = "rotten", !.seal = seal]
    BY <1>2 DEF TypeOK
  <2>. QED
    BY <1>0, <1>00, <1>2, <2>2, <2>3 DEF TypeOK, Damaged
<1>3. ASSUME comp[k].seal # "none", comp' = [comp EXCEPT ![k] = [@ EXCEPT !.seal = "other"]],
             spoiled' = [spoiled EXCEPT ![k] = @ \cup {"meta"}], UNCHANGED <<verdict, timing>>
      PROVE  Damaged(k)
  <2>1. comp[k] \in Executables
    BY <1>3 DEF TypeOK, Missing
  <2>2. /\ [comp[k] EXCEPT !.seal = "other"] \in Executables
        /\ [comp[k] EXCEPT !.seal = "other"].build = comp[k].build
        /\ [comp[k] EXCEPT !.seal = "other"].bytes = comp[k].bytes
    BY <2>1 DEF Executables
  <2>3. comp'[k] = [comp[k] EXCEPT !.seal = "other"]
    BY <1>3 DEF TypeOK
  <2>. QED
    BY <1>0, <1>00, <1>3, <2>1, <2>2, <2>3 DEF TypeOK, Damaged
<1>4. \/ /\ UNCHANGED <<comp, spoiled>>
         /\ verdict' \in {verdict, [verdict EXCEPT ![k] = "junk"]}
         /\ timing' \in {timing, [timing EXCEPT ![k] = "junk"]}
      \/ /\ comp[k] # Missing
         /\ \E seal \in {"match", "other", "none"} :
               comp' = [comp EXCEPT ![k] = [@ EXCEPT !.bytes = "rotten", !.seal = seal]]
         /\ spoiled' = [spoiled EXCEPT ![k] = @ \cup {"rotten"}]
         /\ UNCHANGED <<verdict, timing>>
      \/ /\ comp[k].seal # "none"
         /\ comp' = [comp EXCEPT ![k] = [@ EXCEPT !.seal = "other"]]
         /\ spoiled' = [spoiled EXCEPT ![k] = @ \cup {"meta"}]
         /\ UNCHANGED <<verdict, timing>>
  BY DEF Damage
<1>. QED
  BY <1>1, <1>2, <1>3, <1>4

\* What one run and the timed runs do to all but the layers and the memory.
LEMMA RunEffect ==
    ASSUME TypeOK, NEW w \in Workers, RunOnce(w) \/ Measure(w)
    PROVE  /\ UNCHANGED <<conf, mode, comp, verdict, key, raced, damages, clears>>
           /\ transients' \in 0..MaxTransients /\ (transients' = 0 => transients = 0)
           /\ spoiled' \in [Keys -> SUBSET {"torn", "rotten", "meta"}]
           /\ \A j \in Keys : spoiled[j] \subseteq spoiled'[j]
<1>1. PICK bytes : Spoil(key[w], bytes)
  BY DEF RunOnce, Measure
<1>2. /\ UNCHANGED <<conf, mode, comp, verdict, key, raced, damages, clears>>
      /\ transients' = transients \/ (transients < MaxTransients /\ transients' = transients + 1)
  BY DEF RunOnce, Measure, setup, cache
<1>3. transients' \in 0..MaxTransients /\ (transients' = 0 => transients = 0)
  BY <1>2, BoundAssumption DEF TypeOK
<1>. QED
  BY <1>1, <1>2, <1>3, SpoilEffect DEF TypeOK

\* Every step, faults and restarts included, keeps the types.
LEMMA TypeStep == TypeOK /\ [Next]_vars => TypeOK'
<1> SUFFICES ASSUME TypeOK, [Next]_vars PROVE TypeOK'
  OBVIOUS
<1> USE SessionAssumption, BoundAssumption DEF TypeOK, Labels, Results, Valid, Verdicts,
        Goto, setup, cache, faults, files
<1>0. ASSUME NEW w \in Workers, NEW r \in Results, Conclude(w, r)
      PROVE  memo' \in [Sessions -> [Keys -> Results \cup {"none"}]] /\ pc' \in [Workers -> Labels]
  BY <1>0, ConcludeEffect
<1>1. ASSUME NEW w \in Workers, NEW k \in Keys, Take(w, k) PROVE TypeOK'
  BY <1>1 DEF Take
<1>2. ASSUME NEW w \in Workers, Acquire(w) \/ Raise(w) PROVE TypeOK'
  <2>1. Acquired(w)
    BY <1>2, AcquireEffect
  <2>2. memo' \in [Sessions -> [Keys -> Results \cup {"none"}]] /\ pc' \in [Workers -> Labels]
    BY <2>1, <1>0 DEF Acquired
  <2>. QED
    BY <2>1, <2>2 DEF Acquired
<1>3. ASSUME NEW w \in Workers, LookupVerdict(w) PROVE TypeOK'
  BY <1>3 DEF LookupVerdict
<1>4. ASSUME NEW w \in Workers, RunOnce(w) PROVE TypeOK'
  <2>1. \E v \in Verdicts : judged' = [judged EXCEPT ![w] = v]
    BY <1>4 DEF RunOnce, Verdict
  <2>2. Goto(w, "probe") /\ UNCHANGED <<timing, memo>>
    BY <1>4 DEF RunOnce
  <2>. QED
    BY <1>4, <2>1, <2>2, RunEffect
<1>5. ASSUME NEW w \in Workers, PutVerdictProbe(w) PROVE TypeOK'
  BY <1>5 DEF PutVerdictProbe
<1>6. ASSUME NEW w \in Workers, PutVerdict(w) PROVE TypeOK'
  BY <1>6 DEF PutVerdict
<1>7. ASSUME NEW w \in Workers, Judge(w) PROVE TypeOK'
  BY <1>7, <1>0 DEF Judge
<1>8. ASSUME NEW w \in Workers, LookupTiming(w) PROVE TypeOK'
  <2>1. \/ Conclude(w, "replayed") /\ UNCHANGED timing
        \/ /\ timing' \in {timing, [timing EXCEPT ![key[w]] = "none"]}
           /\ Goto(w, "measure") /\ UNCHANGED memo
    BY <1>8 DEF LookupTiming
  <2>2. UNCHANGED <<setup, comp, verdict, key, judged, files, faults>>
    BY <1>8 DEF LookupTiming
  <2>3. memo' \in [Sessions -> [Keys -> Results \cup {"none"}]] /\ pc' \in [Workers -> Labels]
    BY <2>1, <1>0
  <2>4. timing' \in [Keys -> {"none", "kept", "junk"}]
    BY <2>1
  <2>. QED
    BY <2>2, <2>3, <2>4
<1>9. ASSUME NEW w \in Workers, Measure(w) PROVE TypeOK'
  <2>1. PICK r \in {"measured", "unmeasured"} : Conclude(w, r)
    BY <1>9 DEF Measure
  <2>2. UNCHANGED judged /\ timing' \in {timing, [timing EXCEPT ![key[w]] = "kept"]}
    BY <1>9 DEF Measure
  <2>3. memo' \in [Sessions -> [Keys -> Results \cup {"none"}]] /\ pc' \in [Workers -> Labels]
    BY <2>1, <1>0
  <2>4. timing' \in [Keys -> {"none", "kept", "junk"}]
    BY <2>2
  <2>. QED
    BY <1>9, <2>2, <2>3, <2>4, RunEffect
<1>10. ASSUME NEW s \in Sessions, Restart(s) PROVE TypeOK'
  BY <1>10 DEF Restart
<1>11. ASSUME NEW k \in Keys, Damage(k) PROVE TypeOK'
  BY <1>11, DamageEffect DEF Damaged
<1>12. ASSUME Clear PROVE TypeOK'
  BY <1>12 DEF Clear
<1>13. CASE UNCHANGED vars
  BY <1>13 DEF vars
<1>. QED
  BY <1>1, <1>2, <1>3, <1>4, <1>5, <1>6, <1>7, <1>8, <1>9, <1>10, <1>11, <1>12, <1>13
     DEF Next, Evaluate

\* The type invariant: what layers, memories and threads can hold.
THEOREM TypeCorrect == Spec => []TypeOK
<1>1. Init => TypeOK
  BY SessionAssumption, BoundAssumption DEF Init, TypeOK, Labels
<1>. QED
  BY <1>1, TypeStep, PTL DEF Spec

----------------------------------------------------------------------------
(* The files of the cache.                                                 *)

\* What is wrong with an executable is known of its key, and as long as nothing
\* drifts, it was built by the toolchain of every session.
FilesInv ==
    /\ \A k \in Keys : comp[k].bytes \in {"torn", "rotten"} => comp[k].bytes \in spoiled[k]
    /\ \A k \in Keys : comp[k].seal = "other" => spoiled[k] # {}
    /\ ~Drift => \A s \in Sessions :
          /\ \A t \in Sessions : conf[t] = conf[s]
          /\ \A k \in Keys : comp[k] # Missing => comp[k].build = conf[s].build

\* Every step keeps this, and forgets nothing that was wrong.
LEMMA FilesStep ==
    ASSUME TypeOK, FilesInv, [Next]_vars
    PROVE  /\ FilesInv'
           /\ \A k \in Keys : spoiled[k] \subseteq spoiled'[k]
           /\ transients' = 0 => transients = 0
           /\ clears' = 0 => clears = 0
           /\ ~Drift => conf' = conf
<1>. DEFINE Goal == /\ FilesInv'
                    /\ \A k \in Keys : spoiled[k] \subseteq spoiled'[k]
                    /\ transients' = 0 => transients = 0
                    /\ clears' = 0 => clears = 0
                    /\ ~Drift => conf' = conf
<1>. SUFFICES Goal
  OBVIOUS
<1>0. ASSUME UNCHANGED <<conf, comp, spoiled>>, transients' = 0 => transients = 0,
             clears' = 0 => clears = 0
      PROVE  Goal
  BY <1>0 DEF FilesInv
<1>1. ASSUME NEW w \in Workers, Acquire(w) \/ Raise(w) PROVE Goal
  <2>0. Acquired(w) /\ SessionOf[w] \in Sessions
    BY <1>1, AcquireEffect, SessionAssumption
  <2>1. ASSUME NEW k \in Keys
        PROVE  /\ comp'[k].bytes \in {"torn", "rotten"} => comp'[k].bytes \in spoiled'[k]
               /\ comp'[k].seal = "other" => spoiled'[k] # {}
               /\ ~Drift => \A s \in Sessions : comp'[k] # Missing => comp'[k].build = conf[s].build
    <3>1. CASE comp'[k] = comp[k]
      BY <2>0, <3>1 DEF FilesInv, Acquired
    <3>2. CASE k = key[w] /\ comp'[k] \in Left(w)
      <4>1. \/ comp'[k] = Missing
            \/ /\ comp'[k].build = comp[k].build
               /\ comp'[k].bytes = comp[k].bytes
               /\ comp'[k].seal \in {comp[k].seal, "none"}
        BY <3>2, LeftType
      <4>2. comp'[k] # Missing => comp[k] # Missing
        BY <3>2 DEF Left, Missing
      <4>. QED
        BY <2>0, <4>1, <4>2 DEF FilesInv, Acquired, Missing
    <3>3. CASE /\ k = key[w]
               /\ comp'[k].build = conf[SessionOf[w]].build
               /\ comp'[k].bytes # "rotten"
               /\ comp'[k].bytes = "torn" => "torn" \in spoiled'[k]
               /\ comp'[k].seal # "other"
      BY <2>0, <3>3 DEF FilesInv
    <3>. QED
      BY <2>0, <3>1, <3>2, <3>3 DEF Acquired
  <2>. QED
    BY <2>0, <2>1 DEF FilesInv, Acquired
<1>2. ASSUME NEW w \in Workers, RunOnce(w) \/ Measure(w) PROVE Goal
  <2>1. /\ UNCHANGED <<conf, comp, clears>> /\ (transients' = 0 => transients = 0)
        /\ \A j \in Keys : spoiled[j] \subseteq spoiled'[j]
    BY <1>2, RunEffect
  <2>. QED
    BY <2>1 DEF FilesInv
<1>3. ASSUME NEW k \in Keys, Damage(k) PROVE Goal
  <2>0. Damaged(k)
    BY <1>3, DamageEffect
  <2>1. ASSUME NEW j \in Keys
        PROVE  /\ comp'[j].bytes \in {"torn", "rotten"} => comp'[j].bytes \in spoiled'[j]
               /\ comp'[j].seal = "other" => spoiled'[j] # {}
               /\ ~Drift => \A s \in Sessions : comp'[j] # Missing => comp'[j].build = conf[s].build
    BY <2>0 DEF FilesInv, Damaged
  <2>. QED
    BY <2>0, <2>1 DEF FilesInv, Damaged
<1>4. ASSUME NEW s \in Sessions, Restart(s) PROVE Goal
  <2>1. ~Drift => conf' = conf
    BY <1>4 DEF Restart, TypeOK
  <2>2. UNCHANGED <<comp, spoiled, transients, clears>>
    BY <1>4 DEF Restart, cache, faults
  <2>. QED
    BY <2>1, <2>2 DEF FilesInv
<1>5. ASSUME Clear PROVE Goal
  <2>1. /\ UNCHANGED <<conf, spoiled, transients>> /\ clears' # 0
        /\ comp' = [k \in Keys |-> Missing] \/ UNCHANGED comp
    BY <1>5 DEF Clear, setup, files, TypeOK
  <2>2. \A k \in Keys : comp'[k] = Missing \/ comp'[k] = comp[k]
    BY <2>1
  <2>. QED
    BY <2>1, <2>2 DEF FilesInv, Missing
<1>6. ASSUME NEW w \in Workers,
             \/ \E k \in Keys : Take(w, k)
             \/ LookupVerdict(w) \/ PutVerdictProbe(w) \/ PutVerdict(w) \/ Judge(w)
             \/ LookupTiming(w)
      PROVE  Goal
  BY <1>0, <1>6 DEF Take, LookupVerdict, PutVerdictProbe, PutVerdict, Judge, LookupTiming,
     setup, cache, files, faults
<1>7. CASE UNCHANGED vars
  BY <1>0, <1>7 DEF vars, setup, cache, files, faults
<1>. QED
  BY <1>1, <1>2, <1>3, <1>4, <1>5, <1>6, <1>7 DEF Next, Evaluate

\* Initially nothing is there.
LEMMA FilesInit == Init => FilesInv
BY DEF Init, FilesInv, Missing

\* What a session runs: nothing, or the file of its key, built by its own
\* toolchain if nothing drifts or it goes around the cache.
Bypasses(s) == mode[s] = "off" \/ (mode[s] = "fresh" /\ SameToolchain)

LEMMA FileFacts ==
    ASSUME TypeOK, FilesInv, NEW w \in Workers, NEW x \in Executable(w)
    PROVE  /\ x \in Executables \cup {Missing}
           /\ x = Missing => Writes(SessionOf[w]) /\ comp[key[w]] = Missing
           /\ x.bytes = "rotten" => "rotten" \in spoiled[key[w]] /\ Writes(SessionOf[w])
           /\ ~Drift \/ Bypasses(SessionOf[w]) =>
                x = Missing \/ x.build = conf[SessionOf[w]].build
<1>1. /\ SessionOf[w] \in Sessions /\ key[w] \in Keys
      /\ conf[SessionOf[w]].build \in Builds
      /\ Missing \notin Executables
  BY SessionAssumption, ConfigAssumption DEF TypeOK, Builds, Executables, Missing
<1>2. CASE Writes(SessionOf[w])
  <2>1. x = comp[key[w]]
    BY <1>2 DEF Executable
  <2>2. Bypasses(SessionOf[w]) /\ x # Missing => x.build = conf[SessionOf[w]].build
    <3>1. Bypasses(SessionOf[w]) => SameToolchain
      BY <1>2 DEF Bypasses, Writes
    <3>2. x # Missing => x.build \in Builds
      BY <1>1, <2>1 DEF TypeOK, Executables
    <3>. QED
      BY <1>1, <3>1, <3>2 DEF SameToolchain, Builds
  <2>. QED
    BY <1>1, <1>2, <2>1, <2>2 DEF FilesInv, TypeOK
<1>3. CASE ~Writes(SessionOf[w])
  <2>1. x \in [build : {conf[SessionOf[w]].build}, bytes : {"whole", "torn"}, seal : {"none"}]
    BY <1>3 DEF Executable, Linked
  <2>. QED
    BY <1>1, <2>1 DEF Executables
<1>. QED
  BY <1>2, <1>3

\* What a verdict says of a whole executable of the session's own toolchain.
LEMMA VerdictFacts ==
    ASSUME NEW w \in Workers, NEW x, x # Missing,
           x.build = conf[SessionOf[w]].build, x.bytes # "rotten", NEW v \in Verdict(w, x)
    PROVE  /\ v = "pass" => Matches(conf[SessionOf[w]], key[w])
           /\ v = "fail" /\ x.bytes # "torn" => ~Matches(conf[SessionOf[w]], key[w])
BY DEF Verdict, Matches, Accepts

----------------------------------------------------------------------------
(* As long as nothing drifts, what is valid is correct.                    *)

\* A miscompiled candidate whose executable was not altered leaves no trace of
\* approval: neither in a layer, nor in a session's memory, nor in a thread.
Unapproved(k) ==
    /\ verdict[k] # "pass"
    /\ timing[k] # "kept"
    /\ \A s \in Sessions : memo[s][k] \notin Valid
    /\ \A w \in Workers : key[w] = k =>
          judged[w] # "pass" /\ pc[w] \notin {"time", "measure"}

ApprovalInv ==
    ~Drift => \A s \in Sessions, k \in Keys :
        ~Matches(conf[s], k) /\ "rotten" \notin spoiled[k] => Unapproved(k)

\* No step approves a candidate that misbehaves.
LEMMA ApprovalStep == TypeOK /\ FilesInv /\ ApprovalInv /\ [Next]_vars => ApprovalInv'
<1> SUFFICES ASSUME TypeOK, FilesInv, ApprovalInv, [Next]_vars, ~Drift,
                    NEW s0 \in Sessions, NEW j \in Keys,
                    ~Matches(conf'[s0], j), "rotten" \notin spoiled'[j]
             PROVE  Unapproved(j)'
  BY DEF ApprovalInv, Matches
<1>0. /\ Unapproved(j) /\ conf' = conf /\ "rotten" \notin spoiled[j]
      /\ \A s \in Sessions : ~Matches(conf[s], j)
  BY FilesStep DEF ApprovalInv, FilesInv, Matches
<1> USE <1>0, SessionAssumption DEF TypeOK, Unapproved, Valid, Verdicts, Goto,
        setup, cache, faults, files
<1>1. ASSUME NEW w \in Workers, NEW k \in Keys, Take(w, k) PROVE Unapproved(j)'
  BY <1>1 DEF Take
<1>2. ASSUME NEW w \in Workers, Acquire(w) \/ Raise(w) PROVE Unapproved(j)'
  <2>1. /\ UNCHANGED <<verdict, timing, key, judged>>
        /\ \/ Goto(w, "lookup") /\ UNCHANGED memo
           \/ Goto(w, "rest") /\ UNCHANGED memo
           \/ Conclude(w, "uncompilable")
    BY <1>2, AcquireEffect DEF Acquired
  <2>. QED
    BY <2>1, ConcludeEffect DEF Results
<1>3. ASSUME NEW w \in Workers, LookupVerdict(w) PROVE Unapproved(j)'
  BY <1>3 DEF LookupVerdict
<1>4. ASSUME NEW w \in Workers, RunOnce(w) PROVE Unapproved(j)'
  <2>1. PICK x \in Executable(w) :
            \/ \E v \in Verdict(w, x) : judged' = [judged EXCEPT ![w] = v]
            \/ judged' = [judged EXCEPT ![w] = "fail"]
    BY <1>4 DEF RunOnce
  <2>2. UNCHANGED <<verdict, timing, memo, key>> /\ Goto(w, "probe")
    BY <1>4 DEF RunOnce
  <2>3. key[w] = j => judged'[w] # "pass"
    <3>1. x = Missing => Verdict(w, x) = {"fail"}
      BY DEF Verdict
    <3>2. ASSUME key[w] = j, x # Missing, NEW v \in Verdict(w, x) PROVE v # "pass"
      BY <3>2, FileFacts, VerdictFacts
    <3>. QED
      BY <2>1, <3>1, <3>2
  <2>. QED
    BY <2>1, <2>2, <2>3
<1>5. ASSUME NEW w \in Workers, PutVerdictProbe(w) PROVE Unapproved(j)'
  BY <1>5 DEF PutVerdictProbe
<1>6. ASSUME NEW w \in Workers, PutVerdict(w) PROVE Unapproved(j)'
  BY <1>6 DEF PutVerdict
<1>7. ASSUME NEW w \in Workers, Judge(w) PROVE Unapproved(j)'
  BY <1>7, ConcludeEffect DEF Judge, Results
<1>8. ASSUME NEW w \in Workers, LookupTiming(w) PROVE Unapproved(j)'
  BY <1>8, ConcludeEffect DEF LookupTiming, Results
<1>9. ASSUME NEW w \in Workers, Measure(w) PROVE Unapproved(j)'
  <2>1. key[w] # j
    BY <1>9 DEF Measure
  <2>2. PICK r \in {"measured", "unmeasured"} : Conclude(w, r)
    BY <1>9 DEF Measure
  <2>3. /\ UNCHANGED <<verdict, key, judged>>
        /\ timing' \in {timing, [timing EXCEPT ![key[w]] = "kept"]}
    BY <1>9 DEF Measure
  <2>. QED
    BY <2>1, <2>2, <2>3, ConcludeEffect DEF Results
<1>10. ASSUME NEW s \in Sessions, Restart(s) PROVE Unapproved(j)'
  BY <1>10 DEF Restart
<1>11. ASSUME NEW k \in Keys, Damage(k) PROVE Unapproved(j)'
  <2>1. /\ UNCHANGED <<memo, pc, key, judged>>
        /\ verdict' \in {verdict, [verdict EXCEPT ![k] = "junk"]}
        /\ timing' \in {timing, [timing EXCEPT ![k] = "junk"]}
    BY <1>11, DamageEffect DEF Damaged
  <2>2. verdict'[j] \in {verdict[j], "junk"} /\ timing'[j] \in {timing[j], "junk"}
    BY <2>1
  <2>. QED
    BY <2>1, <2>2
<1>12. ASSUME Clear PROVE Unapproved(j)'
  BY <1>12 DEF Clear
<1>13. CASE UNCHANGED vars
  BY <1>13 DEF vars
<1>. QED
  BY <1>1, <1>2, <1>3, <1>4, <1>5, <1>6, <1>7, <1>8, <1>9, <1>10, <1>11, <1>12, <1>13
     DEF Next, Evaluate

\* As long as sessions agree on what the keys leave out, only candidates that
\* behave as the baseline, or whose executable was altered, are valid, recorded
\* as correct or timed.
THEOREM ValidIsCorrect == Spec => []ValidMeansCorrect
<1>1. Init => ApprovalInv
  BY DEF Init, ApprovalInv, Unapproved, Valid
<1>2. ApprovalInv => ValidMeansCorrect
  BY DEF ApprovalInv, Unapproved, ValidMeansCorrect
<1>3. TypeOK /\ FilesInv /\ [Next]_vars => FilesInv'
  BY FilesStep
<1>. QED
  BY <1>1, <1>2, <1>3, FilesInit, ApprovalStep, TypeCorrect, PTL DEF Spec

----------------------------------------------------------------------------
(* As long as nothing drifts, what is rejected was rejected by a fault.    *)

\* A candidate that behaves as the baseline is nowhere rejected, and a thread
\* at work on it has an executable to run from its acquisition on.
Unrejected(k) ==
    /\ verdict[k] # "fail"
    /\ \A s \in Sessions : memo[s][k] \notin {"incorrect", "unmeasured"}
    /\ \A w \in Workers : key[w] = k =>
          /\ judged[w] # "fail"
          /\ pc[w] \in {"probe", "write", "judge"} => judged[w] = "pass"
          /\ pc[w] \notin {"rest", "acquire"} /\ Writes(SessionOf[w]) => comp[k] # Missing

RejectionInv ==
    ~Drift /\ transients = 0 /\ clears = 0 =>
        \A s \in Sessions, k \in Keys :
            Matches(conf[s], k) /\ spoiled[k] = {} => Unrejected(k)

\* An executable with which nothing was ever wrong stays where it is.
LEMMA Kept ==
    ASSUME TypeOK, FilesInv, [Next]_vars, clears' = 0, NEW k \in Keys,
           spoiled'[k] = {}, comp[k] # Missing
    PROVE  comp'[k] # Missing
<1>0. spoiled[k] = {} /\ comp[k].seal # "other"
  BY FilesStep DEF FilesInv
<1>1. ASSUME NEW w \in Workers, Acquire(w) \/ Raise(w) PROVE comp'[k] # Missing
  BY <1>0, <1>1, AcquireEffect, LeftType DEF Acquired
<1>2. ASSUME NEW j \in Keys, Damage(j) PROVE comp'[k] # Missing
  BY <1>2, DamageEffect DEF Damaged
<1>3. ASSUME NEW w \in Workers,
             \/ \E j \in Keys : Take(w, j)
             \/ LookupVerdict(w) \/ PutVerdictProbe(w) \/ PutVerdict(w) \/ Judge(w)
             \/ LookupTiming(w) \/ RunOnce(w) \/ Measure(w)
      PROVE  UNCHANGED comp
  BY <1>3 DEF Take, LookupVerdict, PutVerdictProbe, PutVerdict, Judge, LookupTiming,
     RunOnce, Measure, cache
<1>4. ASSUME NEW s \in Sessions, Restart(s) PROVE UNCHANGED comp
  BY <1>4 DEF Restart, cache
<1>5. ~Clear
  BY DEF Clear, TypeOK
<1>6. CASE UNCHANGED vars
  BY <1>6 DEF vars, cache
<1>. QED
  BY <1>1, <1>2, <1>3, <1>4, <1>5, <1>6 DEF Next, Evaluate

\* Without a transient failure, a run of a file with which nothing was ever wrong
\* by the session's own toolchain is rejected only if it misbehaves.
LEMMA RunJudges ==
    ASSUME TypeOK, FilesInv, NEW w \in Workers, RunOnce(w),
           ~Drift \/ Bypasses(SessionOf[w]), transients = 0, transients' = 0,
           spoiled'[key[w]] = {}, Writes(SessionOf[w]) => comp[key[w]] # Missing,
           Matches(conf[SessionOf[w]], key[w])
    PROVE  judged'[w] = "pass"
<1>1. PICK x \in Executable(w) :
            /\ Spoil(key[w], x.bytes)
            /\ \/ \E v \in Verdict(w, x) : judged' = [judged EXCEPT ![w] = v]
               \/ transients' = transients + 1
  BY DEF RunOnce
<1>2. x # Missing /\ x.bytes \notin {"torn", "rotten"} /\ x.build = conf[SessionOf[w]].build
  BY <1>1, FileFacts, SpoilEffect DEF TypeOK
<1>3. PICK v \in Verdict(w, x) : judged' = [judged EXCEPT ![w] = v]
  BY <1>1
<1>4. v \in Verdicts /\ v # "fail"
  BY <1>2, VerdictFacts DEF Verdict, Verdicts
<1>. QED
  BY <1>3, <1>4 DEF TypeOK, Verdicts

\* The same of the timed runs.
LEMMA RunsMeasure ==
    ASSUME TypeOK, FilesInv, NEW w \in Workers, Measure(w),
           ~Drift \/ Bypasses(SessionOf[w]), transients = 0, transients' = 0,
           spoiled'[key[w]] = {}, Writes(SessionOf[w]) => comp[key[w]] # Missing,
           Matches(conf[SessionOf[w]], key[w])
    PROVE  Conclude(w, "measured")
<1>1. PICK x \in Executable(w), r \in {"measured", "unmeasured"} :
            /\ Spoil(key[w], x.bytes)
            /\ \/ r \in Series(w, x)
               \/ transients' = transients + 1
            /\ Conclude(w, r)
  BY DEF Measure
<1>2. x # Missing /\ x.bytes \notin {"torn", "rotten"} /\ x.build = conf[SessionOf[w]].build
  BY <1>1, FileFacts, SpoilEffect DEF TypeOK
<1>3. r \in Series(w, x)
  BY <1>1
<1>. QED
  BY <1>1, <1>2, <1>3 DEF Series, Matches

\* Without transient failures and clears no step rejects such a candidate.
LEMMA RejectionStep == TypeOK /\ FilesInv /\ RejectionInv /\ [Next]_vars => RejectionInv'
<1> SUFFICES ASSUME TypeOK, FilesInv, RejectionInv, [Next]_vars, ~Drift,
                    transients' = 0, clears' = 0, NEW s0 \in Sessions, NEW j \in Keys,
                    Matches(conf'[s0], j), spoiled'[j] = {}
             PROVE  Unrejected(j)'
  BY DEF RejectionInv, Matches
<1>0. /\ transients = 0 /\ clears = 0 /\ conf' = conf /\ spoiled[j] = {}
      /\ Unrejected(j)
      /\ \A s \in Sessions : Matches(conf[s], j)
      /\ comp[j] # Missing => comp'[j] # Missing
  BY FilesStep, Kept DEF RejectionInv, FilesInv, Matches
<1> USE <1>0, SessionAssumption DEF TypeOK, Unrejected, Verdicts, Goto,
        setup, cache, faults, files, Writes
<1>1. ASSUME NEW w \in Workers, NEW k \in Keys, Take(w, k) PROVE Unrejected(j)'
  BY <1>1 DEF Take
<1>2. ASSUME NEW w \in Workers, Acquire(w) \/ Raise(w) PROVE Unrejected(j)'
  <2>1. /\ UNCHANGED <<mode, verdict, key, judged>> /\ (pc[w] = "acquire" \/ Goto(w, "rest"))
        /\ \/ Goto(w, "lookup") /\ UNCHANGED memo
           \/ Goto(w, "rest") /\ UNCHANGED memo
           \/ Conclude(w, "uncompilable")
        /\ Goto(w, "lookup") /\ Writes(SessionOf[w]) => comp'[key[w]] # Missing
    BY <1>2, AcquireEffect DEF Acquired
  <2>2. \A s \in Sessions : memo'[s][j] \notin {"incorrect", "unmeasured"}
    <3>1. CASE UNCHANGED memo
      BY <3>1
    <3>2. CASE Conclude(w, "uncompilable")
      <4>1. \A s \in Sessions, k \in Keys :
               memo'[s][k] = IF s = SessionOf[w] /\ k = key[w] THEN "uncompilable" ELSE memo[s][k]
        BY <3>2, ConcludeEffect DEF Results
      <4>2. \A s \in Sessions : memo'[s][j] \in {"uncompilable", memo[s][j]}
        BY ONLY <4>1
      <4>. QED
        BY <4>2
    <3>. QED
      BY <2>1, <3>1, <3>2
  <2>3. /\ \A v \in Workers : v # w => pc'[v] = pc[v]
        /\ pc'[w] \in {"rest", "lookup"}
        /\ pc'[w] = "lookup" /\ Writes(SessionOf[w]) => comp'[key[w]] # Missing
    BY <2>1 DEF Conclude
  <2>. QED
    BY <2>1, <2>2, <2>3
<1>3. ASSUME NEW w \in Workers, LookupVerdict(w) PROVE Unrejected(j)'
  <2>1. pc[w] = "lookup" /\ UNCHANGED <<setup, comp, timing, memo, key, faults>>
    BY <1>3 DEF LookupVerdict
  <2>2. CASE /\ verdict[key[w]] \in Verdicts /\ judged' = [judged EXCEPT ![w] = verdict[key[w]]]
             /\ Goto(w, "judge") /\ UNCHANGED verdict
    BY <2>1, <2>2
  <2>3. CASE /\ verdict' \in {verdict, [verdict EXCEPT ![key[w]] = "none"]}
             /\ Goto(w, "run") /\ UNCHANGED judged
    BY <2>1, <2>3
  <2>. QED
    BY <1>3, <2>2, <2>3 DEF LookupVerdict
<1>4. ASSUME NEW w \in Workers, RunOnce(w) PROVE Unrejected(j)'
  <2>1. /\ pc[w] = "run" /\ Goto(w, "probe") /\ UNCHANGED <<setup, cache, memo, key>>
        /\ \A v \in Workers : v # w => judged'[v] = judged[v]
    BY <1>4 DEF RunOnce
  <2>2. ASSUME key[w] = j PROVE judged'[w] = "pass"
    <3>1. /\ Matches(conf[SessionOf[w]], key[w]) /\ spoiled'[key[w]] = {}
          /\ Writes(SessionOf[w]) => comp[key[w]] # Missing
      BY <2>1, <2>2
    <3>. QED
      BY ONLY TypeOK, FilesInv, <1>0, <1>4, <3>1, RunJudges, ~Drift, transients' = 0
  <2>. QED
    BY <2>1, <2>2
<1>5. ASSUME NEW w \in Workers, PutVerdictProbe(w) PROVE Unrejected(j)'
  BY <1>5 DEF PutVerdictProbe
<1>6. ASSUME NEW w \in Workers, PutVerdict(w) PROVE Unrejected(j)'
  BY <1>6 DEF PutVerdict
<1>7. ASSUME NEW w \in Workers, Judge(w) PROVE Unrejected(j)'
  BY <1>7, ConcludeEffect DEF Judge, Results
<1>8. ASSUME NEW w \in Workers, LookupTiming(w) PROVE Unrejected(j)'
  <2>1. /\ pc[w] = "time" /\ UNCHANGED <<setup, comp, verdict, key, judged>>
        /\ \/ Conclude(w, "replayed")
           \/ Goto(w, "measure") /\ UNCHANGED memo
    BY <1>8 DEF LookupTiming
  <2>2. CASE Conclude(w, "replayed")
    <3>1. /\ \A s \in Sessions, k \in Keys :
               memo'[s][k] = IF s = SessionOf[w] /\ k = key[w] THEN "replayed" ELSE memo[s][k]
          /\ \A v \in Workers : pc'[v] = IF v = w THEN "rest" ELSE pc[v]
      BY <2>2, ConcludeEffect DEF Results, Valid
    <3>. QED
      BY <2>1, <3>1
  <2>3. CASE Goto(w, "measure") /\ UNCHANGED memo
    BY <2>1, <2>3
  <2>. QED
    BY <2>1, <2>2, <2>3
<1>9. ASSUME NEW w \in Workers, Measure(w) PROVE Unrejected(j)'
  <2>1. PICK r \in {"measured", "unmeasured"} : Conclude(w, r)
    BY <1>9 DEF Measure
  <2>2. /\ pc[w] = "measure" /\ UNCHANGED <<setup, comp, verdict, key, judged>>
    BY <1>9 DEF Measure
  <2>3. CASE key[w] # j
    <3>1. /\ \A s \in Sessions, k \in Keys :
               memo'[s][k] = IF s = SessionOf[w] /\ k = key[w] THEN r ELSE memo[s][k]
          /\ \A v \in Workers : pc'[v] = IF v = w THEN "rest" ELSE pc[v]
      BY <2>1, ConcludeEffect DEF Results, Valid
    <3>. QED
      BY <2>2, <2>3, <3>1
  <2>4. CASE key[w] = j
    <3>1. Conclude(w, "measured")
      <4>1. /\ Matches(conf[SessionOf[w]], key[w]) /\ spoiled'[key[w]] = {}
            /\ Writes(SessionOf[w]) => comp[key[w]] # Missing
        BY <2>2, <2>4
      <4>. QED
        BY ONLY TypeOK, FilesInv, <1>0, <1>9, <4>1, RunsMeasure, ~Drift, transients' = 0
    <3>2. /\ \A s \in Sessions, k \in Keys :
               memo'[s][k] = IF s = SessionOf[w] /\ k = key[w] THEN "measured" ELSE memo[s][k]
          /\ \A v \in Workers : pc'[v] = IF v = w THEN "rest" ELSE pc[v]
      BY <3>1, ConcludeEffect DEF Results, Valid
    <3>. QED
      BY <2>2, <3>2
  <2>. QED
    BY <2>3, <2>4
<1>10. ASSUME NEW s \in Sessions, Restart(s) PROVE Unrejected(j)'
  <2>1. /\ UNCHANGED <<comp, verdict, key>>
        /\ \A t \in Sessions : memo'[t][j] \in {memo[t][j], "none"}
        /\ \A w \in Workers : \/ pc'[w] = "rest" /\ judged'[w] = "none"
                              \/ /\ pc'[w] = pc[w] /\ judged'[w] = judged[w]
                                 /\ mode'[SessionOf[w]] = mode[SessionOf[w]]
    BY <1>10 DEF Restart
  <2>. QED
    BY <2>1
<1>11. ASSUME NEW k \in Keys, Damage(k) PROVE Unrejected(j)'
  BY <1>11, DamageEffect DEF Damaged
<1>12. CASE UNCHANGED vars
  BY <1>12 DEF vars
<1>13. ~Clear
  BY DEF Clear
<1>. QED
  BY <1>1, <1>2, <1>3, <1>4, <1>5, <1>6, <1>7, <1>8, <1>9, <1>10, <1>11, <1>12, <1>13
     DEF Next, Evaluate

\* A correct candidate is rejected only after a transient failure or a clear, or
\* once something was wrong with its executable.
THEOREM RejectedByFaultOnly == Spec => []RejectionsAreJustified
<1>1. Init => RejectionInv
  BY DEF Init, RejectionInv, Unrejected
<1>2. RejectionInv => RejectionsAreJustified
  BY DEF RejectionInv, Unrejected, RejectionsAreJustified
<1>3. TypeOK /\ FilesInv /\ [Next]_vars => FilesInv'
  BY FilesStep
<1>. QED
  BY <1>1, <1>2, <1>3, FilesInit, RejectionStep, TypeCorrect, PTL DEF Spec

----------------------------------------------------------------------------
(* The two ways around the cache.                                          *)

\* When the approvals, and when the rejections, of a session can be relied on.
Trusts(s, k) ==
    \/ mode[s] = "off"
    \/ mode[s] = "fresh" /\ SameToolchain /\ "rotten" \notin spoiled[k]
Doubts(s, k) ==
    /\ spoiled[k] = {} /\ transients = 0
    /\ \/ mode[s] = "off"
       \/ mode[s] = "fresh" /\ SameToolchain /\ clears = 0

\* What a thread knows of its candidate, and what its session does of any.
ThreadKnows(w) ==
    LET s == SessionOf[w]  k == key[w] IN
    /\ pc[w] \in {"time", "measure"} => judged[w] = "pass"
    /\ pc[w] \in {"probe", "write", "judge"} => judged[w] \in Verdicts
    /\ Trusts(s, k) /\ judged[w] = "pass" => Matches(conf[s], k)
    /\ Doubts(s, k) /\ Matches(conf[s], k) =>
          /\ judged[w] # "fail"
          /\ pc[w] \notin {"rest", "acquire"} /\ Writes(s) => comp[k] # Missing
SessionKnows(s, k) ==
    /\ Trusts(s, k) /\ memo[s][k] \in Valid => Matches(conf[s], k)
    /\ Doubts(s, k) /\ memo[s][k] \in {"incorrect", "unmeasured"} => ~Matches(conf[s], k)

BypassInv ==
    /\ \A w \in Workers : ThreadKnows(w)
    /\ \A s \in Sessions, k \in Keys : SessionKnows(s, k)

\* What a step of a worker leaves to the others: their configuration, and less
\* reason to be relied on.
LEMMA NoMoreTrust ==
    ASSUME TypeOK, FilesInv, [Next]_vars, UNCHANGED <<conf, mode>>
    PROVE  /\ \A s \in Sessions, k \in Keys : Trusts(s, k)' => Trusts(s, k)
           /\ \A s \in Sessions, k \in Keys : Doubts(s, k)' => Doubts(s, k)
           /\ \A s \in Sessions, k \in Keys :
                Doubts(s, k)' /\ Writes(s) /\ comp[k] # Missing => comp'[k] # Missing
BY FilesStep, Kept DEF Trusts, Doubts, Writes

\* A step that ends in no result, and in a verdict only for its worker, leaves
\* what is known if its worker still knows it.
LEMMA OthersKnow ==
    ASSUME TypeOK, FilesInv, BypassInv, [Next]_vars, UNCHANGED <<conf, mode>>,
           NEW w \in Workers, ThreadKnows(w)',
           \A v \in Workers : v # w => key'[v] = key[v] /\ pc'[v] = pc[v] /\ judged'[v] = judged[v],
           \A s \in Sessions, k \in Keys :
              memo'[s][k] = memo[s][k] \/ (s = SessionOf[w] /\ k = key[w] /\ SessionKnows(s, k)')
    PROVE  BypassInv'
<1>1. ASSUME NEW v \in Workers, v # w PROVE ThreadKnows(v)'
  <2>1. SessionOf[v] \in Sessions /\ key[v] \in Keys /\ ThreadKnows(v)
    BY SessionAssumption DEF TypeOK, BypassInv
  <2>2. /\ Trusts(SessionOf[v], key[v])' => Trusts(SessionOf[v], key[v])
        /\ Doubts(SessionOf[v], key[v])' => Doubts(SessionOf[v], key[v])
        /\ Doubts(SessionOf[v], key[v])' /\ Writes(SessionOf[v]) /\ comp[key[v]] # Missing =>
              comp'[key[v]] # Missing
    BY <1>1, <2>1, NoMoreTrust DEF Trusts, Doubts
  <2>. QED
    BY <1>1, <2>1, <2>2 DEF ThreadKnows, Matches, Writes
<1>2. ASSUME NEW s \in Sessions, NEW k \in Keys, memo'[s][k] = memo[s][k] PROVE SessionKnows(s, k)'
  BY <1>2, NoMoreTrust DEF BypassInv, SessionKnows, Matches
<1>. QED
  BY <1>1, <1>2 DEF BypassInv

\* A bypassing session judges only what it ran itself, by its own toolchain.
LEMMA BypassStep == TypeOK /\ FilesInv /\ BypassInv /\ [Next]_vars => BypassInv'
<1> SUFFICES ASSUME TypeOK, FilesInv, BypassInv, [Next]_vars PROVE BypassInv'
  OBVIOUS
<1>0. ASSUME NEW w \in Workers
      PROVE  ThreadKnows(w) /\ SessionOf[w] \in Sessions /\ key[w] \in Keys
  BY SessionAssumption DEF TypeOK, BypassInv
\* A step that ends an evaluation leaves what its worker knew.
<1>00. ASSUME NEW w \in Workers, NEW r \in Results, Conclude(w, r),
              UNCHANGED <<conf, mode, key, judged>>, SessionKnows(SessionOf[w], key[w])'
       PROVE  BypassInv'
  <2>1. /\ \A s \in Sessions, k \in Keys :
             memo'[s][k] = IF s = SessionOf[w] /\ k = key[w] THEN r ELSE memo[s][k]
        /\ \A v \in Workers : pc'[v] = IF v = w THEN "rest" ELSE pc[v]
    BY <1>00, ConcludeEffect
  <2>2. /\ Trusts(SessionOf[w], key[w])' => Trusts(SessionOf[w], key[w])
        /\ Doubts(SessionOf[w], key[w])' => Doubts(SessionOf[w], key[w])
    BY <1>0, <1>00, NoMoreTrust DEF Trusts, Doubts
  <2>3. ThreadKnows(w)'
    BY <1>0, <1>00, <2>1, <2>2 DEF ThreadKnows, Matches
  <2>4. \A s \in Sessions, k \in Keys :
            memo'[s][k] = memo[s][k] \/ (s = SessionOf[w] /\ k = key[w] /\ SessionKnows(s, k)')
    BY <1>00, <2>1 DEF SessionKnows, Trusts, Doubts, Matches
  <2>. QED
    BY <1>00, <2>1, <2>3, <2>4, OthersKnow
\* A step within an evaluation.
<1>01. ASSUME NEW w \in Workers, NEW label \in Labels, Goto(w, label),
              UNCHANGED <<conf, mode, key, memo>>,
              \A v \in Workers : v # w => judged'[v] = judged[v], ThreadKnows(w)'
       PROVE  BypassInv'
  <2>1. \A v \in Workers : v # w => pc'[v] = pc[v]
    BY <1>01 DEF Goto, TypeOK
  <2>. QED
    BY <1>01, <2>1, OthersKnow
<1>02. ASSUME NEW w \in Workers, UNCHANGED <<conf, mode, key>>
       PROVE  /\ Trusts(SessionOf[w], key[w])' => Trusts(SessionOf[w], key[w])
              /\ Doubts(SessionOf[w], key[w])' => Doubts(SessionOf[w], key[w])
              /\ Doubts(SessionOf[w], key[w])' /\ Writes(SessionOf[w]) /\ comp[key[w]] # Missing
                    => comp'[key[w]] # Missing
  BY <1>0, <1>02, NoMoreTrust DEF Trusts, Doubts
<1>1. ASSUME NEW w \in Workers, NEW k \in Keys, Take(w, k) PROVE BypassInv'
  <2>1. /\ UNCHANGED <<conf, mode, memo>> /\ pc'[w] = "acquire" /\ judged'[w] = "none"
        /\ \A v \in Workers : v # w => key'[v] = key[v] /\ pc'[v] = pc[v] /\ judged'[v] = judged[v]
    BY <1>1 DEF Take, setup, Goto, TypeOK
  <2>2. ThreadKnows(w)'
    BY <2>1 DEF ThreadKnows
  <2>. QED
    BY <2>1, <2>2, OthersKnow
<1>2. ASSUME NEW w \in Workers, Acquire(w) \/ Raise(w) PROVE BypassInv'
  <2>1. Acquired(w)
    BY <1>2, AcquireEffect
  <2>2. UNCHANGED <<conf, mode, key, judged>>
    BY <2>1 DEF Acquired
  <2>3. CASE Conclude(w, "uncompilable")
    <3>1. "uncompilable" \in Results
      BY DEF Results
    <3>2. memo'[SessionOf[w]][key[w]] = "uncompilable"
      BY <1>0, <2>3, <3>1, ConcludeEffect
    <3>3. SessionKnows(SessionOf[w], key[w])'
      BY <2>2, <3>2 DEF SessionKnows, Valid
    <3>. QED
      BY <1>00, <2>2, <2>3, <3>1, <3>3
  <2>4. ASSUME NEW label \in {"rest", "lookup"}, Goto(w, label), UNCHANGED memo PROVE BypassInv'
    <3>1. pc'[w] = label /\ label \in Labels
      BY <2>4 DEF Goto, TypeOK, Labels
    <3>2. label = "lookup" /\ Writes(SessionOf[w]) => comp'[key[w]] # Missing
      BY <2>1, <2>4 DEF Acquired
    <3>3. ThreadKnows(w)'
      BY <1>0, <1>02, <2>2, <3>1, <3>2 DEF ThreadKnows, Matches, Writes
    <3>. QED
      BY <1>01, <2>2, <2>4, <3>1, <3>3
  <2>. QED
    BY <2>1, <2>3, <2>4 DEF Acquired
<1>3. ASSUME NEW w \in Workers, LookupVerdict(w) PROVE BypassInv'
  <2>1. UNCHANGED <<conf, mode, memo, key, comp>> /\ pc[w] = "lookup"
    BY <1>3 DEF LookupVerdict, setup
  <2>2. CASE /\ Reads(SessionOf[w]) /\ judged' = [judged EXCEPT ![w] = verdict[key[w]]]
             /\ verdict[key[w]] \in Verdicts /\ Goto(w, "judge")
    <3>1. ~Trusts(SessionOf[w], key[w])' /\ ~Doubts(SessionOf[w], key[w])'
      BY <2>1, <2>2 DEF Reads, Trusts, Doubts
    <3>2. pc'[w] = "judge" /\ judged'[w] \in Verdicts
      BY <2>2 DEF Goto, TypeOK
    <3>3. ThreadKnows(w)'
      BY <3>1, <3>2 DEF ThreadKnows, Trusts, Doubts
    <3>. QED
      BY <1>01, <2>1, <2>2, <3>3 DEF Labels
  <2>3. CASE Goto(w, "run") /\ UNCHANGED judged
    <3>1. pc'[w] = "run"
      BY <2>3 DEF Goto, TypeOK
    <3>2. ThreadKnows(w)'
      BY <1>0, <1>02, <2>1, <2>3, <3>1 DEF ThreadKnows, Matches, Writes
    <3>. QED
      BY <1>01, <2>1, <2>3, <3>2 DEF Labels
  <2>. QED
    BY <1>3, <2>2, <2>3 DEF LookupVerdict
<1>4. ASSUME NEW w \in Workers, RunOnce(w) PROVE BypassInv'
  <2>1. /\ UNCHANGED <<conf, mode, memo, key, comp>> /\ pc[w] = "run" /\ Goto(w, "probe")
        /\ \A v \in Workers : v # w => judged'[v] = judged[v]
    BY <1>4 DEF RunOnce, setup, cache, TypeOK
  <2>2. pc'[w] = "probe" /\ judged'[w] \in Verdicts
    BY <1>4, <2>1 DEF RunOnce, Goto, TypeOK, Verdict, Verdicts
  <2>3. ASSUME Trusts(SessionOf[w], key[w])', judged'[w] = "pass"
        PROVE  Matches(conf[SessionOf[w]], key[w])
    <3>1. PICK x \in Executable(w) :
              \/ \E v \in Verdict(w, x) : judged' = [judged EXCEPT ![w] = v]
              \/ judged' = [judged EXCEPT ![w] = "fail"]
      BY <1>4 DEF RunOnce
    <3>2. judged'[w] = "pass" => "pass" \in Verdict(w, x)
      BY <3>1 DEF TypeOK
    <3>3. x # Missing
      BY <2>3, <3>2 DEF Verdict
    <3>4. Bypasses(SessionOf[w]) /\ (Writes(SessionOf[w]) => "rotten" \notin spoiled[key[w]])
      BY <1>02, <2>1, <2>3 DEF Trusts, Bypasses, Writes
    <3>5. x.bytes # "rotten" /\ x.build = conf[SessionOf[w]].build
      BY <3>3, <3>4, FileFacts
    <3>. QED
      BY <2>3, <3>2, <3>3, <3>5, VerdictFacts
  <2>4. ASSUME Doubts(SessionOf[w], key[w])', Matches(conf[SessionOf[w]], key[w])
        PROVE  judged'[w] = "pass" /\ (Writes(SessionOf[w]) => comp[key[w]] # Missing)
    <3>1. Doubts(SessionOf[w], key[w])
      BY <1>02, <2>1, <2>4
    <3>2. Writes(SessionOf[w]) => comp[key[w]] # Missing
      BY <1>0, <2>1, <2>4, <3>1 DEF ThreadKnows
    <3>3. /\ Bypasses(SessionOf[w]) /\ transients = 0 /\ transients' = 0
          /\ spoiled'[key[w]] = {}
      BY <2>1, <2>4, <3>1 DEF Doubts, Bypasses
    <3>. QED
      BY <1>4, <2>4, <3>2, <3>3, RunJudges
  <2>5. ThreadKnows(w)'
    BY <2>1, <2>2, <2>3, <2>4 DEF ThreadKnows, Matches, Writes, Trusts, Doubts
  <2>. QED
    BY <1>01, <2>1, <2>5 DEF Labels
<1>5. ASSUME NEW w \in Workers, PutVerdictProbe(w) \/ PutVerdict(w) PROVE BypassInv'
  <2>1. /\ UNCHANGED <<conf, mode, memo, key, comp, judged>>
        /\ pc[w] \in {"probe", "write"} /\ (Goto(w, "write") \/ Goto(w, "judge"))
    BY <1>5 DEF PutVerdictProbe, PutVerdict, setup, cache
  <2>2. pc'[w] \in {"write", "judge"}
    BY <2>1 DEF Goto, TypeOK
  <2>3. ThreadKnows(w)'
    BY <1>0, <1>02, <2>1, <2>2 DEF ThreadKnows, Matches, Writes
  <2>. QED
    BY <1>01, <2>1, <2>3 DEF Labels
<1>6. ASSUME NEW w \in Workers, Judge(w) PROVE BypassInv'
  <2>1. UNCHANGED <<conf, mode, key, comp, judged>> /\ pc[w] = "judge"
    BY <1>6 DEF Judge, setup, cache
  <2>2. CASE judged[w] = "pass" /\ Goto(w, "time") /\ UNCHANGED memo
    <3>1. pc'[w] = "time"
      BY <2>2 DEF Goto, TypeOK
    <3>2. ThreadKnows(w)'
      BY <1>0, <1>02, <2>1, <2>2, <3>1 DEF ThreadKnows, Matches, Writes
    <3>. QED
      BY <1>01, <2>1, <2>2, <3>2 DEF Labels
  <2>3. CASE judged[w] # "pass" /\ Conclude(w, "incorrect")
    <3>1. "incorrect" \in Results
      BY DEF Results
    <3>2. memo'[SessionOf[w]][key[w]] = "incorrect"
      BY <1>0, <2>3, <3>1, ConcludeEffect
    <3>3. judged[w] = "fail"
      BY <1>0, <2>1, <2>3 DEF ThreadKnows, Verdicts
    <3>4. SessionKnows(SessionOf[w], key[w])'
      BY <1>0, <1>02, <2>1, <3>2, <3>3 DEF SessionKnows, ThreadKnows, Valid, Matches
    <3>. QED
      BY <1>00, <2>1, <2>3, <3>1, <3>4
  <2>. QED
    BY <1>6, <2>2, <2>3 DEF Judge
<1>7. ASSUME NEW w \in Workers, LookupTiming(w) PROVE BypassInv'
  <2>1. UNCHANGED <<conf, mode, key, comp, judged>> /\ pc[w] = "time"
    BY <1>7 DEF LookupTiming, setup
  <2>2. CASE Goto(w, "measure") /\ UNCHANGED memo
    <3>1. pc'[w] = "measure"
      BY <2>2 DEF Goto, TypeOK
    <3>2. ThreadKnows(w)'
      BY <1>0, <1>02, <2>1, <2>2, <3>1 DEF ThreadKnows, Matches, Writes
    <3>. QED
      BY <1>01, <2>1, <2>2, <3>2 DEF Labels
  <2>3. CASE Conclude(w, "replayed")
    <3>1. "replayed" \in Results
      BY DEF Results, Valid
    <3>2. memo'[SessionOf[w]][key[w]] = "replayed"
      BY <1>0, <2>3, <3>1, ConcludeEffect
    <3>3. SessionKnows(SessionOf[w], key[w])'
      BY <1>0, <1>02, <2>1, <3>2 DEF SessionKnows, ThreadKnows, Valid, Matches
    <3>. QED
      BY <1>00, <2>1, <2>3, <3>1, <3>3
  <2>. QED
    BY <1>7, <2>2, <2>3 DEF LookupTiming
<1>8. ASSUME NEW w \in Workers, Measure(w) PROVE BypassInv'
  <2>1. UNCHANGED <<conf, mode, key, comp, judged>> /\ pc[w] = "measure"
    BY <1>8 DEF Measure, setup
  <2>2. PICK r \in {"measured", "unmeasured"} : Conclude(w, r)
    BY <1>8 DEF Measure
  <2>3. r \in Results /\ memo'[SessionOf[w]][key[w]] = r
    BY <1>0, <2>2, ConcludeEffect DEF Results, Valid
  <2>4. Trusts(SessionOf[w], key[w])' => Matches(conf[SessionOf[w]], key[w])
    BY <1>0, <1>02, <2>1 DEF ThreadKnows
  <2>5. ASSUME Doubts(SessionOf[w], key[w])', Matches(conf[SessionOf[w]], key[w])
        PROVE  r = "measured"
    <3>1. Doubts(SessionOf[w], key[w])
      BY <1>02, <2>1, <2>5
    <3>2. Writes(SessionOf[w]) => comp[key[w]] # Missing
      BY <1>0, <2>1, <2>5, <3>1 DEF ThreadKnows
    <3>3. /\ Bypasses(SessionOf[w]) /\ transients = 0 /\ transients' = 0
          /\ spoiled'[key[w]] = {}
      BY <2>1, <2>5, <3>1 DEF Doubts, Bypasses
    <3>4. Conclude(w, "measured")
      BY <1>8, <2>5, <3>2, <3>3, RunsMeasure
    <3>. QED
      BY <1>0, <2>3, <3>4, ConcludeEffect DEF Results, Valid
  <2>6. SessionKnows(SessionOf[w], key[w])'
    BY <2>1, <2>3, <2>4, <2>5 DEF SessionKnows, Valid, Matches, Trusts, Doubts
  <2>. QED
    BY <1>00, <2>1, <2>2, <2>3, <2>6
<1>9. ASSUME NEW s \in Sessions, Restart(s) PROVE BypassInv'
  <2>1. /\ UNCHANGED <<comp, key, spoiled, transients, clears>>
        /\ \A t \in Sessions : t # s =>
              conf'[t] = conf[t] /\ mode'[t] = mode[t] /\ memo'[t] = memo[t]
        /\ memo'[s] = [k \in Keys |-> "none"]
        /\ \A w \in Workers : IF SessionOf[w] = s
              THEN pc'[w] = "rest" /\ judged'[w] = "none"
              ELSE pc'[w] = pc[w] /\ judged'[w] = judged[w]
    BY <1>9 DEF Restart, cache, faults, TypeOK
  <2>2. ASSUME NEW w \in Workers PROVE ThreadKnows(w)'
    <3>1. CASE SessionOf[w] = s
      BY <2>1, <3>1 DEF ThreadKnows
    <3>2. CASE SessionOf[w] # s
      BY <1>0, <2>1, <3>2 DEF ThreadKnows, Trusts, Doubts, Matches, Writes
    <3>. QED
      BY <3>1, <3>2
  <2>3. ASSUME NEW t \in Sessions, NEW k \in Keys PROVE SessionKnows(t, k)'
    <3>1. CASE t = s
      BY <2>1, <3>1 DEF SessionKnows, Valid
    <3>2. CASE t # s
      BY <2>1, <3>2 DEF BypassInv, SessionKnows, Trusts, Doubts, Matches
    <3>. QED
      BY <3>1, <3>2
  <2>. QED
    BY <2>2, <2>3 DEF BypassInv
<1>10. ASSUME UNCHANGED <<conf, mode, memo, pc, key, judged>> PROVE BypassInv'
  <2>1. ASSUME NEW w \in Workers PROVE ThreadKnows(w)'
    BY <1>0, <1>02, <1>10 DEF ThreadKnows, Matches, Writes
  <2>2. ASSUME NEW s \in Sessions, NEW k \in Keys PROVE SessionKnows(s, k)'
    BY <1>10, NoMoreTrust DEF BypassInv, SessionKnows, Matches
  <2>. QED
    BY <2>1, <2>2 DEF BypassInv
<1>11. ASSUME NEW k \in Keys, Damage(k) PROVE BypassInv'
  BY <1>10, <1>11, DamageEffect DEF Damaged
<1>12. ASSUME Clear PROVE BypassInv'
  BY <1>10, <1>12 DEF Clear, setup
<1>13. CASE UNCHANGED vars
  BY <1>10, <1>13 DEF vars, setup
<1>. QED
  BY <1>1, <1>2, <1>3, <1>4, <1>5, <1>6, <1>7, <1>8, <1>9, <1>11, <1>12, <1>13
     DEF Next, Evaluate

\* A session with --no-cache, and one with --fresh on an unchanged toolchain and
\* unaltered executables, approves only and rejects only what its own baseline does.
THEOREM BypassWorks == Spec => []BypassIsTrustworthy
<1>1. Init => BypassInv
  BY DEF Init, BypassInv, ThreadKnows, SessionKnows, Valid
<1>2. BypassInv => BypassIsTrustworthy
  BY DEF BypassInv, SessionKnows, Trusts, Doubts, BypassIsTrustworthy
<1>3. TypeOK /\ FilesInv /\ [Next]_vars => FilesInv'
  BY FilesStep
<1>. QED
  BY <1>1, <1>2, <1>3, FilesInit, BypassStep, TypeCorrect, PTL DEF Spec
=============================================================================
