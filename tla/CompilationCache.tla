------------------------- MODULE CompilationCache -------------------------
(***************************************************************************)
(* How the candidates of a search get their executables: the compilation   *)
(* layer of the persistent cache (search/persistent_cache.py), the part of *)
(* evaluate_individual that drives it (search/genetic.py) and the last     *)
(* stage of compile_candidate (llvm/compiler.py).                          *)
(*                                                                         *)
(* Several worker threads of one search session share a directory of       *)
(* freshly linked executables, cand_<hash>.bin; several sessions share the *)
(* cache directory .autotune/cache/compilation, in which an entry is a     *)
(* pair of files, <key>.bin and <key>.json.  No lock protects either, so   *)
(* every system call that another thread or process can observe is a step. *)
(***************************************************************************)
EXTENDS Naturals

CONSTANTS
    Workers,     \* the threads of the search pools
    Sessions,    \* the running searches, one operating system process each
    SessionOf,   \* the session a worker belongs to
    Keys,        \* compilation keys; within a session also sequence hashes
    Modes,       \* how sessions may open their cache manager
    Faults,      \* what may go wrong
    MaxFaults    \* bound: how often something does

ASSUME SessionAssumption ==
    /\ SessionOf \in [Workers -> Sessions]
    \* the default; --fresh (fresh_all); --no-cache (enabled=False)
    /\ Modes \subseteq {"cached", "fresh", "off"} /\ Modes # {}
\* A session is killed; bytes are altered at rest (disk fault, manual edit);
\* "autotune cache clear" runs; a write or a removal fails (disk full, permissions).
ASSUME FaultAssumption ==
    /\ Faults \subseteq {"crash", "damage", "clear", "failure"}
    /\ MaxFaults \in Nat

\* What the bytes of an executable can be: the linker's whole output, a part
\* of it, or bytes altered at rest.  SHA-256 is taken to be collision free, so
\* a hash is represented by the content it was computed from; all torn copies
\* are one value.
Content == {"whole", "torn", "rotten"}
File    == Content \cup {"none"}
\* A metadata file is absent, records a hash, or cannot be used (json.load
\* fails, or the schema version is another one).
MetaFile == Content \cup {"none", "junk"}

VARIABLES
    mode,       \* mode[s]: how session s opened its cache manager
    bin,        \* bin[k]: the bytes of compilation/<k>.bin
    meta,       \* meta[k]: what compilation/<k>.json holds
    out,        \* out[s][k]: the bytes of cand_<hash>.bin in s's directory
    memo,       \* memo[s]: the keys in s's session_eval_cache
    recovered,  \* recovered[s]: metrics.cache_corruption_recovered
    pc,         \* pc[w]: the next statement of the worker
    key,        \* key[w]: the candidate it evaluates
    held,       \* held[w]: the bytes of the executable that a lookup verified, in
                \* its temporary file, or that it has run; gone with either
    hash,       \* hash[w]: expected_bin_hash in a get, bin_hash in a put, while
                \* the call lasts
    toClear,    \* the files a running "cache clear" has listed
    tainted,    \* history: the keys of executables altered before they were hashed
    happened,   \* history: the kinds of faults so far
    count       \* their number

disk    == <<bin, meta>>
session == <<mode, out, memo, recovered>>
worker  == <<pc, key, held, hash>>
past    == <<tainted, happened, count>>
faults  == <<toClear, past>>
vars    == <<disk, session, worker, faults>>

\* Where a worker has no evaluation in progress.  "raised" is an evaluation
\* that ended in an exception, which future.result() hands to evolve.
Resting == {"rest", "done", "failed", "raised"}
Labels  == Resting \cup
    {"probe", "readmeta", "verify", "hit", "unmeta", "unbin", "compile",
     "link", "put", "copy", "rename", "rehash", "record", "ready"}

\* The entries of the cache directory that "cache clear" may list.
Names == ({"bin", "meta"} \X Keys) \cup ({"temp"} \X Workers)

TypeOK ==
    /\ mode \in [Sessions -> Modes]
    /\ bin \in [Keys -> File]
    /\ meta \in [Keys -> MetaFile]
    /\ out \in [Sessions -> [Keys -> File]]
    /\ memo \in [Sessions -> SUBSET Keys]
    /\ recovered \in [Sessions -> BOOLEAN]
    /\ pc \in [Workers -> Labels]
    /\ key \in [Workers -> Keys]
    /\ held \in [Workers -> File]
    /\ hash \in [Workers -> File]
    /\ toClear \in SUBSET Names
    /\ tainted \in SUBSET Keys
    /\ happened \in SUBSET Faults
    /\ count \in 0..MaxFaults

Init ==
    /\ mode \in [Sessions -> Modes]
    /\ bin = [k \in Keys |-> "none"]
    /\ meta = [k \in Keys |-> "none"]
    /\ out = [s \in Sessions |-> [k \in Keys |-> "none"]]
    /\ memo = [s \in Sessions |-> {}]
    /\ recovered = [s \in Sessions |-> FALSE]
    /\ pc = [w \in Workers |-> "rest"]
    /\ key \in [Workers -> Keys]
    /\ held = [w \in Workers |-> "none"]
    /\ hash = [w \in Workers |-> "none"]
    /\ toClear = {}
    /\ tainted = {}
    /\ happened = {}
    /\ count = 0

Goto(w, label) == pc' = [pc EXCEPT ![w] = label]
Sees(w, c)     == held' = [held EXCEPT ![w] = c]

Mishap(kind) ==
    /\ kind \in Faults
    /\ count < MaxFaults
    /\ count' = count + 1
    /\ happened' = happened \cup {kind}

\* Line 188 of genetic.py and its kin: the evaluation ends and its result
\* enters session_eval_cache.
Remember(w) ==
    memo' = [memo EXCEPT ![SessionOf[w]] = @ \cup {key[w]}]

\* A worker takes a candidate that the session has not evaluated yet.  A
\* session that does not read its cache goes straight to the compiler.
Submit(w, k) ==
    /\ pc[w] \in Resting
    /\ k \notin memo[SessionOf[w]]
    /\ key' = [key EXCEPT ![w] = k]
    /\ Goto(w, IF mode[SessionOf[w]] = "cached" THEN "probe" ELSE "compile")
    /\ Sees(w, "none")
    /\ hash' = [hash EXCEPT ![w] = "none"]
    /\ UNCHANGED <<disk, session, faults>>

----------------------------------------------------------------------------
(* get_compilation                                                         *)

\* Without both files it is a plain miss: nothing is quarantined.
GetProbe(w) ==
    /\ pc[w] = "probe"
    /\ IF meta[key[w]] # "none" /\ bin[key[w]] # "none"
       THEN Goto(w, "readmeta")
       ELSE Goto(w, "compile")
    /\ UNCHANGED <<disk, session, key, held, hash, faults>>

\* Mutant: the metadata is used without looking at its schema version.
GetReadMetaUnchecked(w) ==
    /\ pc[w] = "readmeta"
    /\ hash' = [hash EXCEPT ![w] = meta[key[w]]]
    /\ Goto(w, "verify")
    /\ UNCHANGED <<disk, session, key, held, faults>>

\* An unusable file, and a file that is gone by now, take the same branch.
GetReadMeta(w) ==
    /\ pc[w] = "readmeta"
    /\ \/ /\ meta[key[w]] \in Content
          /\ hash' = [hash EXCEPT ![w] = meta[key[w]]]
          /\ Goto(w, "verify")
          /\ UNCHANGED recovered
       \/ /\ meta[key[w]] \notin Content
          /\ recovered' = [recovered EXCEPT ![SessionOf[w]] = TRUE]
          /\ Goto(w, "unmeta")
          /\ UNCHANGED hash
    /\ UNCHANGED <<disk, mode, out, memo, key, held, faults>>

\* Mutant: a hit without comparing the hashes.
GetVerifyTrusting(w) ==
    /\ pc[w] = "verify"
    /\ Sees(w, bin[key[w]])
    /\ Goto(w, "hit")
    /\ UNCHANGED <<disk, session, key, hash, faults>>

\* Mutant: a mismatch is a plain miss, nothing is quarantined.
GetVerifyMissing(w) ==
    /\ pc[w] = "verify"
    /\ \/ bin[key[w]] = hash[w] /\ Sees(w, bin[key[w]]) /\ Goto(w, "hit")
       \/ bin[key[w]] # hash[w] /\ Goto(w, "compile") /\ UNCHANGED held
    /\ hash' = [hash EXCEPT ![w] = "none"]
    /\ UNCHANGED <<disk, session, key, faults>>

\* hash_file of the executable against the recorded hash; an executable that
\* is gone by now raises and is treated as a mismatch.
GetVerify(w) ==
    /\ pc[w] = "verify"
    /\ \/ /\ bin[key[w]] = hash[w]
          /\ Sees(w, bin[key[w]])
          /\ Goto(w, "hit")
          /\ UNCHANGED recovered
       \/ /\ bin[key[w]] # hash[w]
          /\ recovered' = [recovered EXCEPT ![SessionOf[w]] = TRUE]
          /\ Goto(w, "unmeta")
          /\ UNCHANGED held
    /\ hash' = [hash EXCEPT ![w] = "none"]
    /\ UNCHANGED <<disk, mode, out, memo, key, faults>>

\* Mutant: only the metadata is quarantined.
QuarantineMetaOnly(w) ==
    /\ pc[w] = "unmeta"
    /\ meta' = [meta EXCEPT ![key[w]] = "none"]
    /\ Goto(w, "compile")
    /\ UNCHANGED <<bin, session, key, held, hash, faults>>

\* _quarantine(meta_path, bin_path): whatever is there by now is removed; an
\* error is swallowed, and the file stays.
QuarantineMeta(w) ==
    /\ pc[w] = "unmeta"
    /\ \/ /\ meta' = [meta EXCEPT ![key[w]] = "none"]
          /\ UNCHANGED past
       \/ /\ meta[key[w]] # "none"
          /\ Mishap("failure")
          /\ UNCHANGED <<meta, tainted>>
    /\ Goto(w, "unbin")
    /\ UNCHANGED <<bin, session, key, held, hash, toClear>>

QuarantineBin(w) ==
    /\ pc[w] = "unbin"
    /\ \/ /\ bin' = [bin EXCEPT ![key[w]] = "none"]
          /\ UNCHANGED past
       \/ /\ bin[key[w]] # "none"
          /\ Mishap("failure")
          /\ UNCHANGED <<bin, tainted>>
    /\ Goto(w, "compile")
    /\ UNCHANGED <<meta, session, key, held, hash, toClear>>

\* The caller's "cached_bin and os.path.exists(cached_bin)".
UseHit(w) ==
    /\ pc[w] = "hit"
    /\ Goto(w, IF bin[key[w]] = "none" THEN "compile" ELSE "ready")
    /\ Sees(w, "none")
    /\ UNCHANGED <<disk, session, key, hash, faults>>

----------------------------------------------------------------------------
(* compile_candidate.  Bitcode and opt run in a private directory; only    *)
(* the link step writes where another thread looks.                        *)

Linking(s, k) == {v \in Workers : SessionOf[v] = s /\ key[v] = k /\ pc[v] = "link"}

CompileFails(w) ==
    /\ pc[w] = "compile"
    /\ Goto(w, "failed")
    /\ Remember(w)
    /\ UNCHANGED <<disk, mode, out, recovered, key, held, hash, faults>>

LinkStart(w) ==
    /\ pc[w] = "compile"
    /\ out' = [out EXCEPT ![SessionOf[w]][key[w]] = "torn"]
    /\ Goto(w, "link")
    /\ UNCHANGED <<disk, mode, memo, recovered, key, held, hash, faults>>

\* The file is complete unless another thread is still writing the same name.
\* A disabled manager's put_compilation hands the linker's own file back.
LinkEnd(w) ==
    LET s == SessionOf[w] IN
    /\ pc[w] = "link"
    /\ \E c \in {"whole", "torn"} :
          /\ c = "torn" => Linking(s, key[w]) # {w}
          /\ out' = [out EXCEPT ![s][key[w]] = c]
    /\ Goto(w, IF mode[s] = "off" THEN "ready" ELSE "put")
    /\ UNCHANGED <<disk, mode, memo, recovered, key, held, hash, faults>>

\* Clang removes its output when the link fails; a link killed by the timeout
\* leaves what it has written.
LinkFails(w) ==
    /\ pc[w] = "link"
    /\ \E c \in {"none", "torn"} :
          out' = [out EXCEPT ![SessionOf[w]][key[w]] = c]
    /\ Goto(w, "failed")
    /\ Remember(w)
    /\ UNCHANGED <<disk, mode, recovered, key, held, hash, faults>>

----------------------------------------------------------------------------
(* put_compilation                                                         *)

\* An executable that is there already is returned as it is.
PutProbe(w) ==
    /\ pc[w] = "put"
    /\ Goto(w, IF bin[key[w]] = "none" THEN "copy" ELSE "ready")
    /\ UNCHANGED <<disk, session, key, held, hash, faults>>

\* Mutant: the copy goes straight to its final name.
PutCopyInPlace(w) ==
    LET src == out[SessionOf[w]][key[w]] IN
    /\ pc[w] = "copy"
    /\ Sees(w, src)
    /\ bin' = [bin EXCEPT ![key[w]] = "torn"]
    /\ Goto(w, IF src = "none" THEN "raised" ELSE "rename")
    /\ UNCHANGED <<meta, session, key, hash, faults>>

\* The private temporary file of _atomic_copy_file, filled from the linker's.
PutCopy(w) ==
    LET src == out[SessionOf[w]][key[w]] IN
    /\ pc[w] = "copy"
    /\ Sees(w, src)
    /\ Goto(w, IF src = "none" THEN "raised" ELSE "rename")
    /\ UNCHANGED <<disk, session, key, hash, faults>>

PutRename(w) ==
    /\ pc[w] = "rename"
    /\ \/ /\ held[w] # "none"
          /\ bin' = [bin EXCEPT ![key[w]] = held[w]]
          /\ Goto(w, "rehash")
          /\ Sees(w, "none")
       \/ /\ held[w] = "none"       \* the temporary file was cleared away
          /\ Goto(w, "raised")
          /\ UNCHANGED <<bin, held>>
    /\ UNCHANGED <<meta, session, key, hash, faults>>

\* The hash is that of the published copy, read back from the cache.
PutHash(w) ==
    /\ pc[w] = "rehash"
    /\ hash' = [hash EXCEPT ![w] = bin[key[w]]]
    /\ Goto(w, IF bin[key[w]] = "none" THEN "raised" ELSE "record")
    /\ UNCHANGED <<disk, session, key, held, faults>>

\* Mutant: the metadata is written in place, in two writes.
PutMetaInPlace(w) ==
    /\ pc[w] = "record"
    /\ \/ /\ meta' = [meta EXCEPT ![key[w]] = "junk"]
          /\ UNCHANGED pc
       \/ /\ meta' = [meta EXCEPT ![key[w]] = hash[w]]
          /\ Goto(w, "ready")
    /\ UNCHANGED <<bin, session, key, held, hash, faults>>

PutMeta(w) ==
    /\ pc[w] = "record"
    /\ meta' = [meta EXCEPT ![key[w]] = hash[w]]
    /\ Goto(w, "ready")
    /\ hash' = [hash EXCEPT ![w] = "none"]
    /\ UNCHANGED <<bin, session, key, held, faults>>

\* A copy, a rename, the read back or the write of the metadata fails: nothing
\* is undone, and the evaluation ends with the exception.
PutRaises(w) ==
    /\ pc[w] \in {"copy", "rename", "rehash", "record"}
    /\ Mishap("failure")
    /\ Goto(w, "raised")
    /\ Sees(w, "none")
    /\ hash' = [hash EXCEPT ![w] = "none"]
    /\ UNCHANGED <<disk, session, key, toClear, tainted>>

----------------------------------------------------------------------------
\* cand_bin, the path the rest of the evaluation uses.
CandidateFile(w) ==
    IF mode[SessionOf[w]] = "off" THEN out[SessionOf[w]][key[w]] ELSE bin[key[w]]

\* The candidate is executed and the evaluation recorded.
Run(w) ==
    /\ pc[w] = "ready"
    /\ Sees(w, CandidateFile(w))
    /\ Goto(w, "done")
    /\ Remember(w)
    /\ UNCHANGED <<disk, mode, out, recovered, key, hash, faults>>

----------------------------------------------------------------------------
(* Sessions end and die; files are damaged and cleared.                    *)

WorkersOf(s) == {w \in Workers : SessionOf[w] = s}

\* Everything in the process is gone; the next session has a new directory and
\* options of its own.
Forget(s) ==
    /\ \E m \in Modes : mode' = [mode EXCEPT ![s] = m]
    /\ out' = [out EXCEPT ![s] = [k \in Keys |-> "none"]]
    /\ memo' = [memo EXCEPT ![s] = {}]
    /\ recovered' = [recovered EXCEPT ![s] = FALSE]
    /\ pc' = [w \in Workers |-> IF SessionOf[w] = s THEN "rest" ELSE pc[w]]
    /\ held' = [w \in Workers |-> IF SessionOf[w] = s THEN "none" ELSE held[w]]
    /\ hash' = [w \in Workers |-> IF SessionOf[w] = s THEN "none" ELSE hash[w]]
    /\ UNCHANGED <<disk, key>>

\* evolve leaves its temporary directory, after its last generation or with
\* the exception of an evaluation; the pool has waited for every worker.
EndSession(s) ==
    /\ \A w \in WorkersOf(s) : pc[w] \in Resting
    /\ \E w \in WorkersOf(s) : pc[w] # "rest"
    /\ Forget(s)
    /\ UNCHANGED faults

Crash(s) ==
    /\ Mishap("crash")
    /\ \E w \in WorkersOf(s) : pc[w] \notin Resting
    /\ Forget(s)
    /\ UNCHANGED <<toClear, tainted>>

\* A file of the cache directory is altered, at any moment: an executable,
\* perhaps one that a put has published and not hashed yet, its metadata, or
\* the temporary file of a put.
Damage(k) ==
    /\ Mishap("damage")
    /\ \/ /\ bin[k] # "none"
          /\ bin' = [bin EXCEPT ![k] = "rotten"]
          /\ tainted' = tainted \cup
                {j \in {k} : \E w \in Workers : key[w] = k /\ pc[w] = "rehash"}
          /\ UNCHANGED <<meta, held>>
       \/ /\ meta[k] # "none"
          /\ meta' = [meta EXCEPT ![k] = "junk"]
          /\ UNCHANGED <<bin, held, tainted>>
       \/ \E w \in Workers :
          /\ key[w] = k /\ pc[w] = "rename" /\ held[w] # "none"
          /\ Sees(w, "rotten")
          /\ tainted' = tainted \cup {k}
          /\ UNCHANGED disk
    /\ UNCHANGED <<session, pc, key, hash, toClear>>

\* The names a listing of the cache directory returns.
Listing ==
    {<<"bin", k>> : k \in {j \in Keys : bin[j] # "none"}} \cup
    {<<"meta", k>> : k \in {j \in Keys : meta[j] # "none"}} \cup
    {<<"temp", w>> : w \in {v \in Workers : pc[v] = "rename" /\ held[v] # "none"}}

\* "autotune cache clear": shutil.rmtree lists the directory once and then
\* unlinks the names one by one.
ClearStart ==
    /\ Mishap("clear")
    /\ toClear = {}
    /\ Listing # {}
    /\ toClear' = Listing
    /\ UNCHANGED <<disk, session, worker, tainted>>

\* A name that is gone by now makes rmtree raise in some Python versions.
ClearNext(f) ==
    /\ f \in toClear
    /\ \/ toClear' = toClear \ {f}
       \/ f \notin Listing /\ toClear' = {}
    /\ bin' = IF f[1] = "bin" THEN [bin EXCEPT ![f[2]] = "none"] ELSE bin
    /\ meta' = IF f[1] = "meta" THEN [meta EXCEPT ![f[2]] = "none"] ELSE meta
    /\ held' = IF f[1] = "temp" /\ f \in Listing
               THEN [held EXCEPT ![f[2]] = "none"] ELSE held
    /\ UNCHANGED <<session, pc, key, hash, past>>

----------------------------------------------------------------------------
Get(w) == GetProbe(w) \/ GetReadMeta(w) \/ GetVerify(w) \/ QuarantineMeta(w)
          \/ QuarantineBin(w) \/ UseHit(w)
Compile(w) == CompileFails(w) \/ LinkStart(w) \/ LinkEnd(w) \/ LinkFails(w)
Put(w) == PutProbe(w) \/ PutCopy(w) \/ PutRename(w) \/ PutHash(w) \/ PutMeta(w)
          \/ PutRaises(w)
Acquire(w) == Get(w) \/ Compile(w) \/ Put(w)

Environment ==
    \/ \E s \in Sessions : EndSession(s) \/ Crash(s)
    \/ \E k \in Keys : Damage(k)
    \/ ClearStart
    \/ \E f \in Names : ClearNext(f)

Next ==
    \/ \E w \in Workers : \/ \E k \in Keys : Submit(w, k)
                          \/ Acquire(w)
                          \/ Run(w)
    \/ Environment

Spec == Init /\ [][Next]_vars

\* A thread that is inside an evaluation keeps being scheduled, every
\* subprocess it waits for has a timeout, and a finished session ends.  Nothing
\* obliges anybody to submit a candidate.
Fairness ==
    /\ \A w \in Workers : WF_vars(Acquire(w) \/ Run(w))
    /\ \A s \in Sessions : WF_vars(EndSession(s))

FairSpec == Spec /\ Fairness
----------------------------------------------------------------------------
(* What the layer promises.                                                *)

\* No two threads share an output directory: one worker per session.
PrivateOutputs == \A v, w \in Workers : SessionOf[v] = SessionOf[w] => v = w

\* A lookup never reports a hit on altered bytes, and no put records their hash,
\* whatever the threads, sessions, kills, failures and clears in between, unless
\* they were altered after put_compilation had read the linker's file and before
\* it read its own copy back: those it takes for the candidate's.
AlteredBytesNeverVerified ==
    \A k \in Keys \ tainted :
        /\ meta[k] # "rotten"
        /\ \A w \in Workers : key[w] = k =>
              /\ pc[w] = "hit" => held[w] # "rotten"
              /\ pc[w] = "record" => hash[w] # "rotten"

\* Somebody who is about to write the metadata of k, or to remove its binary.
WillSettle(k) ==
    \E w \in Workers : key[w] = k /\ pc[w] \in {"rehash", "record", "unbin"}

\* An executable without metadata, which put_compilation would never replace and
\* get_compilation never return, and which nobody is about to settle.
Orphan(k) == bin[k] # "none" /\ meta[k] = "none" /\ ~WillSettle(k)

\* Only a kill, a clear, or a write or a removal that fails leaves one.
OrphansHaveOwners ==
    happened \subseteq {"damage"} => \A k \in Keys : ~Orphan(k)

\* With one worker per session, temporary file plus rename keeps every
\* published executable complete, however sessions interleave, die and restart.
NoTornArtifact ==
    PrivateOutputs =>
        /\ \A k \in Keys : bin[k] # "torn" /\ meta[k] # "torn"
        /\ \A w \in Workers : pc[w] = "done" => held[w] # "torn"

\* With one worker per session, no session ever quarantines what another one is
\* publishing: nothing is reported as recovered corruption unless files were
\* altered or cleared.
NoFalseAlarm ==
    PrivateOutputs /\ happened \subseteq {"crash", "failure"} =>
        \A s \in Sessions : ~recovered[s]

\* Where a worker is, for those who know nothing of files.
Doing(w) ==
    CASE pc[w] \in Resting                                            -> "idle"
      [] pc[w] \in {"probe", "readmeta", "verify", "unmeta"}          -> "looking"
      [] pc[w] \in {"unbin", "compile", "link", "put", "copy", "rename"} -> "making"
      [] pc[w] \in {"hit", "rehash", "record"}                        -> "holding"
      [] pc[w] = "ready" -> IF mode[SessionOf[w]] = "off" THEN "own" ELSE "holding"

Store == INSTANCE ExecutableStore WITH
    Shared <- ~PrivateOutputs,
    entry  <- bin,
    doing  <- [w \in Workers |-> Doing(w)],
    want   <- key,
    tainted <- tainted,
    harmed <- happened \cap {"damage", "clear"} # {}

\* However threads, processes, kills, failures, damage and clears interleave,
\* lookup and put are as good as atomic and the store is immutable: altered bytes
\* answer no lookup, unless altered during a put; a put fills an empty or altered
\* entry or leaves it alone; and with one worker per session no other step
\* changes or removes an entry unless files were altered or cleared.
ImplementsStore == Store!Spec

Intact(k) == bin[k] = "whole" /\ meta[k] = "whole"

\* A key that keeps being evaluated by sessions that read the cache is intact
\* again and again: an unusable entry is recomputed and republished
\* (docs/caching.md, "Corruption Recovery & Quarantine Protocol").
EngineRecomputesEntry ==
    \A k \in Keys :
        ([]<>(\E w \in Workers : pc[w] = "ready" /\ key[w] = k)) => []<>Intact(k)

\* The same, as the code keeps it: whoever is killed, whatever fails or is
\* damaged or cleared, and whichever modes the sessions run in, only an orphan
\* and an executable altered during its put stay.
EntryIsRecomputed ==
    \A k \in Keys :
        /\ [](~Orphan(k) /\ k \notin tainted)
        /\ []<>(\E w \in Workers :
                pc[w] = "ready" /\ key[w] = k /\ mode[SessionOf[w]] = "cached")
        => []<>Intact(k)

\* docs/caching.md, "Atomic Storage Safety & Worker Concurrency": parallel
\* workers do not publish truncated executables.
WorkersNeverPublishTornArtifacts == \A k \in Keys : bin[k] # "torn"
=============================================================================
