-------------------------- MODULE ExecutableStore --------------------------
(***************************************************************************)
(* What the compilation layer promises the threads that use it: a map from *)
(* keys to executables whose lookup and put take one step each             *)
(* (docs/caching.md, "atomic file operations across all cache              *)
(* publications").  There is no metadata, no hash and no temporary file;   *)
(* CompilationCache implements it with them.                               *)
(***************************************************************************)
EXTENDS Naturals

CONSTANTS
    Workers,  \* the threads that use the store
    Keys,     \* compilation keys
    Shared    \* whether two of them may link to one file name

VARIABLES
    entry,   \* entry[k]: the bytes stored under k, or "none"
    doing,   \* doing[w]: where its evaluation is
    want,    \* want[w]: the key it evaluates
    tainted, \* the keys of executables altered while they were being put
    harmed   \* whether something was altered at rest, or a clear has begun

faults == <<tainted, harmed>>
vars   == <<entry, doing, want, faults>>

\* "looking" may still be answered by the store, "making" compiles, "holding"
\* has the path of an entry, and "own" that of an executable outside the store.
Doings == {"idle", "looking", "making", "holding", "own"}

\* What a compilation may put into the store.
Outputs == IF Shared THEN {"whole", "torn"} ELSE {"whole"}

\* What the store takes for the output of a compilation of k.
Taken(k) == Outputs \cup {c \in {"rotten"} : k \in tainted}

Init ==
    /\ entry = [k \in Keys |-> "none"]
    /\ doing = [w \in Workers |-> "idle"]
    /\ want \in [Workers -> Keys]
    /\ tainted = {}
    /\ harmed = FALSE

Turn(w, from, to) ==
    /\ doing[w] = from
    /\ doing' = [doing EXCEPT ![w] = to]

\* A session that does not read the store compiles at once.
Ask(w, k) ==
    /\ Turn(w, "idle", "looking") \/ Turn(w, "idle", "making")
    /\ want' = [want EXCEPT ![w] = k]
    /\ UNCHANGED <<entry, faults>>

\* A lookup answers only with bytes that it takes for those once put there.
Hit(w) ==
    /\ Turn(w, "looking", "holding")
    /\ entry[want[w]] \in Taken(want[w])
    /\ UNCHANGED <<entry, want, faults>>

Miss(w) ==
    /\ Turn(w, "looking", "making")
    /\ UNCHANGED <<entry, want, faults>>

\* The entry has gone between the answer and its use.
Lost(w) ==
    /\ Turn(w, "holding", "making")
    /\ entry[want[w]] = "none"
    /\ UNCHANGED <<entry, want, faults>>

\* A put changes nothing where there is an entry, which it does not verify.
Found(w) ==
    /\ Turn(w, "making", "holding")
    /\ entry[want[w]] # "none"
    /\ UNCHANGED <<entry, want, faults>>

\* A put fills an empty entry; meanwhile the same may have been put there, and
\* altered.
Fill(w) ==
    /\ Turn(w, "making", "holding")
    /\ \E c \in Taken(want[w]) :
          /\ \/ entry[want[w]] \in {"none", "rotten", c}
             \/ Shared \/ want[w] \in tainted
          /\ entry' = [entry EXCEPT ![want[w]] = c]
    /\ UNCHANGED <<want, faults>>

\* A session without a cache uses what it linked.
Keep(w) ==
    /\ Turn(w, "making", "own")
    /\ UNCHANGED <<entry, want, faults>>

\* The compilation failed, the executable has been run, or an exception.
Leave(w) ==
    /\ Turn(w, "making", "idle") \/ Turn(w, "holding", "idle") \/ Turn(w, "own", "idle")
    /\ UNCHANGED <<entry, want, faults>>

\* Threads die with their session.
Die(dead) ==
    /\ doing' = [w \in Workers |-> IF w \in dead THEN "idle" ELSE doing[w]]
    /\ UNCHANGED <<entry, want, faults>>

\* An entry, or what the store keeps beside it, is altered at rest; or, while
\* somebody is putting it, what is being put.
Alter(k) ==
    /\ \/ entry[k] # "none" /\ entry' = [entry EXCEPT ![k] = "rotten"]
       \/ UNCHANGED entry
    /\ \/ UNCHANGED tainted
       \/ /\ \E w \in Workers : want[w] = k /\ doing[w] \in {"making", "holding"}
          /\ tainted' = tainted \cup {k}
    /\ harmed' = TRUE
    /\ UNCHANGED <<doing, want>>

\* A clear begins.
Doom ==
    /\ harmed' = TRUE
    /\ UNCHANGED <<entry, doing, want, tainted>>

\* An entry is only removed because something was altered, or by a clear.
Remove(k) ==
    /\ harmed \/ Shared
    /\ entry' = [entry EXCEPT ![k] = "none"]
    /\ UNCHANGED <<doing, want, faults>>

Next ==
    \/ \E w \in Workers : \/ \E k \in Keys : Ask(w, k)
                          \/ Hit(w) \/ Miss(w) \/ Lost(w) \/ Found(w)
                          \/ Fill(w) \/ Keep(w) \/ Leave(w)
    \/ \E dead \in SUBSET Workers : Die(dead)
    \/ \E k \in Keys : Alter(k) \/ Remove(k)
    \/ Doom

Spec == Init /\ [][Next]_vars
=============================================================================
