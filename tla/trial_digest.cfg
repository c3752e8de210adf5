SPECIFICATION Spec
CONSTANTS
    Passes <- AllPasses
    Alias <- Aliases
    Table <- Listed
    Kind <- PassKinds
    Idempotent = {"mem2reg"}
    Known = {"mem2reg", "slp-vectorizer", "inline", "constmerge", "aa"}
    Lowering = {"mem2reg"}
    Fallback <- Default
    MinLength = 2
    MaxLength = 3
    Cap = 2
    Epsilon = 1
    Worlds <- Aside
    Seeds <- Population
    Bred <- Breeds
    Keys <- AllKeys
    Warmups = 1
    Repetitions = 2
    MaxTrials = 2
    MaxFaults = 1
\* A search that has bred all its candidates stops.
CHECK_DEADLOCK FALSE
INVARIANT DigestsAreCompared
