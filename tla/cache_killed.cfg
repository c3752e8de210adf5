SPECIFICATION FairSpec
CONSTANTS
    w1 = w1
    w2 = w2
    w3 = w3
    s1 = s1
    s2 = s2
    Workers = {w1, w2}
    Sessions = {s1, s2}
    SessionOf <- Processes
    Modes = {"cached"}
    Keys = {k1}
    Faults = {"crash"}
    MaxFaults = 1
PROPERTIES EngineRecomputesEntry
