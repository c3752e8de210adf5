SPECIFICATION Spec
CONSTANTS
    w1 = w1
    w2 = w2
    w3 = w3
    s1 = s1
    s2 = s2
    Workers = {w1, w2}
    Sessions = {s1}
    SessionOf <- Threads
    Modes = {"cached"}
    Keys = {k1}
    Faults = {}
    MaxFaults = 0
INVARIANTS WorkersNeverPublishTornArtifacts
