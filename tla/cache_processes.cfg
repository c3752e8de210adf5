SPECIFICATION FairSpec
CONSTANTS
    w1 = w1
    w2 = w2
    w3 = w3
    s1 = s1
    s2 = s2
    Workers = {w1, w2}
    Sessions = {s1, s2}
    SessionOf <- Processes
    Modes = {"cached", "fresh", "off"}
    Keys = {k1}
    Faults = {"crash", "damage", "clear", "failure"}
    MaxFaults = 2
INVARIANTS
    TypeOK
    OrphansHaveOwners
    AlteredBytesNeverVerified
    NoTornArtifact
    NoFalseAlarm
PROPERTIES
    ImplementsStore
    EntryIsRecomputed
