SPECIFICATION Spec
CONSTANTS
    w1 = w1
    w2 = w2
    w3 = w3
    s1 = s1
    s2 = s2
    good = good
    bad = bad
    Workers = {w1, w2, w3}
    Sessions = {s1}
    SessionOf <- OneSearch
    Keys = {good}
    Configs <- TwoBaselines
    Drift = FALSE
    Output <- OneOutput
    Modes = {"cached", "freshbench", "fresh", "off"}
    MaxTransients = 1
    MaxDamage = 1
    MaxClears = 1
SYMMETRY Threads
INVARIANTS
    TypeOK
    ValidMeansCorrect
    RejectionsAreJustified
