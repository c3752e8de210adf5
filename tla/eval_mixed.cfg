SPECIFICATION Spec
CONSTANTS
    w1 = w1
    w2 = w2
    w3 = w3
    s1 = s1
    s2 = s2
    good = good
    bad = bad
    Workers = {w1, w2}
    Sessions = {s1, s2}
    SessionOf <- Processes
    Keys = {good}
    Configs <- TwoBaselines
    Drift = TRUE
    Output <- OneOutput
    Modes = {"cached", "freshbench", "fresh", "off"}
    MaxTransients = 1
    MaxDamage = 1
    MaxClears = 1
INVARIANTS
    BypassIsTrustworthy
