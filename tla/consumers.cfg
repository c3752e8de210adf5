SPECIFICATION FairSpec
CONSTANTS
    c1 = c1
    c2 = c2
    Commands = {c1, c2}
    Launches <- SomeLaunches
    Reports = {"fast", "slow", "parity", "noreport"}
    Rec <- Records
    Dirs = {"latest"}
    Times = {10, 15, 20, 30}
    Threshold = 5
    Tolerance = 10
    MaxFaults = 2
    MaxEdits = 1
    MaxInterrupts = 1
\* A command that has ended takes no more steps.
CHECK_DEADLOCK FALSE
INVARIANTS
    TypeOK
    AcceptedIsFaithful
    RejectionsHaveReasons
    GuardComparesMeasurements
    FaithfulReplayConfirms
    AppliedIsWhole
    ManifestListsWhatExists
PROPERTIES
    JudgementsEnd
