SPECIFICATION FairSpec
CONSTANTS
    k1 = k1
    k2 = k2
    k3 = k3
    k4 = k4
    Keys = {k1, k2, k3, k4}
    Pruned <- OneRepeat
    PopSize = 3
    Generations = 4
    EliteCount = 2
    MaxStagnant = 2
    HasBudget = TRUE
    MaxWorkers = 2
    MaxSpeed = 3
\* A search that has ended takes no more steps.
CHECK_DEADLOCK FALSE
INVARIANTS
    TypeOK
    BestIsReturned
    ReturnedIsEvaluated
    PlateauIsReal
    MeasuredByRacersOnly
PROPERTIES
    Terminates
