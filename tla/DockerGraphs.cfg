SPECIFICATION FairSpec
CONSTANTS
    A = A
    B = B
    C = C
    Order <- ThreeInOrder
    StopOrder <- TwoInOrder
    Graphs <- AllGraphs
    AllowOld = {C}
    Probed = {A}
    Modes = {"run"}
    Retries = 1
    MaxRefusals = 1
    MaxCrashes = 0
    Interrupts = TRUE
INVARIANTS NoneIsExplained LeavesNothing
PROPERTIES StartsAfterDependencies HealthIsFinal SessionEnds
CHECK_DEADLOCK FALSE
