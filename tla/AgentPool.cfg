SPECIFICATION FairSpec
CONSTANTS
    MaxTests = 3
    MaxFaults = 3
    WaitLoops = 2
INVARIANTS TestsAreIsolated  NoAgentIsLeft
PROPERTIES WorkerEnds
CHECK_DEADLOCK FALSE
