SPECIFICATION FairSpec
CONSTANTS
    Jobs = {j1, j2}
    MaxAmis = 2
    MaxClock = 4
    JobsUntil = 1
    MaxFaults = 1
    Attempts = 2
    BuildWindow = 1
    RetentionDays = 2
    LastLaunchedDays = 0
    ReportDelay = 1
INVARIANTS VerdictIsEarned TrustedBoot
PROPERTIES HiddenLaunchIsSafe EventuallyRemoved
CHECK_DEADLOCK FALSE
