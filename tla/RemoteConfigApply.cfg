SPECIFICATION FairSpec
CONSTANTS
    Clients = {c1}
    Paths = {p1}
    Outcomes = {"UNACKNOWLEDGED", "ACKNOWLEDGED"}
    NeedsEmptying = TRUE
    MaxVersion = 3
    NoPoll = NoPoll
INVARIANTS AcknowledgedIsCurrent UnsubscribedIsUnknown
PROPERTIES EmptiedBeforeReload NeverRollsBack EventuallyApplied
CHECK_DEADLOCK FALSE
