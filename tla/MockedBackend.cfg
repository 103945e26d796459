SPECIFICATION Spec
CONSTANTS
    Threads = {t1, t2}
    Kinds = {"json", "rules", "other"}
    Mocks = {{"json"}}
    Timelines <- ShortTimelines
    MaxRequests = 3
    MaxControls = 2
SYMMETRY RequestThreads
INVARIANTS InFlightIsReal CodesFollowTimeline EveryRequestIsRecorded
CHECK_DEADLOCK FALSE
