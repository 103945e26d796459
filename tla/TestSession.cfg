SPECIFICATION Spec
CONSTANTS
    Tests <- ThreeTests
    Manifests <- SomeManifests
    Versions <- SomeVersions
    Weblogs = {"w1", "w2"}
    Forced <- SomeForced
    Scenario = "DEFAULT"
    MaxSessions = 2
INVARIANTS EnabledAsWritten StatusIsRight JunitIsComplete ReplaySeesItsSetup
CHECK_DEADLOCK FALSE
