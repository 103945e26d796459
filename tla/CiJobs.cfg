SPECIFICATION FairSpec
CONSTANTS
    Scenarios = {1, 2, 3, 4, 5}
    Default = 1
    EndToEnd = {1, 2, 3, 4, 5}
    Excluded = {}
    Groups <- SmallGroups
    AllGroup = "all"
    ScenarioLibs <- SmallLibs
    Libraries = {"java", "nodejs"}
    NodeJs = "nodejs"
    ScenarioMap <- SmallMap
    FileOf <- SmallFileOf
    Begins <- SmallBegins
    Files <- SmallFiles
    MaxModified = 2
    SupportFiles <- SmallSupport
    Impacts <- SmallImpacts
    DefinedIn <- SmallDefined
    OldManifests <- SmallRules
    Declarations = {0, 1}
    Weblogs = {1, 2}
    Supports <- SmallSupports
    RunTime <- SmallRunTime
    BuildTime <- SmallBuildTime
    NodeJsTime = 3
    OneLibraryTime = 4
    ManyLibrariesTime = 6
    Maxima = {1, 2, 3, 4}
INVARIANTS ChangesAreTested SplitIsTight
PROPERTIES JobsAreComputed
