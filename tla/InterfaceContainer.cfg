SPECIFICATION FairSpec
CONSTANTS
    N = 2
    Handlers = {h1, h2}
    Watchdog = Watchdog
    Main = Main
    NoThread = NoThread
    NoFunction = NoFunction
    Functions <- SomeFunctions
    Bad = {2}
    MaxWaits = 2
    Modes = {"drained", "direct"}
INVARIANTS OnceAndInOrder NoLostWakeup TrueIsJustified DrainIsComplete CheckIsFinal
PROPERTIES ImplementsLog AnswersWait EventuallyIngested
CHECK_DEADLOCK FALSE
