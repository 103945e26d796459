SPECIFICATION Spec
CONSTANTS
    N = 2
    Handlers = {h1, h2}
    Watchdog = Watchdog
    Main = Main
    NoThread = NoThread
    NoFunction = NoFunction
    Functions <- PureFunctions
    Bad = {}
    MaxWaits = 2
    Modes = {"watched"}
SYMMETRY RequestThreads
INVARIANTS TrueMeansItHappened
CHECK_DEADLOCK FALSE
