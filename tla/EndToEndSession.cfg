SPECIFICATION FairSpec
CONSTANTS
    proxy = proxy
    backend = backend
    agent = agent
    buddy = buddy
    weblog = weblog
    db = db
    mssql = mssql
    UseProxy = FALSE
    Agent = TRUE
    Buddies = FALSE
    Databases = {mssql}
    Order <- ContainerList
    StopOrder <- StopList
    Graphs <- TopologyGraphs
    AllowOld = {}
    Probed <- Probes
    Modes = {"run", "replay", "collectonly", "declaration_report", "sleep"}
    Retries = 0
    MaxRefusals = 1
    MaxCrashes = 1
    Interrupts = TRUE
PROPERTIES ReceiversStopLast
CHECK_DEADLOCK FALSE
