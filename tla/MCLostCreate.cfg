SPECIFICATION FairSpec
CHECK_DEADLOCK FALSE
CONSTANTS
    n1 = n1  n2 = n2  w1 = w1  w2 = w2  ua = ua  ub = ub  fast = fast
    NoItem = NoItem  NoVol = NoVol  Foreign = Foreign  NoUid = NoUid  NoNode = NoNode
    Segments = {"data", "logs", "redis", "0"}  Numerals = {"0"}
    Nodes = {n1}
    Workers = {w1}
    Names <- JustData
    Uids = {ua}
    Classes = {fast}
    Items <- ItemsMC
    NodeOf <- OnFirstNode
    NameOf <- EachData
    ClassOf <- OneClass
    PathOf <- ByExample
    Paths <- PathsMC
    Below <- BelowMC
    DriverOf <- AllDir
    NodeParam <- FirstNode
    Waits = {}
    Deletes = {fast}
    Adopt = {}
    Rejected = {}
    Occupied <- None
    Resyncs = TRUE
    Annotates = FALSE
    MaxRetries = 1
    MaxFaults = 1
    MaxRestarts = 0
PROPERTIES
    EventuallyProvisioned
