SPECIFICATION FairSpec
CHECK_DEADLOCK FALSE
CONSTANTS
    n1 = n1  n2 = n2  w1 = w1  w2 = w2  ua = ua  ub = ub  fast = fast
    NoItem = NoItem  NoVol = NoVol  Foreign = Foreign  NoUid = NoUid  NoNode = NoNode
    Segments = {"data", "logs", "redis", "0"}  Numerals = {"0"}
    Nodes = {n1}
    Workers = {w1, w2}
    Names <- DataAndLogs
    Uids = {ua, ub}
    Classes = {fast}
    Items <- ItemsMC
    NodeOf <- OnFirstNode
    NameOf <- EachTemplate
    ClassOf <- OneClass
    PathOf <- ByExample
    Paths <- PathsMC
    Below <- BelowMC
    DriverOf <- AllBtrfs
    NodeParam <- FirstNode
    Waits = {}
    Deletes = {}
    Adopt = {}
    Rejected = {}
    Occupied <- Parents
    Resyncs = FALSE
    Annotates = FALSE
    MaxRetries = 0
    MaxFaults = 0
    MaxRestarts = 0
PROPERTIES
    NoSilentAdoption
    EventuallyProvisioned
