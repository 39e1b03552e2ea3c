SPECIFICATION Spec
SYMMETRY NodeSymmetry
CHECK_DEADLOCK FALSE
CONSTANTS
    n1 = n1  n2 = n2  w1 = w1  w2 = w2  ua = ua  ub = ub  fast = fast
    NoItem = NoItem  NoVol = NoVol  Foreign = Foreign  NoUid = NoUid  NoNode = NoNode
    Segments = {"data", "logs", "redis", "0"}  Numerals = {"0"}
    Nodes = {n1, n2}
    Workers = {w1, w2}
    Names <- JustData
    Uids = {ua}
    Classes = {fast}
    Items <- ItemsMC
    NodeOf <- OnePerNode
    NameOf <- EachData
    ClassOf <- OneClass
    PathOf <- ByExample
    Paths <- PathsMC
    Below <- BelowMC
    DriverOf <- AllDir
    NodeParam <- AnyNode
    Waits = {fast}
    Deletes = {fast}
    Adopt = {}
    Rejected = {}
    Occupied <- None
    Resyncs = FALSE
    Annotates = FALSE
    MaxRetries = 1
    MaxFaults = 0
    MaxRestarts = 0
INVARIANTS
    SingleHome
PROPERTIES
    RemovedVolumeIsGone
