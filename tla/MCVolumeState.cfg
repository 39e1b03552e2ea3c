SPECIFICATION FairSpec
CHECK_DEADLOCK FALSE
CONSTANTS
    w1 = w1  NoItem = NoItem  NoOwner = NoOwner  NoMode = NoMode  NoQuota = NoQuota  BadQuota = BadQuota
    Workers = {w1}
    Items = {"claim"}
    Claim <- TheClaim
    Drivers = {"zfs", "dir"}
    MaxRetries = 0
    Size = 3
    Links = {2}
    Width = 4
    Modes = {"0755", "0750"}
    Quotas = {"1Gi"}
    Props = {"atime", "sync"}
    Base = {"atime"}
    Confs <- AllConfs
    FirstTree <- TreeMC
    FirstProps = {"atime"}
    MaxEdits = 1
    MaxGrants = 1
    MaxAbsences = 1
    MaxFaults = 1
    MaxRestarts = 1
INVARIANTS
    StateTypeOK
    UpToDateWhenClean
    NothingUnauthorised
    LinksUntouched
    OneShotUndisturbed
PROPERTIES
    EventuallyApplied
    GrantSettled
