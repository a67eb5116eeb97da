SPECIFICATION FairSpec
CONSTANTS
    None = None
    ControlPlanes = {"cp1", "cp2"}
    URLs = {"u1", "u1b", "u2"}
    Servers = {"srv1", "srv2"}
    ServerOf <- ServerOfURL
    HomeOf <- HomeOfCP
    CPStates <- ClosingCPs
    Orgs = {"o1"}
    KeyNames = {"k1", "k2"}
    Tags = {"t1", "t2"}
    SecretNames = {"s1", "s2"}
    Specs <- AllSpecs
    InitSpecs <- OnlyBase
    Edits <- OneWay
    MaxKeys = 8
    MaxDisturbances = 4
    RemoteFaults = TRUE
    CacheLag = FALSE
INVARIANT CustodyInv
INVARIANT DamageIsVisible
PROPERTY Convergence
PROPERTY KeyLeftAlone
CHECK_DEADLOCK FALSE
