SPECIFICATION FairSpec
CONSTANTS
    None = None
    ControlPlanes = {"cp1", "cp2"}
    URLs = {"u1", "u1b", "u2"}
    Servers = {"srv1", "srv2"}
    ServerOf <- ServerOfURL
    HomeOf <- HomeOfCP
    CPStates <- OpenCPs
    Orgs = {"o1"}
    KeyNames = {"k1", "k2"}
    Tags = {"t1", "t2"}
    SecretNames = {"s1", "s2"}
    Specs <- AllSpecs
    InitSpecs <- OnlyBase
    Edits <- TagEdits
    MaxKeys = 8
    MaxDisturbances = 2
    RemoteFaults = FALSE
    CacheLag = FALSE
PROPERTY TagsHashApplied
CHECK_DEADLOCK FALSE
