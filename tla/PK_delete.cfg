SPECIFICATION Spec
CONSTANTS
    None = None
    ControlPlanes = {"cp1", "cp2"}
    URLs = {"u1", "u1b", "u2"}
    Servers = {"srv1", "srv2"}
    ServerOf <- ServerOfURL
    HomeOf <- HomeOfCP
    CPStates <- MovingCPs
    Orgs = {"o1"}
    KeyNames = {"k1", "k2"}
    Tags = {"t1", "t2"}
    SecretNames = {"s1", "s2"}
    Specs <- AllSpecs
    InitSpecs <- OnlyBase
    Edits <- TagEdits
    MaxKeys = 8
    MaxDisturbances = 3
    RemoteFaults = FALSE
    CacheLag = TRUE
INVARIANT Custody
INVARIANT DeletionInv
INVARIANT NoOrphanedKey
PROPERTY FinalizerGuardsKeys
CHECK_DEADLOCK FALSE
