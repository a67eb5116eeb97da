SPECIFICATION FairSpec
CONSTANTS
    None = None
    SecretNames = {"s1"}
    Licenses = {"l1", "l2"}
    MaxDisturbances = 3
    CacheLag = TRUE
INVARIANT AppliedMeansUploaded
INVARIANT ConditionFitsSpec
INVARIANT LicenseInv
PROPERTY LicenseSettles
CHECK_DEADLOCK FALSE
