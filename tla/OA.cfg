SPECIFICATION FairSpec
CONSTANTS
    None = None
    SecretNames = {"s1", "s2"}
    Databases = {"db1", "db2"}
    Orgs = {"o1", "o2"}
    InitSpec <- Enabled
    Edits <- AnyEdit
    InitOrgs <- OneOrg
    Namespace = "a"
    Neighbours <- OtherControlPlanes
    MaxTokens = 7
    MaxDisturbances = 3
INVARIANT DisabledNotReady
INVARIANT ForgottenOnlyWhenRevoked
INVARIANT ServiceInv
PROPERTY Settles
PROPERTY RequestsServed
PROPERTY NoInterruption
CHECK_DEADLOCK FALSE
