SPECIFICATION FairSpec
CONSTANTS
    None = None
    Registrations = {"r1", "r2"}
    SecretNames = {"s1", "s2", "s3"}
    Specs <- SomeSpecs
    InitSpec <- Base
    Edits <- NoEdits
    SecretRank <- Rank
    MaxTokens = 6
    MaxDisturbances <- NoDisturbances
    Lags = {TRUE}
PROPERTY GeneratedTokenStored
CHECK_DEADLOCK FALSE
