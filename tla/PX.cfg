SPECIFICATION FairSpec
CONSTANTS
    None = None
    Registrations = {"r1", "r2"}
    SecretNames = {"s1", "s2", "s3"}
    Specs <- SomeSpecs
    InitSpec <- Base
    Edits <- SomeEdits
    SecretRank <- Rank
    MaxTokens = 6
    MaxDisturbances <- TwoWithLagElseFour
    Lags = {TRUE, FALSE}
INVARIANT TokenMadeOnce
INVARIANT TokenStored
PROPERTY ProxySettles
CHECK_DEADLOCK FALSE
