SPECIFICATION FairSpec
CONSTANTS
    None = None
    InitSpec <- ByGateway
    Edits <- AnyEdit
    Squatters <- OneSquatter
    MaxDisturbances <- Bounds
INVARIANT ExposureInv
INVARIANT QuietMeansRight
PROPERTY ExposureSettles
PROPERTY NoGap
PROPERTY OthersLeftAlone
CHECK_DEADLOCK FALSE
