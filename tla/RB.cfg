SPECIFICATION FairSpec
CONSTANTS
    None = None
    Home = "home"
    Namespaces = {"n1"}
    Accounts = {"a1", "a2"}
    Rules = {"r1", "r2"}
    Specs <- SomeSpecs
    InitSpecs <- OnlyBase
    InitObjects <- OnlyLegacy
    MaxDisturbances <- OneWithLagElseThree
INVARIANT RBACInv
INVARIANT NoLeftovers
PROPERTY FinalizerGuardsRBAC
PROPERTY NoOutage
PROPERTY OthersLeftAlone
PROPERTY RBACSettles
CHECK_DEADLOCK FALSE
