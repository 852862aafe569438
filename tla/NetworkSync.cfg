SPECIFICATION FairSpec
CONSTANTS
    Order <- MCOrder
    Content <- MCContent
    BadYaml <- MCBadYaml
    Stuck <- MCStuck
    Generations <- MCGenerations
    None = None
    NoMount = NoMount
    MayBeEmpty = TRUE
    Reverts = FALSE
    MaxSwaps = 1
    MaxFaults = 1
    MaxDowns = 1
    MaxCrashes = 1
    MaxTimeouts = 1
INVARIANTS
    TypeOK
    ReadyAfterConvergence
    SkippedIsApplied
    FrrFollows
PROPERTIES
    FrrWaitsUnlessStartFails
    Settles
