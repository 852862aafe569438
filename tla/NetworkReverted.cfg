SPECIFICATION Spec
CONSTANTS
    Order <- MCOrder
    Content <- MCContent
    BadYaml <- MCBadYaml
    Stuck <- MCStuck
    Generations <- MCGenerations
    None = None
    NoMount = NoMount
    MayBeEmpty = TRUE
    Reverts = TRUE
    MaxSwaps = 2
    MaxFaults = 0
    MaxDowns = 0
    MaxCrashes = 0
    MaxTimeouts = 0
INVARIANT SkippedIsApplied
