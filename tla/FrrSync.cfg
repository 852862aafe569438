SPECIFICATION FairSpec
CONSTANTS
    Files <- MCFiles
    Content <- MCContent
    ValidConf <- MCValidConf
    Generations <- MCGenerations
    ImageConfig <- MCImageConfig
    None = None
    Torn = Torn
    NoMount = NoMount
    MaxSwaps = 2
    MaxFaults = 2
    MaxCrashes = 1
INVARIANTS
    TypeOK
    OnlyValidated
    OnlyOffered
    QuietTick
    ActivationComplete
PROPERTIES
    ImplementsInstalledConfig
    Converges
