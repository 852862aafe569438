SPECIFICATION FairSpec
CONSTANTS
    Files <- MCFiles
    Content <- MCContent
    ValidConf <- MCValidConf
    Generations <- MCGenerations
    ImageConfig <- MCImageConfig
    None = None
    Torn = Torn
    NoMount = NoMount
    MaxSwaps = 1
    MaxFaults = 2
    MaxCrashes = 0
PROPERTY ActivationRetried
