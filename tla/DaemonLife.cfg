SPECIFICATION FairSpec
CONSTANTS
    Procs = {Unit, Hand}
    Unit = Unit
    NoProc = NoProc
    Poll = 2
    MaxAge = 5
    MaxSync = 3
    Notify = FALSE
    MayHang = TRUE
    MaxByHand = 1
    MaxFaults = 1
    MaxCrashes = 1
INVARIANTS
    TypeOK
    MutualExclusion
    NeverTorn
    StaleIsReal
PROPERTIES
    OkIsRecent
    KeepsSyncing
    HangIsShown
