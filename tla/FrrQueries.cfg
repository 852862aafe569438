SPECIFICATION Spec
CONSTANTS
    VrfOrder <- MCVrfOrder
    Unsafe <- MCUnsafe
    MaxVrfs = 2
    MaxErrors = 4
    None = None
INVARIANTS
    TypeOK
    EmptinessIsReal
    PanelsAgree
