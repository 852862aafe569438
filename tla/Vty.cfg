SPECIFICATION Spec
CONSTANTS
    Streams <- MCStreams
    MaxRead = 4
    MaxResponse = 8
INVARIANTS
    TypeOK
    FirstAnswer
CHECK_DEADLOCK FALSE
