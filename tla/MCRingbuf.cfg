SPECIFICATION Spec
CONSTANTS
    Pollers = {p1}
    RingSize = 32
    RecordLens = {0, 5, 16}
    RawLens <- MCRawLens
    NoHeader = NoHeader
    UsizeMax = 255
    MaxRecords = 4
    MaxCrashes = 2
INVARIANTS
    TypeOK
    RecordIntegrity
    NoRecordLost
    InOrder
    RepeatsNeedCrashes
    NoMissedWakeup
    ValidRecordNeverRejected
PROPERTY ConsumerPosNeverRetreats
