SPECIFICATION FairSpec
CONSTANTS
    Pollers = {p1}
    RingSize = 32
    RecordLens = {0, 16}
    RawLens <- MCRawLens
    NoHeader = NoHeader
    UsizeMax = 255
    MaxRecords = 4
    MaxCrashes = 1
INVARIANT IndInv
PROPERTIES
    ImplementsRecordStream
    EventuallyConsumed
