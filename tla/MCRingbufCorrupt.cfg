SPECIFICATION CorruptSpec
CONSTANTS
    Pollers = {p1}
    RingSize = 32
    RecordLens = {16}
    RawLens <- MCRawLens
    NoHeader = NoHeader
    UsizeMax = 255
    MaxRecords = 2
    MaxCrashes = 0
INVARIANT SliceInMapping
PROPERTY DataOutOfBoundsNeverPassed
