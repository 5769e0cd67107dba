SPECIFICATION Spec
CONSTANTS
    I16_MAX = 31
    MAX_BPF_PATTERN_LEN = 3
    MAX_BPF_INSTRUCTION_LEN = 22
    Byte <- MCByte
    Packets <- MCPackets
    Literals <- MCLiterals
    Alternations <- MCAlternations
    Classes <- MCClasses
    Texts <- MCTexts
INVARIANTS
    TypeOK
    MemorySafe
    LiteralVerdict
    AlternationVerdict
    ClassVerdict
    TextAccepted
    TextVerdict
    JumpsLandInside
    LengthAsEstimated
PROPERTIES
    RunsAsListed
    Terminates
CHECK_DEADLOCK FALSE
