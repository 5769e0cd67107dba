SPECIFICATION Spec
CONSTANTS
    I16_MAX = 31
    MAX_BPF_PATTERN_LEN = 4
    MAX_BPF_INSTRUCTION_LEN = 19
    MAX_BPF_INSNS = 19
    t1 = t1
    t2 = t2
    s1 = s1
    s2 = s2
    Threads = {t1, t2}
    Sockets = {s1, s2}
    Fds = {3, 4, 5, 6}
    Patterns <- MCPatterns
    Programs <- MCPrograms
SYMMETRY MCSymmetry
INVARIANT ProgramFdsOwned
