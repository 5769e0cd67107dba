SPECIFICATION Spec
CONSTANTS
    p1 = p1
    p2 = p2
    a1 = a1
    a2 = a2
    a3 = a3
    a4 = a4
    App = App
    NoAddr = NoAddr
    NoFd = NoFd
    Callers <- MCCallers
    Addrs <- MCAddrs
    Fds <- MCFds
    Sizes = {16, 128}
    PageSize = 8
    UsizeMax = 255
SYMMETRY Interchangeable
INVARIANT ReleasedOrReported
