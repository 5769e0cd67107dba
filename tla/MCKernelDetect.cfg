SPECIFICATION Spec
CONSTANTS
    U32_MAX = 80
    t1 = t1
    t2 = t2
    Threads = {t1, t2}
    Osreleases <- MCOsreleases
INVARIANTS
    TypeOK
    FailsClosed
    NeverSilent
    WarnsOnce
    WarnsForCause
PROPERTY CallsReturn
