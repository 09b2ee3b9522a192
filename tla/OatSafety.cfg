SPECIFICATION Spec
CONSTANTS
    h1 = h1
    h2 = h2
    k1 = k1
    k2 = k2
    NULL = NULL
    Hosts = {h1}
    Clients = {k1, k2}
    Interpreted = {}
    OtherProps = {4}
    MaxRequests = 2
SYMMETRY MCSymmetry
INVARIANTS
    TypeOK
    VerdictHasReport
    VerdictIsFresh
    DeliveredOnce
PROPERTY KeepsPromise
