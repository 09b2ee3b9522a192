SPECIFICATION Spec
CONSTANTS
    h1 = h1
    h2 = h2
    k1 = k1
    k2 = k2
    NULL = NULL
    Hosts = {h1}
    Clients = {k1}
    Interpreted = {1}
    OtherProps = {}
    MaxRequests = 1
INVARIANT MeasurementIsFresh
