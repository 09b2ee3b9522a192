SPECIFICATION TFairSpec
CONSTANTS
    h1 = h1
    k1 = k1
    k2 = k2
    NULL = NULL
    Hosts = {h1}
    Clients = {k1}
    Interpreted = {}
    OtherProps = {4}
    MaxRequests = 2
    Earlier = 1
INVARIANTS
    ThresholdTypeOK
    VerdictHasReport
    AskedOnce
PROPERTIES
    CallsReturn
    WatchersEnd
