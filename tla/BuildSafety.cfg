SPECIFICATION Spec
CONSTANTS
    Instances = {i1, i2}
    Deletable = {i1}
    Hosts = {h1, h2}
    Capacity = 1
    MaxAttempts = 2
    MaxCrashes = 0
    NULL = NULL
INVARIANTS TypeOK OwnersAreTracked NotOverbooked OneHost ActiveRuns TriedOnce
