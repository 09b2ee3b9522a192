SPECIFICATION Spec
CONSTANTS
    w1 = w1
    w2 = w2
    c1 = c1
    c2 = c2
    c3 = c3
    NULL = NULL
    Properties = {1, 5}
    Monitored = {5}
    Workers = {w1}
    Procs = {c1, c2}
    MaxFails = 2
    MaxReboots = 0
SYMMETRY MCSymmetry
INVARIANTS
    TypeOK
    NoPhantomViolations
    MonitorIsOwned
    CountIsExact
    EnabledIsServed
