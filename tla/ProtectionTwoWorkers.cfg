SPECIFICATION FairSpec
CONSTANTS
    w1 = w1
    w2 = w2
    c1 = c1
    c2 = c2
    c3 = c3
    NULL = NULL
    Properties = {5}
    Monitored = {5}
    Workers = {w1, w2}
    Procs = {c1, c2}
    MaxFails = 1
    MaxReboots = 0
PROPERTY EnabledIsAttested
