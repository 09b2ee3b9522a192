SPECIFICATION FairSpec
CONSTANTS
    Instances = {i1}
    Deletable = {i1}
    Hosts = {h1, h2}
    Capacity = 1
    MaxAttempts = 2
    MaxCrashes = 1
    NULL = NULL
PROPERTY DomainsEnd
