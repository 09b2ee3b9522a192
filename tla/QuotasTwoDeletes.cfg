SPECIFICATION Spec
CONSTANTS
    a = a
    c = c
    alice = alice
    bob = bob
    Users = {alice, bob}
    Instances = {a, c}
    Owner <- MCOwner
    ProjectLimit = 1
    UserLimit = 2
    Slots = {1, 2}
    Soft = {}
    Stranded = {}
    Early = {c}
    MaxFaults = 0
INVARIANT UsageCovers
CHECK_DEADLOCK FALSE
