SPECIFICATION Spec
CONSTANTS
    a = a
    c = c
    alice = alice
    bob = bob
    Users = {alice, bob}
    Instances = {a, c}
    Owner <- MCOwner
    ProjectLimit = 1
    UserLimit = 2
    Slots = {1}
    Soft = {a}
    Stranded = {c}
    Early = {c}
    MaxFaults = 1
CONSTRAINT MCBounds
INVARIANTS TypeOK ReservedIsBacked UsageCovers UsageExact QuotaHolds
CHECK_DEADLOCK FALSE
