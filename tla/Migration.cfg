SPECIFICATION FairSpec
CONSTANTS
    h1 = h1
    h2 = h2
    NULL = NULL
    Hosts = {h1, h2}
    Home = h1
    MaxMigrations = 3
    MaxRestarts = 1
INVARIANTS
    TypeOK
    
    
    SparesItsOwnVM
PROPERTIES
    MigrationsEnd
    MigratingEnds
CHECK_DEADLOCK FALSE
