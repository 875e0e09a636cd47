\* Three runs of a BOM, one of which may have none; a restart or a failing storage
\* call, and an import.
CONSTANTS
    Runs = {1, 2, 3}
    Partitions = {b1, s1}
    Boms = {b1}
    Bomless = {1}
    NoBom = NoBom
    Keep = 1
    MaxCrashes = 1
    MaxFaults = 1
    MaxWipes = 0
    MaxImports = 1
    MaxEvents = 1
SPECIFICATION Spec
INVARIANTS
    TypeOK
    LatestHasBlob
    GoneOnlyWhenSuperseded
    Settled
PROPERTIES
    ImplementsHistory
\* All runs may have ended.
CHECK_DEADLOCK FALSE
