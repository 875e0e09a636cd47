\* A wipe while a run is in flight.
CONSTANTS
    Runs = {1, 2}
    Partitions = {b1}
    Boms = {b1}
    Bomless = {}
    NoBom = NoBom
    Keep = 1
    MaxCrashes = 0
    MaxFaults = 0
    MaxWipes = 1
    MaxImports = 0
    MaxEvents = 1
SPECIFICATION Spec
INVARIANTS
    LatestHasBlob
\* All runs may have ended.
CHECK_DEADLOCK FALSE
