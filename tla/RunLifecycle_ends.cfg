\* Two runs, of a BOM or without one; two of a restart, a failing storage call and a wipe.
CONSTANTS
    Runs = {1, 2}
    Partitions = {b1, s1}
    Boms = {b1}
    Bomless = {1, 2}
    NoBom = NoBom
    Keep = 1
    MaxCrashes = 1
    MaxFaults = 1
    MaxWipes = 1
    MaxImports = 0
    MaxEvents = 2
SPECIFICATION FairSpec
INVARIANTS
    WipedStaysGone
PROPERTIES
    NobodyWaitsForever
\* All runs may have ended.
CHECK_DEADLOCK FALSE
