\* Three runs over a table of two records, so that one is evicted; two phases
\* of up to two items; a thread may wait one tick for the lock.
CONSTANTS
    Tokens = {t1, t2, t3}
    None = None
    MaxRecords = 2
    NPhases = 2
    MaxTotal = 2
    MaxCompleted = 3
    MaxTime = 2
    MaxLag = 1
SYMMETRY TokenSymmetry
SPECIFICATION Spec
INVARIANTS
    TypeOK
    TableSound
PROPERTIES
    EvictsLeastRecentlyUpdated
    ForgottenStaysForgotten
    PercentFallsOnlyOnReentry
\* Every token may have been used and evicted, and the clock stopped at its bound.
CHECK_DEADLOCK FALSE
