\* Two customers in two tabs, slow exports, an eviction, an archive, failing calls.
CONSTANTS
    Accounts = {a1, a2}
    Anon = Anon
    Tabs = {t1, t2}
    Changes = {c1, c2, c3}
    Analyses = {c1, c2}
    Newer <- MCNewer
    older = c1
    later = c2
    None = None
    SlowExports = TRUE
    MaxReloads = 1
    MaxEvictions = 1
    MaxFaults = 1
    MaxSwitches = 0
    MaxArchives = 1
SYMMETRY PageSymmetry
SPECIFICATION Spec
INVARIANTS
    TypeOK
    AccountsKeptApart
PROPERTIES
    LosesOnlyWhatTheServerLost
\* The changes and the bounded events may be used up.
CHECK_DEADLOCK FALSE
