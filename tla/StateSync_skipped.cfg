\* An export slower than the debounce.
CONSTANTS
    Accounts = {a1}
    Anon = Anon
    Tabs = {t1}
    Changes = {c1, c2}
    Analyses = {}
    Newer <- MCNewer
    older = c1
    later = c2
    None = None
    SlowExports = TRUE
    MaxReloads = 0
    MaxEvictions = 0
    MaxFaults = 0
    MaxSwitches = 0
    MaxArchives = 0
SPECIFICATION FairSpec
PROPERTIES
    MirrorsEventually
\* The changes and the bounded events may be used up.
CHECK_DEADLOCK FALSE
