\* One page, exports faster than the debounce, a store dropped at any time, a
\* sign-out.
CONSTANTS
    Accounts = {a1, a2}
    Anon = Anon
    Tabs = {t1}
    Changes = {c1, c2, c3}
    Analyses = {c1, c2}
    Newer <- MCNewer
    older = c1
    later = c2
    None = None
    SlowExports = FALSE
    MaxReloads = 0
    MaxEvictions = 1
    MaxFaults = 0
    MaxSwitches = 1
    MaxArchives = 0
SPECIFICATION FairSpec
PROPERTIES
    MirrorsEventually
\* The changes and the bounded events may be used up.
CHECK_DEADLOCK FALSE
