\* An account switched while an export is under way.
CONSTANTS
    Accounts = {a1, a2}
    Anon = Anon
    Tabs = {t1}
    Changes = {c1}
    Analyses = {}
    Newer <- MCNewer
    older = c1
    later = c2
    None = None
    SlowExports = FALSE
    MaxReloads = 0
    MaxEvictions = 0
    MaxFaults = 0
    MaxSwitches = 1
    MaxArchives = 0
SPECIFICATION Spec
INVARIANTS
    AccountsKeptApart
\* The changes and the bounded events may be used up.
CHECK_DEADLOCK FALSE
