\* The target alone; one requirement with a fallback.
CONSTANTS
    target = target
    helper = helper
    f1 = f1
    f2 = f2
    Subs = {target}
    Target = target
    Families = {f1, f2}
    NoFamily = NoFamily
    None = None
    NoRow = NoRow
    Openings <- Alone
    Rows <- MCRows
    SharedRows <- MCSharedRows
    Amounts = {0, 40, 85, 300}
    Boms <- OneFallback
    MaxChanges = 1
SPECIFICATION Spec
INVARIANTS
    ReadyIsDeployable
\* The changes may be used up.
CHECK_DEADLOCK FALSE
