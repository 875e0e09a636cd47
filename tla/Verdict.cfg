\* The target and a helper; two families that requirements share.
CONSTANTS
    target = target
    helper = helper
    f1 = f1
    f2 = f2
    Subs = {target, helper}
    Target = target
    Families = {f1, f2}
    NoFamily = NoFamily
    None = None
    NoRow = NoRow
    Openings <- MCOpenings
    Rows <- MCRows
    SharedRows <- MCSharedRows
    Amounts = {0, 40, 85, 300}
    Boms <- MCBoms
    MaxChanges = 1
SPECIFICATION Spec
INVARIANTS
    TypeOK
    SummaryAgrees
    ReadyIsBacked
    EveryBlockerHasAdvice
PROPERTIES
    RemediationSuffices
    MoreQuotaNeverHurts
    ImprovementNeverHurts
\* The changes may be used up.
CHECK_DEADLOCK FALSE
