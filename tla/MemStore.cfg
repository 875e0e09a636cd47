\* Three customers over a cap of two, an idle timeout, two runs.
CONSTANTS
    Users = {u1, u2, u3}
    Visitors = {u2, u3}
    Runs = {1, 2}
    None = None
    Cap = 2
    Ttl = 1
    Throttle = 1
    MaxTime = 2
SYMMETRY UserSymmetry
SPECIFICATION Spec
INVARIANTS
    TypeOK
    StoresSound
PROPERTIES
    EvictsIdleOrLeastRecentlySeen
