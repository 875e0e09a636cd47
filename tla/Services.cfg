\* Tickets: two asks, two names, two threads, a status that changes once after the
\* first, a fault.  Settings: three subscriptions, one blob that is no object.
\* Tokens: two accounts, two customers, a subscription.  Entries: two customers,
\* two names, a cap of one, a slip.  Datasets: two that share the sidecar, two
\* changes, restarts or failures.  BOMs: one of an older release and a new one, a
\* write, a failure.  Check: a type, its provider and the disk, in two regions,
\* one change at Azure.  Regions: three, of which one alternative is shown.
CONSTANTS
    Parts = {"tickets", "settings", "tokens", "entries", "datasets", "boms", "check", "regions"}
    None = None
    Nothing = Nothing
    NoGroup = NoGroup
    Unbuilt = Unbuilt
    Absent = Absent
    Gone = Gone
    NotOffered = NotOffered
    Unknown = Unknown
    Asks = {a1, a2}
    Names = {a, b}
    Workers = {t1, t2}
    MaxRevision = 2
    MaxFaults = 1
    Savers = {t1, t2}
    Subscriptions = {s1, s2, s3}
    Groups = {g1}
    MaxBroken = 1
    Accounts = {a, b}
    Customers = {c, d}
    Identity = Identity
    Threads = {t1, t2}
    Default = Default
    Subs = {s1}
    Users = {a, b}
    Kinds = {region}
    Entries = {n1, n2}
    Facts = {f1}
    Readers = {t1, t2}
    MaxCustom = 1
    MaxSlips = 1
    Datasets = {d1, d2}
    Lenient = {d1}
    Contents = {"fetched", "saved", "encoded"}
    Utf8 = {"fetched", "saved"}
    Origin <- MCOrigin
    Editors = {t1, t2}
    MaxEvents = 2
    Boms = {g1, b1}
    Guids = {g1, op}
    Operator = op
    Services = {v1, v1gold}
    ServiceOf <- MCServiceOf
    BomRegions = {r1}
    Asked = {{v1gold}}
    Authors = {w1}
    MaxWrites = 1
    MaxTroubles = 1
    Regions = {r1, r2}
    Providers = {p1}
    Types = {y1}
    ProviderOf <- MCProviderOf
    Footprints <- MCFootprints
    Disk = Disk
    ZoneSets = {{1, 2}, {1, 2, 3}}
    Attempts = 2
    MaxShifts = 1
    Places = {1, 2, 3}
    Requirements = {q1}
    SkuRows = {{1, 2}, {1, 2, 3}}
    Latency <- MCLatency
    Curated <- MCCurated
    Distance <- MCDistance
    Continent <- MCContinent
    TopN = 1
    MaxMissing = 1
SYMMETRY Symmetry
SPECIFICATION Spec
INVARIANTS
    TypeOK
    Tracked
    FiledTwiceOnlyAfterLostAnswer
    SignedOutStaysOut
    SessionAndTokens
    EntriesSound
    LoadersSeeWholeFiles
    ProvenanceTrue
    SavesAsRead
    MarksBacked
    AlternativesHelp
PROPERTIES
    StatusOnlyAdvances
    OthersGroupsKept
    ImportRestores
\* The bounds may be used up.
CHECK_DEADLOCK FALSE
