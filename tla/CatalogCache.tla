----------------------------- MODULE CatalogCache -----------------------------
(***************************************************************************)
(* Custom regions and services (api/_shared/bom_catalog.py, the endpoints  *)
(* bom_region_catalog and bom_service_catalog): a table of the customer    *)
(* holds his entries, a cache of the process holds one list per kind.  A   *)
(* request looks into the cache, queries the table and fills the cache in  *)
(* three steps; it writes the table and empties the cache in two.          *)
(***************************************************************************)
EXTENDS Integers, FiniteSets

CONSTANTS
    Users,         \* a single one when run locally
    Kinds,         \* "region", "service"
    Entries,       \* names that pass the validators and are not built in
    Facts,         \* what an entry says of its name
    Readers,       \* threads that serve requests
    MaxCustom,     \* MAX_CUSTOM_PER_KIND
    MaxSlips,      \* bound: failing table calls, restarts, replaced stores
    Absent

ASSUME CatalogAssumption ==
    /\ IsFiniteSet(Entries)
    /\ MaxCustom \in Nat \ {0}
    /\ MaxSlips \in Nat
    /\ Absent \notin Facts
    /\ Absent \notin [of : Users, list : [Entries -> Facts \cup {Absent}]]

VARIABLES
    table,         \* bomcustomcatalog: what each customer says of a name, or Absent
    hot,           \* _CACHE: a list and whose it is, or Absent
    call,          \* what a thread is doing
    slips,
    astray,        \* history: kinds whose cached list a write or a restore overtook
    shaken         \* history: customers (per kind) two of whose requests overlapped,
                   \* or who counted a list that was not, or no longer, their own

catalogVars == <<table, hot, call, slips, astray, shaken>>

Overlays == [Entries -> Facts \cup {Absent}]
Empty == [n \in Entries |-> Absent]
Size(list) == Cardinality({n \in Entries : list[n] # Absent})
Cached == [of : Users, list : Overlays]
Call == [stage : {"idle", "look", "query", "store", "write", "drop"},
         op : {"list", "add", "delete"}, who : Users \cup {Absent},
         kind : Kinds \cup {Absent}, seen : Overlays, late : BOOLEAN]
Free == [stage |-> "idle", op |-> "list", who |-> Absent, kind |-> Absent,
         seen |-> Empty, late |-> FALSE]

At(t, stage) == call[t].stage = stage
Busy(c, k) == \E t \in Readers : call[t].stage # "idle" /\ call[t].who = c /\ call[t].kind = k
Slip == slips < MaxSlips /\ slips' = slips + 1
Shake(c, k) == shaken' = shaken \cup {<<c, k>>}
Leave(t) == call' = [call EXCEPT ![t] = Free]

\* list_custom() returns: the addition goes on below the cap, a reader is served.
Decided(t, list) ==
    IF call[t].op = "add" /\ Size(list) < MaxCustom
    THEN [call[t] EXCEPT !.stage = "write", !.seen = Empty, !.late = FALSE]
    ELSE Free

\* The table of a customer becomes another one: who has queried the old one and
\* has not filled the cache yet will fill it with a list that is out of date.
OvertakeQueries(calls, c, k) ==
    [t \in Readers |->
        [calls[t] EXCEPT !.late = @ \/ /\ calls[t].stage = "store"
                                       /\ calls[t].who = c
                                       /\ calls[t].kind = k]]

------------------------------------------------------------------------------
CatalogInit ==
    /\ table = [c \in Users |-> [k \in Kinds |-> Empty]]
    /\ hot = [k \in Kinds |-> Absent]
    /\ call = [t \in Readers |-> Free]
    /\ slips = 0
    /\ astray = {}
    /\ shaken = {}

\* A request that is not refused before it reads anything (no origin, a body that
\* does not pass the validators, a name that is built in).
Ask(t, op, c, k) ==
    /\ At(t, "idle")
    /\ IF Busy(c, k) THEN Shake(c, k) ELSE UNCHANGED shaken
    /\ call' = [call EXCEPT ![t] =
          [Free EXCEPT !.stage = IF op = "delete" THEN "write" ELSE "look",
                       !.op = op, !.who = c, !.kind = k]]
    /\ UNCHANGED <<table, hot, slips, astray>>

\* The cached list, under the lock: the whole process has one per kind.
Hit(t) ==
    /\ At(t, "look")
    /\ LET c == call[t].who  k == call[t].kind
       IN  /\ hot[k] # Absent
           /\ call' = [call EXCEPT ![t] = Decided(t, hot[k].list)]
           /\ IF call[t].op = "add" /\ hot[k].of # c THEN Shake(c, k) ELSE UNCHANGED shaken
    /\ UNCHANGED <<table, hot, slips, astray>>

Miss(t) ==
    /\ At(t, "look")
    /\ hot[call[t].kind] = Absent
    /\ call' = [call EXCEPT ![t].stage = "query"]
    /\ UNCHANGED <<table, hot, slips, astray, shaken>>

\* The partition is read without the lock.
Query(t) ==
    /\ At(t, "query")
    /\ call' = [call EXCEPT ![t].stage = "store",
                            ![t].seen = table[call[t].who][call[t].kind]]
    /\ UNCHANGED <<table, hot, slips, astray, shaken>>

\* A failing query counts as an empty list, which is not cached.
QueryFails(t) ==
    /\ At(t, "query")
    /\ Slip
    /\ Shake(call[t].who, call[t].kind)
    /\ call' = [call EXCEPT ![t] = Decided(t, Empty)]
    /\ UNCHANGED <<table, hot, astray>>

Store(t) ==
    /\ At(t, "store")
    /\ LET k == call[t].kind
       IN  /\ hot' = [hot EXCEPT ![k] = [of |-> call[t].who, list |-> call[t].seen]]
           /\ astray' = IF call[t].late THEN astray \cup {k} ELSE astray \ {k}
    /\ call' = [call EXCEPT ![t] = Decided(t, call[t].seen)]
    /\ UNCHANGED <<table, slips, shaken>>

\* Fault: the cache is left as it is.
AddKeepsCache(t, n, f) ==
    /\ At(t, "write")
    /\ call[t].op = "add"
    /\ table' = [table EXCEPT ![call[t].who][call[t].kind][n] = f]
    /\ call' = [OvertakeQueries(call, call[t].who, call[t].kind) EXCEPT ![t] = Free]
    /\ UNCHANGED <<hot, slips, astray, shaken>>

\* upsert_entity(mode="replace"): a name that is there already gets new facts.
Add(t, n, f) ==
    /\ At(t, "write")
    /\ call[t].op = "add"
    /\ table' = [table EXCEPT ![call[t].who][call[t].kind][n] = f]
    /\ call' = [OvertakeQueries(call, call[t].who, call[t].kind) EXCEPT ![t].stage = "drop"]
    /\ UNCHANGED <<hot, slips, astray, shaken>>

\* A name the table does not hold (KeyError) leaves the cache as it is.
Delete(t, n) ==
    /\ At(t, "write")
    /\ call[t].op = "delete"
    /\ LET c == call[t].who  k == call[t].kind
       IN  IF table[c][k][n] = Absent
           THEN Leave(t) /\ UNCHANGED table
           ELSE /\ table' = [table EXCEPT ![c][k][n] = Absent]
                /\ call' = [OvertakeQueries(call, c, k) EXCEPT ![t].stage = "drop"]
    /\ UNCHANGED <<hot, slips, astray, shaken>>

WriteFails(t) ==
    /\ At(t, "write")
    /\ Slip
    /\ Leave(t)
    /\ UNCHANGED <<table, hot, astray, shaken>>

\* _invalidate(): whoever's list it is.
Invalidate(t) ==
    /\ At(t, "drop")
    /\ hot' = [hot EXCEPT ![call[t].kind] = Absent]
    /\ astray' = astray \ {call[t].kind}
    /\ Leave(t)
    /\ UNCHANGED <<table, slips, shaken>>

\* The store of a hosted customer is evicted, or replaced by the copy his browser
\* kept (api/_shared/storage.py): the cache is not told.
ReplaceStore(c) ==
    /\ Slip
    /\ \E k \in Kinds, list \in {l \in Overlays : Size(l) <= MaxCustom} :
          /\ table' = [table EXCEPT ![c][k] = list]
          /\ call' = OvertakeQueries(call, c, k)
          /\ astray' = IF hot[k] # Absent /\ hot[k].of = c THEN astray \cup {k} ELSE astray
          /\ IF Busy(c, k) \/ (hot[k] # Absent /\ hot[k].of = c)
             THEN Shake(c, k) ELSE UNCHANGED shaken
    /\ UNCHANGED hot

\* The process restarts; the tables are on disk, or each customer's browser
\* brings them back.
RestartHost ==
    /\ Slip
    /\ hot' = [k \in Kinds |-> Absent]
    /\ call' = [t \in Readers |-> Free]
    /\ astray' = {}
    /\ UNCHANGED <<table, shaken>>

CatalogNext ==
    \/ \E t \in Readers :
          \/ \E op \in {"list", "add", "delete"}, c \in Users, k \in Kinds : Ask(t, op, c, k)
          \/ Hit(t) \/ Miss(t) \/ Query(t) \/ QueryFails(t) \/ Store(t)
          \/ \E n \in Entries : Delete(t, n) \/ \E f \in Facts : Add(t, n, f)
          \/ WriteFails(t) \/ Invalidate(t)
    \/ \E c \in Users : ReplaceStore(c)
    \/ RestartHost

CatalogSpec == CatalogInit /\ [][CatalogNext]_catalogVars

------------------------------------------------------------------------------
CatalogTypeOK ==
    /\ table \in [Users -> [Kinds -> Overlays]]
    /\ hot \in [Kinds -> Cached \cup {Absent}]
    /\ call \in [Readers -> Call]
    /\ slips \in Nat
    /\ astray \in SUBSET Kinds
    /\ shaken \in SUBSET (Users \X Kinds)

\* Some write to the table the cached list came from has yet to empty the cache.
Pending(k) == \E t \in Readers : At(t, "drop") /\ call[t].kind = k /\ call[t].who = hot[k].of

CacheIsTable(k) == hot[k].list = table[hot[k].of][k]

\* A cached list is the table of the customer it was read for, as soon as every
\* write has emptied the cache, unless a write went through, or a store was
\* replaced, between the query and the storing of its result.
CatalogFresh ==
    \A k \in Kinds \ astray : hot[k] # Absent /\ ~Pending(k) => CacheIsTable(k)

\* A customer whose requests never overlapped, who counted his own list and had
\* no query fail, has at most MAX_CUSTOM_PER_KIND entries, whatever the other
\* customers' requests do to the shared cache.
CapHolds ==
    \A c \in Users, k \in Kinds :
        <<c, k>> \notin shaken => Size(table[c][k]) <= MaxCustom

\* Both: the list a request is served is the one its customer has, but for the
\* overlaps named, and so is the one his additions are counted against.
EntriesSound == CatalogFresh /\ CapHolds
===============================================================================
