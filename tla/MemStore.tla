------------------------------- MODULE MemStore -------------------------------
(***************************************************************************)
(* The in-memory backend of api/_shared/storage.py (hosted mode): per      *)
(* customer one SQLite connection with the tables and one dict of blobs,   *)
(* reclaimed by a cap on the number of customers and by an idle timeout    *)
(* (_touch_and_evict), while the customers' runs write to them.            *)
(*                                                                         *)
(* A table call, an export or an import holds the module lock throughout;  *)
(* a blob call looks its dict up under the lock and uses it after          *)
(* releasing it, when the dict may have been dropped from the store.       *)
(***************************************************************************)
EXTENDS Integers, FiniteSets

CONSTANTS
    Users,
    Visitors,      \* bound: customers who neither analyse nor keep a copy
    Runs,          \* run ids, sortable: a time stamp and a random suffix
    None,
    Cap,           \* IN_MEMORY_MAX_USERS, 0 for no cap
    Ttl,           \* IN_MEMORY_TTL_SECONDS, in ticks, 0 for no timeout
    Throttle,      \* ticks between two idle sweeps
    MaxTime        \* bound on the clock

ASSUME MemStoreAssumption ==
    /\ IsFiniteSet(Users)
    /\ Visitors \subseteq Users
    /\ Runs \subseteq Nat \ {0}
    /\ None \notin Users
    /\ \A S \in SUBSET Runs : None # S
    /\ {Cap, Ttl, Throttle, MaxTime} \subseteq Nat

VARIABLES
    rows,          \* _mem_conns: the runs a customer's tables list as succeeded
    blobs,         \* _mem_blobs: the runs whose snapshot a customer's dict has
    seen,          \* _mem_last_seen
    swept,         \* _last_evict_ts
    now,           \* time.time()
    copy,          \* the document a customer's browser holds
    user,          \* the customer a run belongs to
    pc,            \* where the handler of a run stands
    dict,          \* the blob dict a handler works on: in the store or not
    interrupted    \* history: runs whose customer's store was dropped meanwhile

kept == <<rows, blobs, seen, swept>>
handler == <<user, pc, dict>>
vars == <<kept, now, copy, handler, interrupted>>

Held == {u \in Users : rows[u] # None}
Steps == {"idle", "running", "holding", "written", "done"}
InFlight(r) == pc[r] \in {"running", "holding", "written"}

------------------------------------------------------------------------------
\* _reset_mem_user() for the customers in gone: handlers that hold one of their
\* blob dicts (D) keep it, but it is no longer in the store.
Detach(D, gone) ==
    /\ dict' = [r \in Runs |-> IF user[r] \in gone /\ D[r] = "stored"
                               THEN "detached" ELSE D[r]]
    /\ interrupted' = interrupted \cup {r \in Runs : user[r] \in gone /\ InFlight(r)}

\* Fault: the most recently seen go.
VictimsRecent(u, R) ==
    LET others == {k \in Users \ {u} : R[k] # None}
    IN  IF Cardinality(others) < Cap THEN {{}}
        ELSE {{v} : v \in {k \in others : \A w \in others : seen[w] <= seen[k]}}

\* The cap: of the customers with a connection other than u, the least recently
\* seen go until the cap is met.
Victims(u, R) ==
    LET others == {k \in Users \ {u} : R[k] # None}
        excess == Cardinality({k \in Users : R[k] # None}) - Cap
    IN  IF Cap = 0 \/ excess <= 0 THEN {{}}
        ELSE {V \in SUBSET others :
                /\ Cardinality(V) = IF excess <= Cardinality(others)
                                    THEN excess ELSE Cardinality(others)
                /\ \A v \in V, w \in others \ V : seen[v] <= seen[w]}

\* The idle sweep, throttled.
Due == Ttl > 0 /\ now - swept >= Throttle
Idle(u) ==
    IF Due THEN {k \in Users \ {u} : seen[k] # None /\ now - seen[k] > Ttl} ELSE {}

\* _touch_and_evict(u), once the stores are R and B and the handlers hold D;
\* those in reset were dropped before.  It also forgets when customers without
\* a connection were seen.
Serve(u, R, B, D, reset) ==
    \E victims \in Victims(u, R) :
        LET gone == victims \cup Idle(u)
        IN  /\ rows' = [k \in Users |-> IF k \in gone THEN None ELSE R[k]]
            /\ blobs' = [k \in Users |-> IF k \in gone THEN None ELSE B[k]]
            /\ seen' = [k \in Users |-> IF k = u THEN now
                                        ELSE IF rows'[k] = None THEN None ELSE seen[k]]
            /\ swept' = IF Due THEN now ELSE swept
            /\ Detach(D, gone \cup reset)

\* _mem_conn_for(u) and _mem_blob_store(u) create what is missing.
Connected(u) == [rows EXCEPT ![u] = IF rows[u] = None THEN {} ELSE rows[u]]
WithBlobs(u) == [blobs EXCEPT ![u] = IF blobs[u] = None THEN {} ELSE blobs[u]]

\* _latest_snapshot_blob_names(): the newest listed run.
Newest(S) == {r \in S : \A s \in S : s <= r}

------------------------------------------------------------------------------
Init ==
    /\ rows = [u \in Users |-> None]
    /\ blobs = [u \in Users |-> None]
    /\ seen = [u \in Users |-> None]
    /\ swept = 0 /\ now = 0
    /\ copy = [u \in Users |-> None]
    /\ user = [r \in Runs |-> None]
    /\ pc = [r \in Runs |-> "idle"]
    /\ dict = [r \in Runs |-> "none"]
    /\ interrupted = {}

\* A request of u that only uses tables; one that only uses blobs, such as
\* api/bom_zonal_verifications.
UseTables(u) ==
    /\ Serve(u, Connected(u), blobs, dict, {})
    /\ UNCHANGED <<now, copy, user, pc>>

UseBlobs(u) ==
    /\ Serve(u, rows, WithBlobs(u), dict, {})
    /\ UNCHANGED <<now, copy, user, pc>>

\* A run of customer u: its row is inserted as running, ...
StartRun(r, u) ==
    /\ pc[r] = "idle"
    /\ pc' = [pc EXCEPT ![r] = "running"]
    /\ user' = [user EXCEPT ![r] = u]
    /\ Serve(u, Connected(u), blobs, dict, {})
    /\ UNCHANGED <<now, copy>>

\* ... persist_snapshot() looks the blob dict up, under the lock, ...
LookUp(r) ==
    /\ pc[r] = "running"
    /\ pc' = [pc EXCEPT ![r] = "holding"]
    /\ Serve(user[r], rows, WithBlobs(user[r]), [dict EXCEPT ![r] = "stored"], {})
    /\ UNCHANGED <<now, copy, user>>

\* ... and writes to it, without; ...
WriteBlob(r) ==
    /\ pc[r] = "holding"
    /\ pc' = [pc EXCEPT ![r] = "written"]
    /\ blobs' = IF dict[r] = "stored" THEN [blobs EXCEPT ![user[r]] = @ \cup {r}] ELSE blobs
    /\ dict' = [dict EXCEPT ![r] = "none"]
    /\ UNCHANGED <<rows, seen, swept, now, copy, user, interrupted>>

\* ... then its row is updated to succeeded.
ListRun(r) ==
    /\ pc[r] = "written"
    /\ pc' = [pc EXCEPT ![r] = "done"]
    /\ LET u == user[r]
       IN  Serve(u, [Connected(u) EXCEPT ![u] = @ \cup {r}], blobs, dict, {})
    /\ UNCHANGED <<now, copy, user>>

\* Fault: the oldest snapshot is exported.
ExportOldest(u) ==
    /\ Serve(u, Connected(u), WithBlobs(u), dict, {})
    /\ copy' = [copy EXCEPT ![u] = [rows |-> rows'[u],
           blobs |-> {r \in blobs'[u] \cap rows'[u] : \A s \in rows'[u] : r <= s}]]
    /\ UNCHANGED <<now, user, pc>>

\* export_state(latest_snapshots_only=True): all rows, the newest snapshot.
Export(u) ==
    /\ Serve(u, Connected(u), WithBlobs(u), dict, {})
    /\ copy' = [copy EXCEPT ![u] = [rows |-> rows'[u],
                                    blobs |-> blobs'[u] \cap Newest(rows'[u])]]
    /\ UNCHANGED <<now, user, pc>>

\* import_state(): the store is dropped and built again from the document.
Import(u) ==
    /\ copy[u] # None
    /\ Serve(u, [rows EXCEPT ![u] = copy[u].rows], [blobs EXCEPT ![u] = copy[u].blobs],
             dict, {u})
    /\ UNCHANGED <<now, copy, user, pc>>

\* clear_state(), which does not count as an access.
Clear(u) ==
    /\ rows' = [rows EXCEPT ![u] = None]
    /\ blobs' = [blobs EXCEPT ![u] = None]
    /\ Detach(dict, {u})
    /\ UNCHANGED <<seen, swept, now, copy, user, pc>>

Tick ==
    /\ now < MaxTime
    /\ now' = now + 1
    /\ UNCHANGED <<kept, copy, handler, interrupted>>

\* Fault: the time of the last sweep is not reset to a number.
RestartUnset ==
    /\ rows' = [u \in Users |-> None]
    /\ blobs' = [u \in Users |-> None]
    /\ seen' = [u \in Users |-> None]
    /\ swept' = None
    /\ pc' = [r \in Runs |-> IF InFlight(r) THEN "done" ELSE pc[r]]
    /\ dict' = [r \in Runs |-> "none"]
    /\ UNCHANGED <<now, copy, user, interrupted>>

\* The process restarts, and the runs in flight are gone.
Restart ==
    /\ rows' = [u \in Users |-> None]
    /\ blobs' = [u \in Users |-> None]
    /\ seen' = [u \in Users |-> None]
    /\ swept' = 0
    /\ pc' = [r \in Runs |-> IF InFlight(r) THEN "done" ELSE pc[r]]
    /\ dict' = [r \in Runs |-> "none"]
    /\ UNCHANGED <<now, copy, user, interrupted>>

Next ==
    \/ \E u \in Users :
          UseTables(u) \/ UseBlobs(u) \/ Clear(u)
    \/ \E u \in Users \ Visitors :
          \/ Export(u) \/ Import(u)
          \/ \E r \in Runs : StartRun(r, u)
    \/ \E r \in Runs : LookUp(r) \/ WriteBlob(r) \/ ListRun(r)
    \/ Tick
    \/ Restart

Spec == Init /\ [][Next]_vars

------------------------------------------------------------------------------
MaybeRuns == {None} \cup SUBSET Runs

TypeOK ==
    /\ rows \in [Users -> MaybeRuns]
    /\ blobs \in [Users -> MaybeRuns]
    /\ seen \in [Users -> {None} \cup Nat]
    /\ swept \in Nat
    /\ now \in Nat
    /\ copy \in [Users -> {None} \cup [rows : SUBSET Runs, blobs : SUBSET Runs]]
    /\ user \in [Runs -> {None} \cup Users]
    /\ pc \in [Runs -> Steps]
    /\ dict \in [Runs -> {"none", "stored", "detached"}]
    /\ interrupted \in SUBSET Runs

\* The cap holds at every moment: however customers come, go, are swept, clear
\* or replay their stores, no more than Cap have a database.
ConnectionsCapped == Cap > 0 => Cardinality(Held) <= Cap

\* A customer's tables, blobs and browser copy only ever hold his own runs.
RunsKeptApart ==
    \A u \in Users :
        /\ rows[u] # None => \A r \in rows[u] : user[r] = u
        /\ blobs[u] # None => \A r \in blobs[u] : user[r] = u
        /\ copy[u] # None => \A r \in copy[u].rows \cup copy[u].blobs : user[r] = u

\* The newest run a customer's tables list has its snapshot, and so it has in
\* the copy of his browser, through evictions, replays and restarts, unless the
\* store was dropped while that very run was in flight.
LatestRestorable ==
    \A u \in Users :
        /\ rows[u] # None =>
              \A r \in Newest(rows[u]) \ interrupted : blobs[u] # None /\ r \in blobs[u]
        /\ copy[u] # None =>
              \A r \in Newest(copy[u].rows) \ interrupted : r \in copy[u].blobs

\* All three, for a hosted customer: memory stays within the cap, no one gets
\* another's runs, and the run he sees first can be opened.
StoresSound == ConnectionsCapped /\ RunsKeptApart /\ LatestRestorable

\* Serving one customer costs another his store only if he was idle for longer
\* than the timeout, or seen no later than all others that keep theirs.
EvictsIdleOrLeastRecentlySeen ==
    [][\A u, k \in Held :
          (rows'[k] = None /\ rows'[u] # None /\ seen'[u] = seen[u] /\ u # k) =>
              \/ Ttl > 0 /\ now - seen[k] > Ttl
              \/ Cap > 0 /\ seen[k] <= seen[u]
              \/ seen'[k] = seen[k]]_vars
==============================================================================
