----------------------------- MODULE RunLifecycle -----------------------------
(***************************************************************************)
(* The life of an analysis run on the on-disk backend: the POST /api/runs  *)
(* handlers (api/runs_post), the rows of the runs table they upsert        *)
(* (compile.insert_run), the snapshot blobs they write                     *)
(* (compile.persist_snapshot), the progress record they feed               *)
(* (run_progress), and everything that deletes or restores rows and blobs  *)
(* meanwhile: retention pruning after each success                         *)
(* (snapshot_store.prune_snapshots), the "Wipe local state" button         *)
(* (api/local_state_wipe), the import of an exported archive               *)
(* (api/snapshots_import), and a restart of the process.                   *)
(*                                                                         *)
(* Each table or blob call is atomic (a module lock, one file operation);  *)
(* handlers interleave between calls.                                      *)
(***************************************************************************)
EXTENDS Integers, FiniteSets

CONSTANTS
    Runs,          \* run ids, sortable: a time stamp and a random suffix
    Partitions,    \* of the runs table: BOMs, or, of runs without one, subscriptions
    Boms,          \* the partitions that are BOMs
    Bomless,       \* bound: runs that may come without a BOM
    NoBom,         \* the partition of a run not accepted yet
    Keep,          \* SNAPSHOT_RETENTION
    MaxCrashes,    \* bound on process restarts
    MaxFaults,     \* bound on storage calls that fail (0: those of a wipe neither)
    MaxWipes,      \* bound on wipes of the local state
    MaxImports,    \* bound on archive imports
    MaxEvents      \* bound on restarts, failing calls and wipes together

ASSUME LifecycleAssumption ==
    /\ Runs \subseteq Nat \ {0}
    /\ Boms \subseteq Partitions
    /\ Bomless \subseteq Runs
    /\ NoBom \notin Partitions
    /\ Keep \in Nat \ {0}
    /\ {MaxCrashes, MaxFaults, MaxWipes, MaxImports, MaxEvents} \subseteq Nat

VARIABLES
    bomOf,         \* the partition a run's row and blob live in
    pc,            \* where the handler of a run stands
    row,           \* status of a run's row in the runs table, or "none"
    blobs,         \* runs with a file in the snapshots container
    stale,         \* what a handler's prune has listed and not yet deleted
    progress,      \* status of the run's progress record, or "none"
    archive,       \* runs in the last exported archive
    restoring,     \* archive entries an import has still to restore
    restored,      \* the entry whose blob it restored, its row not yet; or 0
    wiping,        \* where a wipe stands
    doomed,        \* blobs the wipe has listed and not yet deleted
    wiped,         \* history: runs that had ended when a wipe began
    count,         \* how often the bounded events happened
    reading,       \* the run a reader took for a BOM's latest; or 0
    missed,        \* history: runs a reader took for latest but could not open
    newest,        \* history: the newest run of a BOM ever listed as succeeded
    published      \* history: the runs ever recorded as succeeded

handler == <<bomOf, pc, stale, progress>>
store == <<row, blobs>>
exchange == <<archive, restoring, restored>>
wipe == <<wiping, doomed, wiped>>
reader == <<reading, missed>>
history == <<newest, published>>
vars == <<handler, store, exchange, wipe, reader, count, history>>

Status == {"none", "running", "failed", "succeeded"}
Steps == {"idle", "accepted", "registered", "compiling", "retrying", "compiled",
          "persisted", "recorded", "listing", "pruning", "dropping", "failing",
          "failed", "done", "aborted", "lost"}
Events == {"crash", "fault", "wipe", "import"}
Limit == [crash |-> MaxCrashes, fault |-> MaxFaults, wipe |-> MaxWipes,
          import |-> MaxImports]

\* One of the bounded events takes place.
Happens(e) ==
    /\ count[e] < Limit[e]
    /\ e = "import" \/ count["crash"] + count["fault"] + count["wipe"] < MaxEvents
    /\ count' = [count EXCEPT ![e] = @ + 1]

------------------------------------------------------------------------------
\* The newest of some runs (the set is empty or has one element).
Latest(S) == {r \in S : \A s \in S : s <= r}

\* Rows of a BOM that list a snapshot: status succeeded with a snapshot_blob
\* (insert_run always writes the two together).
Listed(b) == {r \in Runs : bomOf[r] = b /\ row[r] = "succeeded"}

\* Fault: the oldest are kept.
BeyondOldest(b) ==
    {r \in Listed(b) : Cardinality({s \in Listed(b) : s < r}) >= Keep}

\* The rows prune_snapshots deletes: beyond the newest Keep.
Beyond(b) ==
    {r \in Listed(b) : Cardinality({s \in Listed(b) : s > r}) >= Keep}

At(r, step) == pc[r] = step
Ended(r) == pc[r] \in {"done", "aborted", "lost"}
Goto(r, step) == pc' = [pc EXCEPT ![r] = step]
Note(r, status) == progress' = [progress EXCEPT ![r] = status]

\* A row is upserted, or deleted ("none"), in a table that is open; a failure is
\* logged and swallowed.
WriteRow(r, status) ==
    \/ row' = [row EXCEPT ![r] = status] /\ UNCHANGED count
    \/ row' = row /\ Happens("fault")

------------------------------------------------------------------------------
Init ==
    /\ bomOf = [r \in Runs |-> NoBom]
    /\ pc = [r \in Runs |-> "idle"]
    /\ row = [r \in Runs |-> "none"]
    /\ blobs = {}
    /\ stale = [r \in Runs |-> {}]
    /\ progress = [r \in Runs |-> "none"]
    /\ archive = {} /\ restoring = {} /\ restored = 0
    /\ wiping = "idle" /\ doomed = {} /\ wiped = {}
    /\ count = [e \in Events |-> 0]
    /\ reading = 0 /\ missed = {}
    /\ newest = [b \in Partitions |-> 0]
    /\ published = {}

\* A validated request obtains a run id: partition b is the BOM it names, or its
\* subscription.  The time stamp counts seconds: runs accepted within the same
\* second come in any order.
Accept(r, b) ==
    /\ At(r, "idle")
    /\ b \in Boms \/ r \in Bomless
    /\ bomOf' = [bomOf EXCEPT ![r] = b]
    /\ Goto(r, "accepted")
    /\ UNCHANGED <<stale, progress, store, exchange, wipe, reader, count, history>>

RecordRunning(r) ==
    /\ At(r, "accepted")
    /\ WriteRow(r, "running")
    /\ Goto(r, "registered")
    /\ UNCHANGED <<bomOf, stale, progress, blobs, exchange, wipe, reader, history>>

StartProgress(r) ==
    /\ At(r, "registered")
    /\ Note(r, "running")
    /\ Goto(r, "compiling")
    /\ UNCHANGED <<bomOf, stale, store, exchange, wipe, reader, count, history>>

\* compile_snapshot() returns, fails, or is told by ARM that the token expired;
\* then the tokens are refreshed and the compilation is retried, once.
Compile(r) ==
    /\ \/ At(r, "compiling") /\ \E next \in {"compiled", "failing", "retrying"} : Goto(r, next)
       \/ At(r, "retrying") /\ \E next \in {"compiled", "failing"} : Goto(r, next)
    /\ UNCHANGED <<bomOf, stale, progress, store, exchange, wipe, reader, count, history>>

\* upload_blob(overwrite=False), under a name made from the new run id, so that
\* no file is in its way; a write that fails may leave a partial file.
Persist(r) ==
    /\ At(r, "compiled")
    /\ \/ /\ blobs' = blobs \cup {r}
          /\ Goto(r, "persisted")
          /\ UNCHANGED count
       \/ /\ Happens("fault")
          /\ blobs' \in {blobs, blobs \cup {r}}
          /\ Goto(r, "failing")
    /\ UNCHANGED <<bomOf, stale, progress, row, exchange, wipe, reader, history>>

RecordSucceeded(r) ==
    /\ At(r, "persisted")
    /\ WriteRow(r, "succeeded")
    /\ IF row'[r] = "succeeded"
       THEN /\ published' = published \cup {r}
            /\ newest' = [newest EXCEPT ![bomOf[r]] = IF r > @ THEN r ELSE @]
       ELSE UNCHANGED history
    /\ Goto(r, "recorded")
    /\ UNCHANGED <<bomOf, stale, progress, blobs, exchange, wipe, reader>>

CompleteProgress(r) ==
    /\ At(r, "recorded")
    /\ Note(r, "succeeded")
    /\ Goto(r, "listing")
    /\ UNCHANGED <<bomOf, stale, store, exchange, wipe, reader, count, history>>

\* Fault: the query is not restricted to the BOM.
ListStaleAnywhere(r) ==
    /\ At(r, "listing")
    /\ bomOf[r] \in Boms
    /\ stale' = [stale EXCEPT ![r] = {s \in Runs : /\ row[s] = "succeeded"
                                                  /\ s < r}]
    /\ Goto(r, IF stale'[r] = {} THEN "done" ELSE "pruning")
    /\ UNCHANGED <<bomOf, progress, store, exchange, wipe, reader, count, history>>

\* prune_snapshots() queries the BOM's rows once and works on that list ...
ListStale(r) ==
    /\ At(r, "listing")
    /\ bomOf[r] \in Boms
    /\ stale' = [stale EXCEPT ![r] = Beyond(bomOf[r])]
    /\ Goto(r, IF Beyond(bomOf[r]) = {} THEN "done" ELSE "pruning")
    /\ UNCHANGED <<bomOf, progress, store, exchange, wipe, reader, count, history>>

\* ... but does nothing for a run without a BOM, nor when the table, its query or
\* the container fails: what it raises is swallowed.
SkipPrune(r) ==
    /\ At(r, "listing")
    /\ \/ bomOf[r] \notin Boms /\ UNCHANGED count
       \/ Happens("fault")
    /\ Goto(r, "done")
    /\ UNCHANGED <<bomOf, stale, progress, store, exchange, wipe, reader, history>>

\* Fault: the blob is forgotten.
PruneBlobForgotten(r) ==
    /\ At(r, "pruning")
    /\ Goto(r, "dropping")
    /\ UNCHANGED <<bomOf, stale, progress, store, exchange, wipe, reader, count, history>>

\* For each listed run, newest first: its blob ...
PruneBlob(r) ==
    /\ At(r, "pruning")
    /\ \E s \in Latest(stale[r]) :
          \/ blobs' = blobs \ {s} /\ UNCHANGED count
          \/ blobs' = blobs /\ Happens("fault")
    /\ Goto(r, "dropping")
    /\ UNCHANGED <<bomOf, stale, progress, row, exchange, wipe, reader, history>>

\* ... then its row, whether or not the blob could be deleted.
PruneRow(r) ==
    /\ At(r, "dropping")
    /\ \E s \in Latest(stale[r]) :
          /\ WriteRow(s, "none")
          /\ stale' = [stale EXCEPT ![r] = @ \ {s}]
          /\ Goto(r, IF stale[r] = {s} THEN "done" ELSE "pruning")
    /\ UNCHANGED <<bomOf, progress, blobs, exchange, wipe, reader, history>>

\* Fault: the poller is not told.
FailProgressForgotten(r) ==
    /\ At(r, "failing")
    /\ Goto(r, "failed")
    /\ UNCHANGED <<bomOf, stale, progress, store, exchange, wipe, reader, count, history>>

\* The failure path tells the poller first and the table second.
FailProgress(r) ==
    /\ At(r, "failing")
    /\ Note(r, "failed")
    /\ Goto(r, "failed")
    /\ UNCHANGED <<bomOf, stale, store, exchange, wipe, reader, count, history>>

\* Fault: the row is written with another status.
RecordFailedAsError(r) ==
    /\ At(r, "failed")
    /\ WriteRow(r, "error")
    /\ Goto(r, "done")
    /\ UNCHANGED <<bomOf, stale, progress, blobs, exchange, wipe, reader, history>>

RecordFailed(r) ==
    /\ At(r, "failed")
    /\ WriteRow(r, "failed")
    /\ Goto(r, "done")
    /\ UNCHANGED <<bomOf, stale, progress, blobs, exchange, wipe, reader, history>>

\* insert_run() opens the runs table before its try: when that fails, main()
\* answers 500 and nothing that follows in the handler takes place, neither the
\* compilation, nor telling the poller of a success, nor pruning.
Abort(r) ==
    /\ pc[r] \in {"accepted", "persisted", "failed"}
    /\ Happens("fault")
    /\ Goto(r, "aborted")
    /\ UNCHANGED <<bomOf, stale, progress, store, exchange, wipe, reader, history>>

Handle(r) ==
    \/ RecordRunning(r) \/ StartProgress(r) \/ Compile(r) \/ Persist(r)
    \/ RecordSucceeded(r) \/ CompleteProgress(r)
    \/ ListStale(r) \/ SkipPrune(r) \/ PruneBlob(r) \/ PruneRow(r)
    \/ FailProgress(r) \/ RecordFailed(r) \/ Abort(r)

------------------------------------------------------------------------------
\* GET /api/snapshots/export: the listed runs, without those whose blob cannot be
\* read, or is gone since the rows were listed.  An export matters only while an
\* import may follow, and before the first import one is enough: a later one could
\* have been the only one (bounds).
Export ==
    /\ count["import"] < MaxImports
    /\ archive = {} \/ count["import"] > 0
    /\ archive' \in SUBSET {r \in blobs : row[r] = "succeeded"}
    /\ archive' # archive
    /\ restoring = {}
    /\ UNCHANGED <<restoring, restored, handler, store, wipe, reader, count, history>>

\* Fault: the import replaces what is there.
StartImportReplacing ==
    /\ restoring = {} /\ archive # {}
    /\ Happens("import")
    /\ restoring' = archive
    /\ blobs' = {}
    /\ UNCHANGED <<archive, restored, handler, row, wipe, reader, history>>

\* POST /api/snapshots/import replays the archive, one entry after the other:
\* the blob, overwriting, then the row.  After the last import (a bound) nobody
\* looks at the archive any more.
StartImport ==
    /\ restoring = {} /\ archive # {}
    /\ Happens("import")
    /\ restoring' = archive
    /\ archive' = IF count'["import"] < MaxImports THEN archive ELSE {}
    /\ UNCHANGED <<restored, handler, store, wipe, reader, history>>

\* An entry whose blob cannot be written is skipped.
RestoreBlob ==
    /\ restored = 0
    /\ \E s \in Latest(restoring) :
          \/ /\ restored' = s
             /\ blobs' = blobs \cup {s}
             /\ UNCHANGED <<restoring, count>>
          \/ /\ Happens("fault")
             /\ restoring' = restoring \ {s}
             /\ UNCHANGED <<restored, blobs>>
    /\ UNCHANGED <<archive, handler, row, wipe, reader, history>>

RestoreRow ==
    /\ restored # 0
    /\ WriteRow(restored, "succeeded")
    /\ restoring' = restoring \ {restored}
    /\ restored' = 0
    /\ UNCHANGED <<archive, handler, blobs, wipe, reader, history>>

Import == StartImport \/ RestoreBlob \/ RestoreRow

------------------------------------------------------------------------------
\* POST /api/local-state/wipe drops the tables, lists the blobs, deletes them, and
\* answers ok ...
DropTables ==
    /\ wiping \in {"idle", "swept"}
    /\ Happens("wipe")
    /\ row' = [r \in Runs |-> "none"]
    /\ wiping' = "listing"
    /\ wiped' = {r \in Runs : Ended(r)}
    /\ UNCHANGED <<handler, blobs, exchange, doomed, reader, history>>

\* ... whatever fails: when the runs table cannot be dropped its rows stay, and the
\* wipe goes on to the blobs;
KeepTables ==
    /\ wiping \in {"idle", "swept"}
    /\ MaxFaults > 0
    /\ Happens("wipe")
    /\ wiping' = "listing"
    /\ UNCHANGED <<wiped, doomed, handler, store, exchange, reader, history>>

\* Fault: only the blobs of listed runs are deleted, after the tables are gone.
ListBlobsOfRows ==
    /\ wiping = "listing"
    /\ doomed' = {r \in blobs : row[r] # "none"}
    /\ wiping' = "deleting"
    /\ UNCHANGED <<wiped, handler, store, exchange, reader, count, history>>

ListBlobs ==
    /\ wiping = "listing"
    /\ doomed' = blobs
    /\ wiping' = "deleting"
    /\ UNCHANGED <<wiped, handler, store, exchange, reader, count, history>>

WipeBlob(r) ==
    /\ wiping = "deleting"
    /\ r \in doomed
    /\ blobs' = blobs \ {r}
    /\ doomed' = doomed \ {r}
    /\ UNCHANGED <<handler, row, exchange, wiping, wiped, reader, count, history>>

\* when their listing or a deletion fails, the remaining blobs stay.
BreakWipe ==
    /\ MaxFaults > 0
    /\ \/ wiping = "listing"
       \/ wiping = "deleting" /\ doomed # {}
    /\ wiping' = "idle"
    /\ doomed' = {}
    /\ UNCHANGED <<wiped, handler, store, exchange, reader, count, history>>

EndWipe ==
    /\ wiping = "deleting" /\ doomed = {}
    /\ wiping' = "swept"
    /\ UNCHANGED <<handler, store, exchange, doomed, wiped, reader, count, history>>

Wipe ==
    \/ DropTables \/ KeepTables \/ ListBlobs \/ (\E r \in Runs : WipeBlob(r))
    \/ BreakWipe \/ EndWipe

------------------------------------------------------------------------------
\* GET /api/snapshots/latest: the newest listed row first, its blob second.
FindLatest(b) ==
    /\ reading = 0
    /\ reading' \in Latest(Listed(b))
    /\ UNCHANGED <<missed, handler, store, exchange, wipe, count, history>>

OpenLatest ==
    /\ reading # 0
    /\ missed' = IF reading \in blobs THEN missed ELSE missed \cup {reading}
    /\ reading' = 0
    /\ UNCHANGED <<handler, store, exchange, wipe, count, history>>

------------------------------------------------------------------------------
InFlight(r) == pc[r] # "idle" /\ ~ Ended(r)

\* The process restarts: every request in flight and the progress table are
\* gone, the database and the files stay as they are.
Crash ==
    /\ Happens("crash")
    /\ pc' = [r \in Runs |-> IF InFlight(r) THEN "lost" ELSE pc[r]]
    /\ stale' = [r \in Runs |-> {}]
    /\ progress' = [r \in Runs |-> "none"]
    /\ restoring' = {} /\ restored' = 0
    /\ wiping' = IF wiping = "swept" THEN "swept" ELSE "idle"
    /\ doomed' = {}
    /\ reading' = 0
    /\ UNCHANGED <<bomOf, store, archive, wiped, missed, history>>

Next ==
    \/ \E r \in Runs, b \in Partitions : Accept(r, b)
    \/ \E r \in Runs : Handle(r)
    \/ Export
    \/ Import
    \/ Wipe
    \/ (\E b \in Partitions : FindLatest(b)) \/ OpenLatest
    \/ Crash

Spec == Init /\ [][Next]_vars

\* A handler thread, once started, is scheduled until it returns (every ARM
\* call it makes has a timeout); users and restarts owe nothing.
FairSpec == Spec /\ \A r \in Runs : WF_vars(Handle(r))

------------------------------------------------------------------------------
TypeOK ==
    /\ bomOf \in [Runs -> Partitions \cup {NoBom}]
    /\ pc \in [Runs -> Steps]
    /\ row \in [Runs -> Status]
    /\ blobs \in SUBSET Runs
    /\ stale \in [Runs -> SUBSET Runs]
    /\ progress \in [Runs -> Status]
    /\ archive \in SUBSET Runs
    /\ restoring \in SUBSET Runs
    /\ restored \in Runs \cup {0}
    /\ wiping \in {"idle", "listing", "deleting", "swept"}
    /\ doomed \in SUBSET Runs
    /\ wiped \in SUBSET Runs
    /\ reading \in Runs \cup {0}
    /\ missed \in SUBSET Runs
    /\ count \in [Events -> Nat]
    /\ newest \in [Partitions -> Runs \cup {0}]
    /\ published \in SUBSET Runs

\* The newest run a partition lists can be opened: neither pruning (by several
\* handlers at once, each with a list that may be out of date), nor an import,
\* nor a restart or a failed call between a blob's and its row's deletion,
\* ever takes the blob of the run that api/snapshots_latest serves.
LatestHasBlob ==
    \A b \in Partitions : Latest(Listed(b)) \subseteq blobs

\* Keep newer runs of a run's BOM have succeeded; a run without a BOM stays.
Superseded(r) ==
    /\ bomOf[r] \in Boms
    /\ Cardinality({s \in published : s > r /\ bomOf[s] = bomOf[r]}) >= Keep

\* A reader that finds the latest row and then no blob (404 blob_missing) was
\* overtaken by at least Keep newer successful runs of the same BOM.
MissedOnlyWhenOvertaken == \A r \in missed : Superseded(r)

\* Retention takes a run out of the history only once Keep newer runs of the
\* same BOM have succeeded, and a run without a BOM never.
PrunedOnlyWhenSuperseded == \A r \in published : row[r] = "none" => Superseded(r)

\* Both: a run disappears from the history, or under a reader's hands, only when
\* retention may take it.
GoneOnlyWhenSuperseded == PrunedOnlyWhenSuperseded /\ MissedOnlyWhenOvertaken

Quiescent == \A r \in Runs : ~ InFlight(r)

\* "Keep at most this many succeeded snapshots per BOM on disk": once no
\* handler is active, whatever the order in which concurrent runs of the BOM
\* recorded their success and listed the rows to prune.  (Runs without a BOM are
\* kept without bound.)
RetentionBound ==
    Quiescent => \A b \in Boms : Cardinality(Listed(b)) <= Keep

\* No file is left that no row lists, and no row without its file.
FilesMatchRows ==
    Quiescent => blobs = {r \in Runs : row[r] = "succeeded"}

\* What the poller was told agrees with the table: success is never announced
\* before the row says so, and a handler that is through leaves both alike.
\* (A pruned run has no row any more.)
ProgressAgreesWithRow ==
    \A r \in Runs :
        /\ progress[r] = "succeeded" => row[r] \in {"succeeded", "none"}
        /\ pc[r] = "done" => row[r] \in {progress[r], "none"}

\* Without a restart, a failing call or an import, whatever the order of the
\* handlers' calls, the store comes to rest with at most Keep snapshots of a BOM,
\* every snapshot with its row, and the poller was told what the rows say.
Settled ==
    count["crash"] + count["fault"] + count["import"] = 0 =>
        RetentionBound /\ FilesMatchRows /\ ProgressAgreesWithRow

\* What a wipe removed stays removed: a run that had ended when the runs table was
\* really dropped never shows up again, through a prune or a handler that was in
\* flight meanwhile, and once a wipe has got through all blobs its file is gone
\* too, whatever fails or restarts later.  (A wipe answers ok as well when it
\* could not drop the table or broke off among the blobs; then nothing is said.)
WipedStaysGone ==
    \A r \in wiped :
        /\ row[r] = "none"
        /\ wiping = "swept" => r \notin blobs

\* Every run a client sees as running comes to an end its row shows, or the poller
\* is told (when the row could not be written), or the handler had no chance to:
\* a restart took it away, or it could not open the table, which the answer to its
\* POST says.  (Nothing ends the rows of a previous process, and insert_run() does
\* not try again: such rows do stay "running".  A restart also forgets what the
\* pollers were told.)
RunsEnd ==
    \A r \in Runs :
        row[r] = "running" ~>
            \/ row[r] # "running"
            \/ progress[r] \in {"succeeded", "failed"}
            \/ pc[r] \in {"aborted", "lost"}
            \/ pc[r] = "done" /\ count["crash"] > 0

\* A poller waits for ever on a progress record only when the run's snapshot is
\* written but the table could not be opened to record it: a 500 answers the POST,
\* and the record is left as it is.
ProgressEnds ==
    \A r \in Runs :
        progress[r] = "running" ~> (progress[r] # "running" \/ pc[r] = "aborted")

\* Both: neither the history nor a poller shows a run as running for good, but for
\* what a restart or a table that does not open leaves behind.
NobodyWaitsForever == RunsEnd /\ ProgressEnds

\* The snapshots that can be opened behave as SnapshotHistory says.
History == INSTANCE SnapshotHistory
    WITH Boms <- Partitions,
         readable <- {<<bomOf[r], r>> : r \in {s \in blobs : row[s] = "succeeded"}}

ImplementsHistory == History!Spec
===============================================================================
