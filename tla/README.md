# A TLA+ model of the Azure region dashboard

This directory holds TLA+ modules that model the stateful core of the
dashboard, TLC configurations that check them on small instances, and proofs,
checked by TLAPS, of the most important results for every value of the
constants. The reference is always the code under `src/`; `PROJECT.json` maps
every definition to the lines it translates.

    tlc -workers 2 -config RunLifecycle.cfg MCRunLifecycle
    tlc -workers 2 -config Services.cfg MCServices
    tlapm RunLifecycle_proofs.tla

## 1. The system

The dashboard is a Python HTTP host (`src/server/app.py`) in front of some
sixty handlers (`src/api/<name>/__init__.py`) and shared modules
(`src/api/_shared`), and one browser page (`src/app/app.js`). The host serves
each request on a thread of its own. State lives in three places: module
globals of the process, a storage backend, and the browser's `localStorage`.

| Part | State | Operations | Hard behaviour |
|---|---|---|---|
| Run progress table (`run_progress.py`) | one dict under one lock, capped | `start`, `set_phase`, `increment`, `set_progress`, `complete`, `get` | worker threads update it concurrently and read the clock before the lock; eviction at the cap; rounding |
| Analysis runs (`runs_post`, `compile.py`, `snapshot_store.py`) | a row in the runs table, a snapshot blob, a progress record | validate, insert row, compile with one retry, persist, update row, complete, prune | two tables of truth that are not updated together; concurrent prunes of a BOM; restarts, failing calls |
| Snapshot archive (`snapshots_export`, `snapshots_import`) | none of its own | export listed runs; restore blob then row | restores what is being pruned |
| Wipe (`local_state_wipe`) | none of its own | drop tables, list blobs, delete them | runs in flight meanwhile; each part may fail silently and the answer is ok all the same |
| Durable copy in the browser (`app.js`, `state_sync`) | `localStorage` per account, a debounce timer, an in-flight flag | save after a change, replay on load, import, sign-out, account switch | slow or failing exports, several pages, a server that drops stores |
| In-memory backend, hosted mode (`storage.py`) | per customer a SQLite connection and a blob dict, last-seen times | table and blob calls, export, import, clear, `_touch_and_evict` | cap, idle sweep, a blob dict used after the lock is released |
| On-disk backend (`storage.py`) | a SQLite file, a directory of blobs | table and blob calls | each call is atomic; what follows a failed call |
| Tokens (`auth_token.py`, `auth_signin`, `auth_signout`) | process-wide credential, account record and token cache; MSAL's cache and `auth_record.json` on disk | acquire, refresh, probe, sign in, sign out | acquisition outside the lock against sign-out; accounts a sign-out fails to remove; three modes over one cache |
| Custom catalog (`bom_catalog.py`) | a table per customer and a read-through cache per process | list, add, delete, invalidate | a stale read stored after an invalidation; the cap; one cache for all customers |
| Managed datasets (`dataset_store.py`, loaders of `bom_regions`, `bom_services`) | override files, a JSON sidecar, a cache per loader | save, reset, unlink, fetch again, load | encodings the validator reads and the loaders do not; one temporary name per dataset; unlocked read-modify-write of the sidecar; a loader overtaken by a save |
| Support tickets (`support_tickets.py`, the page's dialog) | a table of tickets, the dialog's wait for an answer, Azure's tickets | create, refresh status, close | a time-out after acceptance; a refresh over a close; a swallowed save |
| Support settings (`support_settings.py`) | one row with a JSON map | save, read with defaults | concurrent read-modify-write; defaults after a failed read |
| BOM definitions (`bom_storage.py`, `subscription_metadata`, `runs_post`, `snapshots_*`) | a table of BOMs, also rows of older releases; the snapshots' meta blocks | create, update, delete, analyse, export, import, rebuild | rows of three shapes; a check that is stale when the row is written; an import that fails in part |
| Service check (`bom_services.py`, `pipeline/model.py`) | the answers collected so far | parallel provider calls with retries, paged SKU list, marks | a broken or throttled call; Azure changing meanwhile |
| Table of regions (`pipeline/model.py`) | none | health, status, gap score, alternatives | weights, ties, missing coordinates, no healthy region |
| Verdicts, quota, zones (`compile.py`) | none: each analysis reads ARM's answers anew | quota tiers, remediation plan, zone merge, verdict, advice | partial answers, boundary values, rules that interact, answers that change between two analyses |
| Zonal capability, SKU paging, quota requests, pricing, activity log, HTTP host, rendering, tools | see `PROJECT.json` and section 7 | | |

The parts interact as follows. The page posts a run and polls its progress
record by a token it mints; the handler writes row and blob through the storage
backend, whichever of the two is configured. In hosted mode the backend is in
memory, the page mirrors its customer's store to `localStorage` after each
mutating request and replays it on load. Wipe, import, prune and the handlers
share the runs table and the blob container without any lock above single
calls. An analysis takes its token from the token cache, its services and
subscriptions from the BOM's row, its catalog from the managed datasets and the
custom entries, and ends in a verdict per region, the marks of the service check
and the table of regions; the page files tickets for what stands in the way.
The progress table, the token cache and the other caches are gone after a
restart; tables, files and MSAL's cache are not.

What makes each part correct:

* **progress**: the bar is full exactly when the run succeeded, does not move
  back except when a phase is entered again, the table is bounded and forgets the
  stalest record, and a forgotten record does not come back half-filled;
* **runs**: the newest listed run of a BOM can be opened at any time; retention
  deletes only what is superseded and in the end exactly the rest; rows and
  progress records do not stay running; what a wipe removed stays removed;
* **durable copy**: the rows of every change and the latest snapshot of every BOM
  reach the copy of the customer whose they are, nobody else's, and the mirroring
  itself loses none of them;
* **in-memory backend**: customers are kept apart, the cap holds at every
  moment, only idle or least recently seen customers go, and the newest listed
  run keeps its snapshot;
* **verdict**: a region is ready only on the strength of answers that were
  received; what blocks it comes with an advice, and the advice on quota is
  enough; more zones, access or quota never make it worse;
* **tokens**: a request acts for its own caller; after a sign-out nothing acts for
  an account the sign-out removed; a signed-in user's session survives a restart;
* **custom catalog**: what a customer is served is what his table holds, and his
  additions stop at the cap;
* **datasets**: a loader sees one whole file, the active one, or nothing when it
  cannot decode it, and the sidecar says where it came from;
* **tickets and settings**: our rows and Azure's tickets agree, nobody files twice
  because of our mistake, a status does not go back; a save keeps what it does
  not mention;
* **BOMs**: whatever release wrote a row, it can be edited and saved unchanged, as
  long as the catalogs have what it names; an import puts back what was exported;
* **service check, table**: every mark is backed by an answer of Azure; every
  region that is advised instead of another is better than it.

## 2. Modules

| Module | Models | Composed with |
|---|---|---|
| `RunProgress` | `run_progress.py` | - |
| `SnapshotHistory` | the abstract promise of the run history | refined by `RunLifecycle` |
| `RunLifecycle` | run handlers, prune, export, import, wipe, readers, restart | `SnapshotHistory` |
| `StateSync` | pages, `localStorage` and the server's stores | - |
| `MemStore` | the in-memory backend with the runs and exports using it | - |
| `Verdict` | what `compile.py` concludes about a region from ARM's answers | - |
| `SupportTickets` | tickets, from the dialog to Azure and back | `MCServices` |
| `SupportSettings` | saves of the support settings | `MCServices` |
| `TokenCache` | `auth_token.py` and its two endpoints | `MCServices` |
| `CatalogCache` | custom regions and services behind their cache | `MCServices` |
| `DatasetStore` | override files, sidecar, loaders | `MCServices` |
| `BomDefinitions` | BOM rows, saves, analyses, export and import of them | `MCServices` |
| `ServiceCheck` | where a BOM's services are available | `MCServices` |
| `RegionModel` | the table of regions | `MCServices` |
| `..._proofs` | theorems about the module of that name; `AzureAccess_proofs`: `TokenCache`, `ServiceCheck`, `SupportTickets`, `SupportSettings`; `ReferenceData_proofs`: `CatalogCache`, `DatasetStore`, `BomDefinitions`, `RegionModel`; `Services_proofs`: all eight together, as `MCServices` runs them | those modules |
| `MC...` | instances for TLC (symmetry sets, tables); `MCServices` runs the eight service modules | the module of that name |

Definitions commented "Fault:" are variants of the definition below them with a
plausible mistake. No action uses them; they are there so that every property
can be shown to notice such a mistake (`PROJECT.json`, "mutants").

### RunProgress

`progress` is `_PROGRESS`, `now` the clock, `started` the tokens already used (a
client mints a UUID per run). One action per public function that writes; `get`
only reads. Each function reads `time.time()` *before* it takes the lock, so a
call carries any stamp of the last `MaxLag` ticks (`Stamps`). `Evict` is the
eviction inside `start`; with equal stamps any of the oldest may go. The
percentage is computed with integer division, where the code multiplies floats
and rounds down with `int()`; the comparison with 99 and 100 and the order of
the guards are the code's. Worker binding (`bind`, the thread-local token) and
the display texts are left out.

### RunLifecycle and SnapshotHistory

`pc[r]` is the position of the handler of run `r` between two storage or
progress calls, which are the atomic steps. `row` and `blobs` are the on-disk
backend, `progress` the status in the progress table. The steps follow
`runs_post.main` from the run id on: insert the row as running, start the
progress record, compile (returns, fails, or is told that the token expired and
is retried once), persist the blob, update the row, complete the record, list
the stale rows, delete their blobs and rows in turn. Every failure path first
completes the record and then writes the row. `insert_run` swallows a failing
upsert, but opens the table before its `try`: when that fails, `main` answers
500 and the rest of the handler does not take place (`Abort`).
`persist_snapshot` lets every failure through, and may leave a partial file. A
run lives in a partition: its BOM, or its subscription when it has none
(`Bomless` bounds who may come without). Pruning does nothing for the latter,
nor when its query fails (`SkipPrune`). A wipe drops the tables, lists the blobs
and deletes them one by one, and answers ok whatever fails: the runs table may
stay (`KeepTables`), or the loop over the blobs may break off (`BreakWipe`);
`wiping` is "swept" when it got through. These two are bounded by the number of
wipes, not of failing calls. Run ids begin with a time stamp in seconds, so that
runs accepted within one second come in any order: `Accept` does not require ids
in order. `Export` takes any part of the listed snapshots because it reads rows
first and blobs later. `Crash` ends all handlers and empties the progress table.
Whether a compilation succeeds is a nondeterministic choice; request validation
precedes the first step and changes no state. The handler is modelled for
requests that carry a progress token, as the page's always do.

`SnapshotHistory` has one variable, the set of `<<BOM, run>>` that can be
opened: one appears at a time, and one disappears only while a newer one of the
same BOM can be opened. `RunLifecycle` implements it with `readable` as the
listed runs that have a blob.

### StateSync

A document is a set of items, what the changes it reflects left behind: rows, and
the snapshot blob of an analysis. `Newer[c]` are the later runs of the BOM of
change `c`: the export a page asks for (`?blobs=latest`) is `LatestOnly`, without
the snapshots a later run's row in it supersedes. `server[a]` is the RAM store of
customer `a`, `local` is `localStorage` by `_stateKey()`, `saves` the exports a
page waits for or has to write, `timer` the debounce timer. `AskExport` is the
head of `saveStateToLocal` with its in-flight flag, `Write` is
`_writeStateBackup`, which computes the key when it writes and not when the
export was asked for. `Hydrate` is the replay on load. `SignOut` and `SignIn`
are the gate and `doSwitchDirectory`: the token of the old account stays in the
page until the next sign-in. A reload drops the page's timer and requests. When
`setItem` fails because of the quota, the rows are written without the blobs
(`TablesOnly`), or, if they do not fit either, nothing is.

### MemStore

`rows`, `blobs` and `seen` are `_mem_conns`, `_mem_blobs` and `_mem_last_seen`.
`Serve` is `_touch_and_evict`, part of every access; `Detach` notes which
handlers hold a blob dict that has left the store. `LookUp` and `WriteBlob` are
two steps because the lock is released in between. The two lock sections of a
table call (obtain the connection, execute) are one step: between them another
thread may close the connection, and the call then fails without effect.
`Visitors` bounds the exploration: customers who only use tables and blobs, and
matter to the others through the cap alone.

### Verdict

The state is what the subscriptions answer when asked about one region: which of
them can be read (`access`), the zones each reports for each family (`zones`),
the target's quota rows and those of its quota group with the status of either
query (`quotaStatus`, `row`, `groupStatus`, `groupRow`), missing and unregistered
services, and the requirements of the BOM (`reqs`). The conclusions are
operators, named after the functions they translate:

| Operator | Code |
|---|---|
| `Best`, `BestRow`, `Covers` | `_best_subscription_quota_match`, `_best_quota_group_match` |
| `Tier1`, `Tier2`, `Shortfall`, `RequirementStatus` | `_evaluate_subscription_requirement` |
| `RegionQuota` | `_evaluate_quota_tiers` |
| `TargetSummary` | `_summarize_subscription_quota_for_region`, for the target |
| `Planned`, `RecommendedLimit` | `_build_quota_remediation_plan` |
| `ZonesOf`, `Found` | `_merge_family_zone_health` |
| `Blockers`, `HasConstraints`, `DeploymentVerdict` | `_compute_deployment_verdict` |
| `Recommendations` | `_build_recommendations` |

The actions are the changes of those answers from one analysis to the next: a
role lost or granted, a zone opened or closed, cores used, a limit raised (also:
exactly as the plan recommends), a query that fails. A property of a step thus
compares two analyses. Simplifications: one region (regions do not influence
each other); a quota group has one row per family; the quota of helper
subscriptions is shown as possible donors and decides nothing; messages are left
out, so blockers of one type and severity are one; a rejected token (401) of the
target ends the analysis and belongs to `RunLifecycle`, any other refusal is a
state with `access[Target]` other than "ok".

### SupportTickets and SupportSettings

A ticket name is sent to Azure (`Put`), which accepts or refuses it whether or
not anyone still waits (`AzureAccepts`, `AzureRefuses`); only after the answer
is a row written (`Submitted`, `SubmitFailed`, `RequestFailed`), by
`_save_record`, which swallows a failing write. `awaits` and `told` are the
page's dialog: it disables its button until an answer is there, takes any
failure for a reason to let the user submit again, and chooses a new name then.
A refresh reads the row, polls Azure and writes the whole row back in three
steps; a close asks Azure first and then does the same. The status of a ticket
is the number of times it changed at Azure. In demo mode nothing is sent.

`SupportSettings` has the one map that needs care, resource groups per
subscription: `BeginSave` reads and merges, `FinishSave` writes the whole map,
`BeginSaveBlind` is the read that fails and yields the defaults. The plain
fields are merged by the table itself.

### TokenCache

The variables are the module globals of `auth_token.py` and what persists
outside of the process (`msal`, `file`). `req[t]` is where the request of thread
`t` is: `todo` the cache keys it wants tokens for, `step` its position in
`get_token`. Looking into the cache and deciding to acquire is one step, since
it happens under the lock; asking the token service (`Acquire`, `Answered`) and
putting the token into the cache (`StoreToken`) happen outside of it, and a
sign-out or another thread may come between. `NotSignedIn` leads to the silent
probe, whose credential is always that of the record. A forced request asks for
the default token first. `SignIn` and `SignedIn` are the interactive sign-in,
one at a time, during which the thread does not hold the lock; `SignOut` resets
the globals and removes the accounts through the credential, if there is one:
any part of them, as the loop ends silently where a removal fails. `kept` are
those that stay; the saved record always does. A customer's own token
(delegated) passes the cache by. Tokens do not expire by the clock: a forced
request covers that.

### CatalogCache

`table` is each customer's partition of `bomcustomcatalog`, `hot` the list the
process caches per kind, with whose it is (which the code does not store; it
serves the list to everyone). A request goes look - query - store to read and
write - drop to change, one step per lock section or table call. `ReplaceStore`
is the hosted mode's eviction or replay under the cache, `RestartHost` a
restart.

### DatasetStore

`dest` and `temp` are the override file of a dataset and its `.tmp` file,
`sidecar` the JSON file of all datasets' origins, `held` the loaders' caches. A
content has an `Origin`, "half" is a cut-off or mixed one. A content that passes
the validator need not be in `Utf8`, the encoding the loaders open: `Active` is
then "nothing", as it is for half a file, which `bom_regions` caches as an empty
list (`Lenient`) while `bom_services` raises and caches nothing. A save opens,
writes and moves the `.tmp` file, loads, changes and writes the sidecar, then
empties the cache: seven steps, between which other saves, resets and loaders
act. File handles are followed (`handle`): when one save moves the `.tmp` file
away, another that has it open writes into the file in place, or into one that
is gone. A loader resolves its path, opens and parses, and fills the cache. The
history variables name the overlaps the properties leave out.

### BomDefinitions

A row of the BOM table is `[sub, ids, skus, services, regions, details]`, in the
shapes the releases wrote: keyed by a subscription, with a single subscription,
or with a list. `BomRecord` is what GET makes of it, `Normalized` what a save
writes, `TargetIds` the normalisation of the subscriptions, `Accepted` the
validation of a body: every service, tier and region must be in the merged
catalogs (`offered`). A service and one tier of it are two members of
`Services`, the second with `ServiceOf` the first; an analysis asks for the
services only. `Dedup` keeps the first occurrence of each subscription; it is
defined by the rank of those occurrences, without recursion. A save checks first
(`SaveBom`) and writes later (`WriteBom`); the catalog may change between.
`Analyse` and `AnalyseUpload` leave the meta block of a snapshot, with the
operator's own subscription as a fallback; `BeginImport`, `RestoreBom`,
`RestoredRows` and `RebuildBom` are the import, one row at a time, each write of
which may fail.

### ServiceCheck and RegionModel

`ServiceCheck` has what Azure offers (`known`, `sites`, `zonesAt`), which may
change, and what the check has read (`got`, `zoned`). Provider calls are
answered in any order and retried up to `Attempts`; the SKU list of Premium SSD
v2 is read page by page without retries and dropped when it is refused. `Mark`,
`Overall`, `MissingServices` and `HasBomIssue` are the conclusions.

`RegionModel` is `build_model`: `Chosen`, `ZoneOk` and `SkuBlockers` are
`analyze_skus`, `Status` and `GapScore` the columns, `AltRegions` the
alternatives, by published latency, by the hand-made list or by distance when
there are healthy regions, by score otherwise. `Sorted` is `sort()` with a key
followed by the cut to `TopN`: a region's place is the number of those before it.
The geographic tables are constants; `RegionChanges` is what another analysis may
find.

### MCServices

The eight modules share no variable: they touch through values only (a token, a
list of services), and what one hands to another is nondeterministic in the
other. `MCServices` therefore lets each behaviour run one of `Parts`, which gives
the sum of the state spaces and not their product.

## 3. Runs

| Run | Instance | What it shows |
|---|---|---|
| `RunProgress` | 3 tokens, table of 2, 2 phases, 2 items, lag 1 | `TableSound`, `EvictsLeastRecentlyUpdated`, `ForgottenStaysForgotten`, `PercentFallsOnlyOnReentry` |
| `RunLifecycle` | 3 runs of a BOM, one of which may have none; a restart or a failing call, and an import | `LatestHasBlob`, `GoneOnlyWhenSuperseded`, `Settled`, `ImplementsHistory` |
| `RunLifecycle_ends` | 2 runs, of a BOM or without one; any two of a restart, a failing call and a wipe, whose own calls may fail too; fair | `WipedStaysGone`, `NobodyWaitsForever` |
| `RunLifecycle_wiperace` | a wipe and two runs | **violated**: `LatestHasBlob` |
| `StateSync` | 2 customers, 2 pages, 3 changes (two are analyses of one BOM), a reload, an eviction, an archive, a failing call | `AccountsKeptApart`, `LosesOnlyWhatTheServerLost` |
| `StateSync_mirror` | 1 page, fast exports, an eviction, a sign-out; fair | `MirrorsEventually` |
| `StateSync_skipped` | 1 page, an export slower than the debounce; fair | **violated**: `MirrorsEventually` |
| `StateSync_switch` | 1 page, a sign-out while an export is under way | **violated**: `AccountsKeptApart` |
| `MemStore` | a customer with 2 runs and 2 visitors, cap 2, idle timeout | `StoresSound`, `EvictsIdleOrLeastRecentlySeen` |
| `Verdict` | target and helper, 2 families, 2 BOMs, 5 quota rows, 2 zone maps, any one change | `SummaryAgrees`, `ReadyIsBacked`, `EveryBlockerHasAdvice`, `RemediationSuffices`, `MoreQuotaNeverHurts`, `ImprovementNeverHurts` |
| `Verdict_ready` | target alone, one requirement with a fallback | **violated**: `ReadyIsDeployable` |
| `Services` | one of the eight service modules at a time, as below | `Tracked`, `FiledTwiceOnlyAfterLostAnswer`, `StatusOnlyAdvances`; `OthersGroupsKept`; `SignedOutStaysOut`, `SessionAndTokens`; `EntriesSound`; `LoadersSeeWholeFiles`, `ProvenanceTrue`; `SavesAsRead`, `ImportRestores`; `MarksBacked`; `AlternativesHelp` |

The passing runs that explore a module's instance check its `TypeOK` as well.
Several properties are conjunctions of named parts, each of which says one thing
(`Settled`, for instance: `RetentionBound`, `FilesMatchRows` and
`ProgressAgreesWithRow`, for behaviours without restart, failing call or import).

What the parts of `Services` show:

| Part | Instance | Shows |
|---|---|---|
| tickets | 2 asks, 2 names, 2 threads, a status that changes once, a fault | a ticket at Azure is shown as submitted unless its answer was lost, its save failed or its row was wiped; nobody files twice for another reason; a status goes back only when two updates overlap |
| settings | 3 subscriptions, 2 savers, a failing read | a save changes its own subscription's entry only, unless another save overtook it or the read failed |
| tokens | 2 accounts, 2 customers, 1 subscription, 2 threads, the three modes | every token served is the caller's; nothing remains after a sign-out but the accounts it did not remove; a session resumes |
| entries | 2 customers, 1 kind, 2 names, cap 1, a slip | the cached list is the table of its customer, the cap holds, but for the overlaps named |
| datasets | 2 datasets that share the sidecar, 3 contents, one in an encoding the loaders do not read, 2 threads, 2 events | whole files, or nothing where they cannot be read, true provenance, but for the overlaps named |
| boms | 1 BOM of an older release, 1 new one, a service with a tier, a region, 1 write, 1 failure or change of the catalog | every row can be saved as it was read, if the catalogs have what it names; an import restores |
| check | 1 type, its provider, the disk, 2 regions, 1 change at Azure | every mark is backed by an answer |
| regions | 3 regions, 1 requirement, 1 missing service at most | the alternatives shown are better, and the best is among them |

**Why the bounds are enough.** Eviction and the cap need one participant more
than there are places, and three to compare two that stay with one that goes.
Concurrent prunes need three runs of a BOM with one kept: two that prune with
lists that differ and one that is newer than both. That a prune keeps to its own
BOM shows in the run that may have none. A failed deletion and a restart between
a blob and its row have the same effect, so that one of the two, alone or with
an import before or after it, gives every kind of half-done prune; both together
come in `RunLifecycle_ends`. For the durable copy one reload lets an older
document be replayed (what comes of that is mirrored, and replayed by a second
one, like any other document), two pages exercise the shared `localStorage`, and
three changes, two of them analyses of a BOM, give a document before, during and
after an export, and one that drops a snapshot. The clock bounds exceed the lag,
the timeout and the throttle they are compared with. The initial states of
`Verdict` enumerate every assignment of an ample, tight, used-up, overdrawn,
unreported or absent row to two families that two requirements share, with and
without group and helper, so that one change after it reaches every pair of
analyses that differ in one answer. In `Services`, two threads give every
interleaving of a read-modify-write or a cache fill with a change; two names let
an ask be filed twice; two customers and a cap of one make a foreign or stale
list matter; two datasets and two events allow two changes that meet, of one
dataset or of both, or a restart and a change after it; two changes of a
ticket's status would repeat the first. `MaxEvents` bounds restarts, failing
calls and wipes taken together, since more of them exceed what TLC does in
minutes. The proofs below have none of these bounds.

**Fairness.** `RunLifecycle`: weak fairness of each handler. Handlers run on
threads of their own, take no lock across calls, and every outgoing call has a
timeout, so a handler that was started takes its next step.
`NobodyWaitsForever` excuses what the code leaves behind: the rows of a
previous process, and the row and progress record of a handler that could not
open the runs table. Nothing is assumed of users, imports, wipes, readers or
restarts. `StateSync`: weak fairness of a page's timer, of its replay, and of
the answer to and writing of an export; browsers run due timers and
continuations and requests are answered. Nothing is assumed of users, evictions
or reloads. The other specifications are used for safety only.
`MirrorsEventually` is checked with one page, because two pages of a customer
may write their exports in the opposite order and the code does not claim
otherwise, and without failing calls, because a failed save is not retried.

## 4. Proofs

Every invariant, action property and refinement that a passing run checks is
also proved, for every value of the constants that satisfies the module's
assumption; the two liveness properties are named at the end of this section.

No theorem assumes anything of the constants beyond that. What a theorem needs of
the behaviour it states as a hypothesis, in one of three forms:

* `[](Unwiped => P)`: `P` holds in every state up to the first wipe, whatever
  comes later;
* `Spec /\ []H => []P`: of the behaviours whose states all satisfy `H`, for what
  two activities may not do at the same time;
* `Spec /\ [][A]_vars => []P`: of the behaviours none of whose steps breaks `A`,
  for what users and timers may not do at a given moment.

Such a hypothesis says where the code's own promise ends. For each of the four
known violations (section 5) there is a theorem that holds right up to it.

| Violated | Run | Theorem on the other side | Its hypothesis |
|---|---|---|---|
| `LatestHasBlob` | `RunLifecycle_wiperace` | `WipesAsideAreSafe` | `WipeAside`: while a wipe works no run is between its blob and its row, or prunes, and no import runs; `DropsWhole`: no wipe goes on to the blobs after failing to drop the runs table |
| `AccountsKeptApart` | `StateSync_switch` | `CustomersKeptApart` | `Patient`: nobody signs in at a page whose export is under way |
| `MirrorsEventually` | `StateSync_skipped` | `ChangesAreOnTheirWay` (its safety half) | `Calm`, `Patient`, `Prompt`, `LeftSaved`, below |
| `ReadyIsDeployable` | `Verdict_ready` | `ReadyUnlessCountedElsewhere` | `CountedWhereOffered`: the cores of a requirement are not counted in a fallback that lacks zones |

`RunProgress_proofs` proves the type invariant, `TableSound` and the three action
properties. The type invariant contains `percent \in 0..100`, which needs the
lemmas about `ComputePercent` (at most 99 for any phase, counter and total); with
it `HundredIffSucceeded` and the cardinality bound are each inductive, the latter
by the lemmas about `Evict` and the library's facts on finite sets.
`BarMovesBackOnReentryOnly` needs that a record which runs shows no more than the
end of its phase (`PaceInv`), and that the next phase begins there: the lemmas
`DivGalois`, `DivMonotone` and `DivCancel` show that a quotient is monotone and
that the number of items cancels, whatever total each phase announces.
`StalestGoesFirst` needs that a started token has no record yet (`TableInv`).

`RunLifecycle_proofs` proves, for every number of runs, BOMs, restarts, failing
calls, imports and wipes and for every retention limit:

* `TypeCorrect`: `Spec => []TypeOK`;
* `LatestCanBeOpened`, `OnlySupersededGo`, `StoreSettles`: until the first wipe,
  `LatestHasBlob`, `GoneOnlyWhenSuperseded` (a run without a BOM is never
  superseded, hence never goes) and `Settled` (whose bound speaks of BOMs only,
  and which supposes that no call failed: a prune that could not query leaves more
  than the limit);
* `HistoryImplemented`: without a wipe, `ImplementsHistory`;
* `WipedForGood`: until the first import, `WipedStaysGone`: the runs that had
  ended when the runs table was dropped have no row any more, and once a wipe got
  through the blobs, no file either;
* `WipesAsideAreSafe`: `LatestHasBlob` with any number of wipes, under `WipeAside`
  and `DropsWhole`;
* `RetentionSurvivesWipes`: the retention promise with any number of wipes, under
  `WipeAlone` and `DropsWhole`.

The hypotheses are needed: with a wipe at the wrong moment `LatestHasBlob` is
false, as the run `RunLifecycle_wiperace` shows, and so it is with a wipe that
keeps the rows and deletes their blobs; a wipe removes runs nothing has
superseded; an archive may hold a run that was wiped, and restores it. A wipe
that breaks off among the blobs needs none of them: the rows are gone by then.

`LatestHasBlob` is not inductive: a prune deletes a blob on the strength of a
list read earlier. The invariant `Safe` adds what makes this harmless:

* `AcceptedInv`: a run whose handler has started has a BOM, and one that has
  persisted its snapshot has its blob;
* `PublishedInv`: a published run is not about to be published again, has a BOM,
  and is no newer than `newest[b]` of that BOM;
* `NewestInv`: `newest[b]`, once there is one, is a published run of `b` that is
  listed as succeeded and has its blob;
* `ListedInv`, `SupersededInv`: a run in a prune's list is older than
  `newest[b]`, hence never the newest run of its BOM;
* `ExchangeInv`: an archive and what is still to be restored hold published runs
  only, so an import cannot list a run newer than `newest[b]`;
* `NoWipe`: no wipe is under way.

The refinement uses the same invariant: a step that takes a run out of
`readable` deletes a blob or a row of a superseded run while `newest[b]` is
readable; any other step adds one run or leaves `readable` as it is.

`OnlySupersededGo` adds `SpentInv`. A run is `Superseded` when `Keep` newer runs
of its BOM were published; runs stay published, so once superseded always
superseded. Whatever is on a prune's list, has lost its row or blob, or was
missed by a reader is superseded, unless it was there when a wipe began
(`wiped`). The run `RunLifecycle` has `Keep` fixed and three runs; the theorem
speaks of any number of prunes with outdated lists.

`RetentionSurvivesWipes` rests on the same `SpentInv`, which therefore leaves
`wiped` out, and on `Sane`, what is left of `Safe` when `newest[b]` may be gone:
runs that are listed, archived or restored were published, published runs have
ended their compilation, and a persisted run has its blob. `SpentStep` covers
every step but a wipe's own, and serves both theorems; the drop of the runs table
puts every published run into `wiped`, because under `WipeAlone` (no analysis is past
its compilation while a wipe works) each of them has ended. Imports need no
hypothesis: an archive from before the wipe brings wiped runs back, which are no
less published. TLC finds `SupersededOrWiped` violated as soon as any one of the
five steps `WipeAlone` names is allowed beside a wipe.

`WipesAsideAreSafe` cannot use `newest[b]`, which a wipe deletes with the rest.
`AsideInv` follows the runs listed now: a listed run has its blob or a newer run
of its BOM is listed (`RowsInv`); so has the entry being restored (`CopyInv`);
each run on a prune's list has a newer one that stays (`StaleInv`); and a wipe at
work has left no succeeded row (`DroppedInv`, for which `DropsWhole` is needed).

`StoreSettles` adds `CalmInv`: while no call has failed, no host restarted and
nothing was imported, the following holds in every state. What pollers were told
agrees with the rows, up to the steps of the handler between the two
(`ToldInv`); a blob without a listed row, or a row without a blob, belongs to a
handler that is about to write or delete the other one (`FilesInv`); and each
run of a BOM beyond the limit is on the list of a handler that prunes, or some
handler of its BOM has yet to make its list (`DueInv`). At rest there are no
such handlers. That no more than `Keep` are then left is a matter of counting
(`FewGreater`): the oldest of the listed runs has all others above it, and fewer
than `Keep` of them. The oldest exists (`LeastNumber`) by the library's facts on
well-founded sets.

`WipedForGood` rests on `WipedInv`: a run that was wiped has no handler any more
and no row; if its blob is still there when a wipe deletes blobs, the wipe has it
on its list; and after a wipe that got through, the blob is gone. A restart or a
failing deletion in between ends the wipe, and only the row is promised.

`StateSync_proofs` proves, for any number of accounts, pages, changes, reloads,
sign-ins, evictions and archives, `TypeCorrect`, `CustomersKeptApart`
(`[]AccountsKeptApart`), `MirroringLosesNothing` (`LosesOnlyWhatTheServerLost`)
and `ChangesAreOnTheirWay`. The second to fourth suppose `Patient`: nobody signs
in at a page whose export is under way. Without it `AccountsKeptApart` is false:
the run `StateSync_switch` stores a document under another account's key. `Steady`
says that a page that shows an account has that account's token, and an export was
asked for with its page's token; `Apart` that every document, wherever it is (in a
store, a copy, a page that replays, an export under way), holds changes of its
owner only. `MirroringLosesNothing` also supposes `AloneOut`: nobody signs out
while another page uses his account, which would change who is a single page.
`Mirrored` is its invariant: a page has one export under way at most (`OneSave`);
each document holds what its customer's store has or has lost (`Traced`); and of
a copy only one page writes, what the answer that will replace it lacks is
superseded in the answer or was lost (`UpToDate`, where `Gone` leaves the
superseded snapshots out). `GoneFromExport` says that an export leaves out nothing
else, `GoneFromTables` that a document cut for the quota lacks blobs only.

`ChangesAreOnTheirWay` is the safety half of `MirrorsEventually`: each item an
export of the server's store would hold (`Export`) and the copy lacks has a
timer or an export that will bring it (`SaveIsComing`), so that only the
browser's own scheduling, which the prover cannot reason about, is left; and a
page that reloads itself after an import finds everything in the copy
(`ReloadsSaved`). Its hypotheses are the conditions under which the code can
keep that promise: no call fails and customers use a page each (`Calm`); no save
falls due during another one, or during the replay (`Prompt`); users reload and
sign out when their changes are saved (`LeftSaved`). TLC finds `SaveIsComing`
violated when any one of these is dropped: each names a way in which `app.js`
forgets a save. The invariant `Tended` adds that a page that replays holds
exactly what the copy holds (`Replaying`), that an export that was answered has
everything a new one would have and the copy holds already (`Current`), and that
what a page waits for before reloading will hold all that an export has
(`Saving`).

`MemStore_proofs` proves `MemStoreTypeCorrect`, `StoresAreSound` (`StoresSound`)
and `EvictionIsFair` (`EvictsIdleOrLeastRecentlySeen`), for any customers, cap,
timeout and number of handlers. `MemInv` adds to the properties that a run is
nobody's until it is accepted, and that the blob dict its handler holds is in the
store only while the customer has one (`OwnerInv`); that a run in flight whose
store was not dropped holds such a dict, and then finds its snapshot in it
(`UnharmedInv`); and that whoever has a connection was seen, and not later than
now (`SeenInv`), on which the order of eviction rests. `Served` is what serving
one customer can do to the stores, proved once and used by each action.

`Verdict_proofs` proves every property of the `Verdict` run, for any finite or
infinite sets of subscriptions, families, rows and BOMs that satisfy
`VerdictAssumption`. `BestRow` is a `CHOOSE`; the lemmas show that the chosen
row has at least the headroom of every candidate, so that a requirement is
covered by a tier exactly when some candidate covers it. A raised limit makes
every row of the map at least as ample (`Grown`), hence the best row too; the
shortfall does not grow, and what the group covered stays covered. From this
follow `MoreQuotaNeverHurts` and, because the new limit exceeds the usage by the
required cores after rounding up, `RemediationSuffices`. For
`ImprovementNeverHurts` deployability is first shown equivalent to a formula
without blockers (no missing service, target readable, every family or its
fallback in all zones, no unknown quota), each part of which an improvement
preserves. `ReadyUnlessCountedElsewhere` shares the lemma `ReadyFacts` with
`ReadyTheorem`: in a ready region the primary family is open in all zones, so
that the family whose row was counted, if it is the primary one or a fallback
that is open in all zones too, has both zones and cores. A BOM without fallbacks
satisfies its hypothesis. None of these needs an invariant beyond `TypeOK`, as
the conclusions are a function of the state.

The proofs about the services, each under its own module's assumption and for any
number of threads, names, customers, faults:

* tickets and settings (`AzureAccess_proofs`): `SettingsTypeCorrect`,
  `SettingsMerged`, `TicketsTypeCorrect`, `TicketsTracked`, `FiledOnce` and
  `StatusAdvances`. For the settings, the map a save holds differs from the
  saved one in its own subscription only (`ReadHolds`), which every other write
  invalidates for the savers it overtakes. For the tickets the invariant adds
  which thread may hold a name and in what stage (`Records`), how the page's
  wait, its last message and Azure's tickets relate (`Filing`), and that the
  revision a thread is about to write is no older than the row's unless the row
  is in `overlapped` (`InTurn`).
* tokens (`AzureAccess_proofs`): `TokenTypeCorrect`, `SignOutHolds`,
  `TokensAndSession`. Neither property is inductive: what is cached is what some
  thread carried across the network, and that was bound to a credential earlier.
  The invariant says of the local mode, unless `mixed`, that while nobody is
  signed in MSAL, the cache and the threads between two steps have only accounts
  the last sign-out did not remove (`kept`), and while `user` is signed in the
  file, the record and the credential are empty or his, the cache and the
  threads his or a kept account's (`Session`); of the hosted modes, that nothing
  local is used and each thread's account is its caller's (`Hosted`). The case
  the properties except, a removal that fails, is thus in the model, and what
  they say of every other account holds in spite of it. `ThreadMoves` collects
  what the actions of one thread have in common.
* service check (`AzureAccess_proofs`): `CheckTypeCorrect`, `MarksAreBacked`.
  Every answer read, and every page, is among those Azure could have given since
  the check began (`Recorded`, `Backed`), and the check is done only when nothing
  is left to read (`InOrder`).
* custom entries (`ReferenceData_proofs`): `CatalogTypeCorrect`,
  `EntriesAreSound`. A query that nobody overtook has seen its table
  (`QueriesFresh`), a thread is the only one of its customer, or the customer is
  in `shaken` (`Alone`), and then what it has seen or finds cached is the table
  (`SeenIsTable`, `HotIsTable`), so that an addition finds room (`Room`); the
  step to the bound is the library's cardinality of a set with one element more.
* datasets (`ReferenceData_proofs`): `DatasetTypeCorrect`, `WholeFiles`,
  `ProvenanceHolds`. Who writes the `.tmp` file of a dataset is alone, and the
  file is what he wrote, or the two clashed (`Written`); a loader that was not
  overtaken has found the active file, or nothing when it cannot decode it, which
  only a lenient one keeps (`Loading`); who changes a dataset that is
  not doubtful is alone (`Apart`), and carries between the file's change and the
  sidecar's what the sidecar will say (`Noted`).
* BOMs (`ReferenceData_proofs`): `BomTypeCorrect`, `SavedAsRead`,
  `ImportPutsBack`. `DedupFacts` and `TargetFacts` show that normalising gives a
  list without repetitions or blanks (`Plain`), starting with the row's own
  subscription, and that such a list is normalised to itself. The invariant
  `BomInv` says that rows, drafts between the check and the write, snapshots and
  archives are of one of the shapes the releases wrote (`Sound`), that the
  catalogs have every service, tier and region unless trouble came
  (`CatalogWhole`), and of an import that each BOM it has dealt with is as
  archived, or as its analysis left it (`ImportSound`, stage by stage).
* table of regions (`ReferenceData_proofs`): `RegionTypeCorrect`,
  `AlternativesAreBetter`. `Ranks` shows, for any strict total order on a finite
  set, that the number of elements before one is a bijection onto `0 .. n - 1`,
  so that a sorted list has each place taken by exactly one element and whatever
  is left out comes after whatever is shown. The score orders by gaps first
  because a region has at most three closed zones and a gap weighs a hundred
  (`ScoreOrders`).

`Services_proofs` carries these over to the module that TLC runs. `ServicesCompose`:
a behaviour of `MCServices` is a behaviour of each service by its own
specification, since every step either is a step of the service or leaves its
variables alone, and a service at rest is in one of its first states (the table of
regions by `RestAssumption`). From it follow `TypeCorrect`, for
`MCServices.TypeOK`, and `ServicesSound`, for every property the run `Services`
checks. The services share no variable, so that this takes little; it says that
the arrangement of the run hides nothing the modules by themselves would do.

**Only model-checked.** `NobodyWaitsForever` and `MirrorsEventually`, as liveness
under fairness and `ENABLED` are beyond the prover; of the second the safety half
is proved. The hypotheses above were found with TLC, which finds the property
violated on small instances when any part of `WipeAside`, `WipeAlone`, `Calm`,
`Prompt` or `LeftSaved` is dropped (for the prunes of `WipeAside` it takes a list
made before the wipe and an import after it); that is not itself proved.

**Data.** Induction over data needs theorems the installed provers cannot
instantiate. The definitions that are proved about therefore use neither
recursion nor folds: sorting and the removal of repetitions are by rank, the best
row and the newest run by `CHOOSE`. That the rank form of `Dedup`
equals the loop of `_extract_target_ids` was compared by TLC on all lists of up
to five subscriptions.

## 5. Known weaknesses of the code that the model shows

Four runs are expected to be violated; `PROJECT.json`, "findings", quotes what
the repository says.

1. `RunLifecycle_wiperace`: a run that succeeds between a wipe's table drop and
   its blob listing is listed without its blob.
2. `StateSync_skipped`: a save that falls due during another is dropped and
   nothing schedules it again.
3. `StateSync_switch`: the `localStorage` key is computed after two awaits, so a
   document may be stored under another account's key.
4. `Verdict_ready`: zones and cores of a requirement are judged separately, so a
   region is ready when one of the two families has the zones and only the other
   has the cores.

The rest was seen while modelling and has no run of its own: the models admit
it, and a history variable or an exception in the property names it.

**Runs and stores.** A restart leaves rows that stay "running"
(`runs_post:422`); `insert_run` opens the runs table before its `try`
(`compile.py:2169`), so that a table that does not open after a compilation
makes the POST answer 500, with the snapshot written, no row that lists it, and
a progress record that stays "running"; runs without a BOM are never pruned
(`snapshot_store.py:135`), and a prune whose query fails leaves what it should
have deleted until the BOM's next run (`:140`); a wipe answers ok though the
runs table could not be dropped, and then deletes the snapshots of rows that
stay, or though a deletion failed, and then leaves the remaining snapshots
(`local_state_wipe:40`, `:49`); an import does not prune, so a BOM may exceed
the retention limit until its next run (`snapshots_import:242`);
`last_update_ts` may move back because the clock is read before the lock
(`run_progress.py:165`); after an eviction under an open page the next save
mirrors a nearly empty store over the durable copy (`app.js:393`); an archive
imported while a save is in flight is not saved before the page reloads
(`app.js:10164`); a `localStorage` that is full makes a save drop the copy's
snapshots and keep the rows (`app.js:372`); two pages of a customer may write
their exports in the wrong order (`app.js:369`); a customer of the hosted mode
who has only blobs is neither counted nor evicted by the cap
(`storage.py:162`); the wipe drops the tickets and the BOMs but keeps the
support settings and the custom entries.

**Verdict.** A requirement of unknown quota shows only while no other one is
short, so that raising the limit of the short one moves the region from "ready
with constraints" to "needs validation" (`compile.py:617`, excepted in
`ImprovementNeverHurts`); the remediation plan skips regions whose status is
"partial" (`compile.py:657`), though they have short families; a raised limit may
turn "ready" into "ready with constraints" when it switches the row to a larger
one that is more than 80 % used (`compile.py:873`); every answering subscription
has a row and a note for every family (`arm_sku_availability.py:67`), so that the
verdict's branches for an unavailable SKU are never taken and every region of a
readable subscription gets the reservation advice, also a ready one; zones are
united over subscriptions though a deployment has one; and two requirements with
the same fallback each count its free cores (`compile.py:428`).

**Tokens** (`mixed`). A token that was on its way when the user signed out is
stored afterwards (`auth_token.py:699`). A sign-out (`kept`) removes accounts
from MSAL only through a credential that was built in this process, swallows a
removal that fails and answers 200, so that the next request may be served as
the old account (`auth_token.py:1035`); it leaves `auth_record.json` where it
is, though its docstring (`auth_token.py:1028`) says that a restart does not
resume the old session. Signing in as another account without signing out
leaves the first one's subscription tokens in the cache.

**Custom entries** (`astray`, `shaken`). The cache is one list per kind for the
whole process, so that in hosted mode a customer is served, and counted against,
the list that was read for another; a list queried before a write and stored
after its invalidation stays (`bom_catalog.py:201`); two additions that both see
one free place exceed the cap.

**Datasets** (`clashed`, `doubtful`, `overtaken`). Two saves of one dataset share
the `.tmp` name, so that one can move the other's half-written file into place;
the sidecar is read and written without a lock, by way of a `.tmp` name of its
own; a loader that read the old file fills the cache after it was emptied. And
without any overlap: the validator accepts latin-1 and UTF-8 with a mark
(`dataset_store.py:157`), which the loaders do not, so that an accepted override
yields an empty list of regions (`bom_regions.py:60`) or an error
(`bom_services.py:118`).

**Tickets and settings** (`lost`, `unheard`, `unsaved`, `overlapped`, `outrun`).
A PUT that times out after Azure accepted it is recorded as failed, and
submitting again files a second ticket; a refresh that read the row before a
close writes the older status over it; two saves of the settings at once, or one
whose read failed, drop other subscriptions' groups.

**BOMs** (`touched`, `unwritten`). A BOM whose custom region, service or tier
was removed from the catalog cannot be saved as it was read
(`bom_storage.py:407`), though an analysis of it asks for the services only; a
PUT after a DELETE makes the BOM anew; a BOM rebuilt from a snapshot also
targets the operator's own subscription when the analysis had fallen back to it
(`runs_post:387`, `snapshots_import:163`); an import whose row writes all fail
rebuilds bare BOMs over full ones; an archive with BOMs and no analyses is
refused.

**Service check and table.** The SKU list of the disk has no retries, so that one
broken connection fails the check; a refused list shows the disk as missing
everywhere; and the table's `fell_back` column is also true when the primary
family covers all zones and only the fallback has gaps (`model.py:247`).

## 6. Plan

Done: the core (`RunProgress`, `RunLifecycle` with `SnapshotHistory`, `StateSync`,
`MemStore`, `Verdict`) and the services, with the runs and proofs above. What
would come next, in order of importance:

1. The hypotheses of section 4 as guards: the few lines of code that would make
   each of them true (a wipe that waits for handlers, a save that is scheduled
   again, the key read before the first await), modelled as a variant on which the
   theorems hold without them.
2. The rest of the analysis: the merge of SKU rows over subscriptions, ARM's
   paging, the donor list; abstract specification: a cell of the merged table
   shows no zone that no subscription reported.
3. `zonal_capability.py`: the interpretation of one ARM answer as a pure operator.
4. An abstract register behind a lagging cache that both `CatalogCache` and
   `DatasetStore` implement.

Runs are merged where a new module needs room: one instance per question, not
per property.

## 7. Not modelled

* Parsing, formatting, layout and rendering: no property is about them, except
  the normalisation of a BOM's subscriptions, which `BomDefinitions` has.
* A wipe that fails to drop the table of BOMs or of tickets: `RunLifecycle` has
  the failing drop of the runs table, `WipeBoms` and the tickets' wipe are whole.
* The HTTP host beyond "one handler thread per request acting for one customer".
* MSAL and Azure Resource Manager: external, nondeterministic outcomes.
* Pricing: network lookups and arithmetic; its cache has an age limit, and a
  stale price is not a wrong one.
* The activity log: best effort, nothing is decided from it.
* `zonal_capability.py`, `deploy_validation.py`, SKU paging: each turns one
  answer into rows and keeps no state; their results are inputs of `Verdict`,
  `ServiceCheck` and `RegionModel`.
* Quota-increase endpoints: they pass one call through and keep nothing.
* `bom_import_xlsx`: parses a workbook and stores nothing.
* Filters and paging of table queries; floating-point distances, which
  `RegionModel` takes as numbers.
* The command-line tools: one-shot scripts for maintainers.

* Six hazards of `PROJECT.json` name no property, because what can go wrong there
  does (section 5) and the properties leave it out; their notes say how.

`PROJECT.json`, "components", gives the status of each part.
