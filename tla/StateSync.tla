------------------------------ MODULE StateSync ------------------------------
(***************************************************************************)
(* The browser-held durable copy of the stateless hosted mode: the server  *)
(* keeps one RAM store per signed-in customer and may drop it at any time; *)
(* each page mirrors its customer's store to localStorage after a change   *)
(* (scheduleStateSave, saveStateToLocal in app/app.js, GET                 *)
(* /api/state/export) and replays it on load (hydrateStateFromLocal, POST  *)
(* /api/state/import).                                                     *)
(*                                                                         *)
(* A document is a set of items, what the changes it reflects left behind: *)
(* rows, and the snapshot blob of an analysis.  A page asks for the latest *)
(* snapshot of each BOM only, and writes rows alone when localStorage is   *)
(* full.  The requests of a page that is reloaded are dropped with it.     *)
(* Sign-in is MSAL-only: the server's store is chosen by the token a       *)
(* request carries, the localStorage key by the account the page shows     *)
(* when it writes.                                                         *)
(***************************************************************************)
EXTENDS Naturals, FiniteSets

CONSTANTS
    Accounts,
    Anon,          \* no account: the fallback localStorage key
    Tabs,          \* pages of one browser, sharing its localStorage
    Changes,       \* successful mutating requests, each made once
    Analyses,      \* those that record a run that succeeded, with its snapshot
    Newer,         \* of a change: the later runs of the same BOM
    None,
    SlowExports,   \* may an export take longer than the debounce of 1 s?
    MaxReloads,    \* bounds: reloads by the user,
    MaxEvictions,  \*   stores dropped by the server,
    MaxFaults,     \*   failed exports, imports and localStorage writes,
    MaxSwitches,   \*   sign-outs,
    MaxArchives    \*   imports of a snapshot archive

ASSUME StateSyncAssumption ==
    /\ Anon \notin Accounts
    /\ None \notin Accounts \cup {Anon}
    /\ Analyses \subseteq Changes
    /\ Newer \in [Changes -> SUBSET Analyses]
    /\ \A document \in SUBSET [change : Changes, part : {"rows", "blob"}] : None # document
    /\ SlowExports \in BOOLEAN
    /\ {MaxReloads, MaxEvictions, MaxFaults, MaxSwitches, MaxArchives} \subseteq Nat

VARIABLES
    server,        \* the RAM store of each customer; empty when dropped
    local,         \* localStorage, by _stateKey()
    page,          \* what a page is doing
    account,       \* DelegatedAuth.account
    token,         \* window.__ARM_TOKEN, as the account it was minted for
    raw,           \* the document a page is replaying
    timer,         \* _stateSaveTimer is set
    saves,         \* exports a page waits for (doc None) or has to write
    author,        \* history: the customer who made a change
    lost,          \* history: items a customer's store once had and lost
    count          \* how often the bounded events happened

storage == <<server, local>>
session == <<page, account, token, raw>>
history == <<author, lost>>
vars == <<storage, session, timer, saves, history, count>>

Keys == Accounts \cup {Anon}
Pages == {"closed", "hydrating", "open", "restored", "saving", "leaving", "gate"}
Events == {"reload", "eviction", "fault", "switch", "archive"}
Limit == [reload |-> MaxReloads, eviction |-> MaxEvictions, fault |-> MaxFaults,
          switch |-> MaxSwitches, archive |-> MaxArchives]

Happens(e) ==
    /\ count[e] < Limit[e]
    /\ count' = [count EXCEPT ![e] = @ + 1]

------------------------------------------------------------------------------
Items == [change : Changes, part : {"rows", "blob"}]
Document == SUBSET Items

RowsOf(c) == [change |-> c, part |-> "rows"]

\* What a change leaves in the store: rows, and of an analysis its snapshot.
Made(c) == {i \in Items : i.change = c /\ (i.part = "blob" => c \in Analyses)}

\* A snapshot of which a document shows a later run of the same BOM
\* (_latest_snapshot_blob_names goes by the rows).
Superseded(i, doc) == i.part = "blob" /\ \E c \in Newer[i.change] : RowsOf(c) \in doc

\* export_state(latest_snapshots_only=True)
LatestOnly(doc) == {i \in doc : ~ Superseded(i, doc)}

\* _writeStateBackup(): "strip the snapshot blobs and retry".
TablesOnly(doc) == {i \in doc : i.part = "rows"}

\* _stateSaveInFlight
SaveInFlight(t) == \E s \in saves : s.tab = t

\* Fault: saves may overlap.
AskExportAgain(t) ==
    saves' = saves \cup {[tab |-> t, from |-> token[t], doc |-> None]}

\* saveStateToLocal() asks for an export unless one is under way; then it
\* returns at once, and nothing is left that would ask again.
AskExport(t) ==
    saves' = IF SaveInFlight(t) THEN saves
             ELSE saves \cup {[tab |-> t, from |-> token[t], doc |-> None]}

\* Fault: the account MSAL returned is not kept.
BootUnnamed(t, a) ==
    /\ account' = [account EXCEPT ![t] = None]
    /\ token' = [token EXCEPT ![t] = a]
    /\ raw' = [raw EXCEPT ![t] = local[a]]
    /\ page' = [page EXCEPT ![t] = IF local[a] = None THEN "open" ELSE "hydrating"]

\* The page's scripts start (afresh): hydrateStateFromLocal() reads the copy of
\* account a, and replays it if there is one.
Boot(t, a) ==
    /\ account' = [account EXCEPT ![t] = a]
    /\ token' = [token EXCEPT ![t] = a]
    /\ raw' = [raw EXCEPT ![t] = local[a]]
    /\ page' = [page EXCEPT ![t] = IF local[a] = None THEN "open" ELSE "hydrating"]

Init ==
    /\ server = [a \in Accounts |-> {}]
    /\ local = [k \in Keys |-> None]
    /\ page = [t \in Tabs |-> "closed"]
    /\ account = [t \in Tabs |-> Anon]
    /\ token = [t \in Tabs |-> Anon]
    /\ raw = [t \in Tabs |-> None]
    /\ timer = [t \in Tabs |-> FALSE]
    /\ saves = {}
    /\ author = [c \in Changes |-> None]
    /\ lost = [a \in Accounts |-> {}]
    /\ count = [e \in Events |-> 0]

Load(t, a) ==
    /\ page[t] = "closed"
    /\ Boot(t, a)
    /\ UNCHANGED <<storage, timer, saves, history, count>>

\* The user reloads a page, or the page reloads itself after an import:
\* setTimeout(() => location.reload(), 600).  Its timer and its requests are
\* gone; its account stays, which MSAL holds in sessionStorage.
Reload(t) ==
    /\ \/ page[t] = "open" /\ Happens("reload")
       \/ page[t] = "leaving" /\ UNCHANGED count
    /\ Boot(t, account[t])
    /\ timer' = [timer EXCEPT ![t] = FALSE]
    /\ saves' = {s \in saves : s.tab # t}
    /\ UNCHANGED <<storage, history>>

\* The replay replaces the customer's store; a replay that fails is logged, and
\* the page goes on with whatever the server has.
Hydrate(t) ==
    /\ page[t] = "hydrating"
    /\ \/ /\ server' = [server EXCEPT ![token[t]] = raw[t]]
          /\ lost' = [lost EXCEPT ![token[t]] = @ \cup (server[token[t]] \ raw[t])]
          /\ UNCHANGED count
       \/ Happens("fault") /\ UNCHANGED <<server, lost>>
    /\ page' = [page EXCEPT ![t] = "open"]
    /\ UNCHANGED <<local, account, token, raw, timer, saves, author>>

\* Fault: one store for all customers.
ApplyForAll(t, c) ==
    /\ author[c] = None
    /\ author' = [author EXCEPT ![c] = token[t]]
    /\ server' = [a \in Accounts |-> server[a] \cup Made(c)]

\* The server applies a change c of the page's customer.
Apply(t, c) ==
    /\ author[c] = None
    /\ author' = [author EXCEPT ![c] = token[t]]
    /\ server' = [server EXCEPT ![token[t]] = @ \cup Made(c)]

\* Fault: no save is scheduled.
ChangeUnsaved(t, c) ==
    /\ page[t] \in {"hydrating", "open"}
    /\ Apply(t, c)
    /\ UNCHANGED <<local, session, timer, saves, lost, count>>

\* apiFetch(): a mutating request succeeds, and the save timer is (re)started.
Change(t, c) ==
    /\ page[t] \in {"hydrating", "open"}
    /\ Apply(t, c)
    /\ timer' = [timer EXCEPT ![t] = TRUE]
    /\ UNCHANGED <<local, session, saves, lost, count>>

Timer(t) ==
    /\ timer[t]
    /\ SlowExports \/ ~ SaveInFlight(t)
    /\ timer' = [timer EXCEPT ![t] = FALSE]
    /\ AskExport(t)
    /\ UNCHANGED <<storage, session, history, count>>

\* The page that waited in _importSnapshots for its save goes on to reload.
EndSave(s) ==
    page' = [page EXCEPT ![s.tab] = IF @ = "saving" THEN "leaving" ELSE @]

\* GET /api/state/export?blobs=latest: the server answers with the store of the
\* token's customer, without the snapshots a later run has superseded, or with an
\* error, which ends the save.
Answer(s) ==
    /\ s.doc = None
    /\ \/ /\ saves' = (saves \ {s}) \cup {[s EXCEPT !.doc = LatestOnly(server[s.from])]}
          /\ UNCHANGED <<page, count>>
       \/ /\ Happens("fault")
          /\ saves' = saves \ {s}
          /\ EndSave(s)
    /\ UNCHANGED <<storage, account, token, raw, timer, history>>

\* _writeStateBackup(): the key is computed now, not when the export was asked
\* for.  When localStorage is full, the rows are written without the snapshots,
\* or, when they do not fit either, nothing is.
Write(s) ==
    /\ s.doc # None
    /\ \/ local' = [local EXCEPT ![account[s.tab]] = s.doc] /\ UNCHANGED count
       \/ /\ Happens("fault")
          /\ \/ local' = [local EXCEPT ![account[s.tab]] = TablesOnly(s.doc)]
             \/ UNCHANGED local
    /\ saves' = saves \ {s}
    /\ EndSave(s)
    /\ UNCHANGED <<server, account, token, raw, timer, history>>

------------------------------------------------------------------------------
\* An archive of snapshots is imported; the page will save and then reload.
ImportArchive(t, c) ==
    /\ page[t] = "open"
    /\ Happens("archive")
    /\ Apply(t, c)
    /\ timer' = [timer EXCEPT ![t] = TRUE]
    /\ page' = [page EXCEPT ![t] = "restored"]
    /\ UNCHANGED <<local, account, token, raw, saves, lost>>

\* await saveStateToLocal()
SaveNow(t) ==
    /\ page[t] = "restored"
    /\ AskExport(t)
    /\ page' = [page EXCEPT ![t] = IF SaveInFlight(t) THEN "leaving" ELSE "saving"]
    /\ UNCHANGED <<storage, account, token, raw, timer, history, count>>

------------------------------------------------------------------------------
\* doSignOut(), and the first half of doSwitchDirectory(): the sign-out request
\* is a POST and starts the save timer; the token stays in the page.
SignOut(t) ==
    /\ page[t] = "open"
    /\ Happens("switch")
    /\ timer' = [timer EXCEPT ![t] = TRUE]
    /\ account' = [account EXCEPT ![t] = Anon]
    /\ page' = [page EXCEPT ![t] = "gate"]
    /\ UNCHANGED <<storage, token, raw, saves, history>>

\* Sign-in at the gate, or the second half of doSwitchDirectory(), whose
\* sign-in request is a POST too.
SignIn(t, a) ==
    /\ page[t] = "gate"
    /\ Boot(t, a)
    /\ timer' \in {timer, [timer EXCEPT ![t] = TRUE]}
    /\ UNCHANGED <<storage, saves, history, count>>

\* The server drops a customer's store: idle for too long, too many customers,
\* or a restart of the process (see MemStore).
Evict(a) ==
    /\ server[a] # {}
    /\ Happens("eviction")
    /\ server' = [server EXCEPT ![a] = {}]
    /\ lost' = [lost EXCEPT ![a] = @ \cup server[a]]
    /\ UNCHANGED <<local, session, timer, saves, author>>

Next ==
    \/ \E t \in Tabs :
          \/ \E a \in Accounts : Load(t, a) \/ SignIn(t, a)
          \/ \E c \in Changes : Change(t, c) \/ ImportArchive(t, c)
          \/ Hydrate(t) \/ Timer(t) \/ SaveNow(t) \/ Reload(t) \/ SignOut(t)
    \/ \E s \in saves : Answer(s) \/ Write(s)
    \/ \E a \in Accounts : Evict(a)

Spec == Init /\ [][Next]_vars

\* Browsers run timers and continuations, the server answers requests; the
\* user does as he likes.
FairSpec ==
    /\ Spec
    /\ \A t \in Tabs : WF_vars(Timer(t)) /\ WF_vars(Hydrate(t))
    /\ WF_vars(\E s \in saves : Answer(s) \/ Write(s))

------------------------------------------------------------------------------
TypeOK ==
    /\ server \in [Accounts -> Document]
    /\ local \in [Keys -> {None} \cup Document]
    /\ page \in [Tabs -> Pages]
    /\ account \in [Tabs -> Keys]
    /\ token \in [Tabs -> Keys]
    /\ raw \in [Tabs -> {None} \cup Document]
    /\ timer \in [Tabs -> BOOLEAN]
    /\ saves \subseteq [tab : Tabs, from : Keys, doc : {None} \cup Document]
    /\ author \in [Changes -> Accounts \cup {None}]
    /\ lost \in [Accounts -> Document]
    /\ count \in [Events -> Nat]

\* Customers sharing a machine never get each other's data, neither in the
\* server's store nor in the copy the browser keeps for them.
AccountsKeptApart ==
    \A a \in Accounts :
        /\ \A i \in server[a] : author[i.change] = a
        /\ local[a] # None => \A i \in local[a] : author[i.change] = a

\* A customer who uses one page at most.
SinglePage(a) == \A t, u \in Tabs : account[t] = a /\ account[u] = a => t = u

\* What a copy loses with the next one, but for the snapshots of which that shows a
\* later run.
Gone(old, new) == {i \in old \ new : ~ Superseded(i, new)}

\* The mirroring by itself loses nothing that is not superseded: for a customer with
\* a single page, a row or a BOM's latest snapshot disappears from the durable copy
\* only if the server's store had lost it before (because it was evicted, or an
\* older copy was replayed over it), and a snapshot also when localStorage was full.
\* Exports answered late, saves skipped, failed calls, reloads and imports of an
\* archive do not roll the copy back.
LosesOnlyWhatTheServerLost ==
    [][\A a \in Accounts :
          (SinglePage(a) /\ local[a] # None /\ local'[a] # None) =>
              \A i \in Gone(local[a], local'[a]) :
                  \/ i \in lost[a]
                  \/ i.part = "blob" /\ count'["fault"] # count["fault"]]_vars

\* "After any change we mirror the server's state back": every row, and every
\* snapshot while it is its BOM's latest, reaches the durable copy, unless the
\* server loses it first, or a page signs out before its timer fires.
MirrorsEventually ==
    \A a \in Accounts, i \in Items :
        i \in LatestOnly(server[a]) ~>
            \/ i \notin LatestOnly(server[a])
            \/ count["switch"] > 0
            \/ local[a] # None /\ i \in local[a]
==============================================================================
