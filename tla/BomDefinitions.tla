---------------------------- MODULE BomDefinitions ----------------------------
(***************************************************************************)
(* Bills of materials (api/_shared/bom_storage.py, the endpoint            *)
(* subscription_metadata, and what runs_post, snapshots_export and         *)
(* snapshots_import do with them): a table of BOMs, some of whose rows     *)
(* older releases wrote under the id of their subscription.  A save checks *)
(* its services, their tiers and its regions against the catalogs and      *)
(* writes the row after that; an import puts back the archived rows one by *)
(* one or, when it could put back none, rebuilds a BOM from each archived  *)
(* analysis.                                                               *)
(***************************************************************************)
EXTENDS Naturals, Sequences, FiniteSets, Functions

CONSTANTS
    Boms,          \* ids of BOMs; those of older releases are GUIDs
    Guids,         \* subscriptions
    Operator,      \* the operator's own one, which an analysis falls back to
    Services,      \* what a BOM may require: a service, or one tier of it
    ServiceOf,     \* the service itself
    BomRegions,    \* regions it may name
    Asked,         \* what users require, each a set of them
    Authors,       \* threads that serve a save
    MaxWrites,     \* bound: saves, deletions, uploads, analyses
    MaxTroubles,   \* bound: changes of the catalog, failing writes, wipes
    Gone

ASSUME BomAssumption ==
    /\ Operator \in Guids
    /\ Gone \notin Guids \cup Services
    /\ ServiceOf \in [Services -> Services]
    /\ \A s \in Services : ServiceOf[ServiceOf[s]] = ServiceOf[s]
    /\ Asked \subseteq SUBSET Services
    /\ \A asked \in Asked : \A s, t \in asked : ServiceOf[s] = ServiceOf[t] => s = t
    /\ MaxWrites \in Nat
    /\ MaxTroubles \in Nat

VARIABLES
    boms,          \* subscriptionmetadata: a row per BOM, or Gone
    offered,       \* the services, tiers and regions of the merged catalogs
    draft,         \* a save: the BOM and the checked row it is about to write
    runs,          \* the newest analysis of a BOM: the meta block of its snapshot
    archive,       \* an exported archive the user kept, or Gone
    restore,       \* an import: where it is and what is left to do
    writes,
    troubles,
    unwritten,     \* history: BOMs the import failed to write
    touched        \* history: BOMs someone else wrote or deleted during the import

bomVars == <<boms, offered, draft, runs, archive, restore, writes, troubles, unwritten, touched>>

\* services: required ones, each with a tier or without; regions: those to analyse,
\* {} for all; skus: there is a required family; details: the tag, the contact and
\* whatever else a snapshot does not tell.
IdLists == UNION {[1 .. n -> Guids] : n \in 0 .. 3}
BomRow == [sub : Guids \cup {Gone}, ids : IdLists, skus : BOOLEAN,
           services : SUBSET Services, regions : SUBSET BomRegions, details : BOOLEAN]
Meta == [ids : IdLists, services : SUBSET Services, targets : IdLists]

\* No row is the mark of a missing one.
ASSUME BomMark == Gone \notin BomRow

------------------------------------------------------------------------------
\* Every id once, in the order of the first occurrences.
Dedup(ids) ==
    LET firsts == {n \in DOMAIN ids : \A m \in 1 .. n - 1 : ids[m] # ids[n]}
        before == [n \in firsts |-> Cardinality({m \in firsts : m < n})]
    IN  [k \in 1 .. Cardinality(firsts) |-> ids[CHOOSE n \in firsts : before[n] = k - 1]]

\* _normalize_subscription_ids(): the list wins over the single id; <<>>: refused.
TargetIds(sub, ids) ==
    LET listed == IF ids # <<>> THEN ids ELSE IF sub # Gone THEN <<sub>> ELSE <<>>
    IN  IF Range(listed) \subseteq Guids THEN Dedup(listed) ELSE <<>>

\* upsert(): the row that is written, the first subscription being the primary one.
Normalized(sub, ids, skus, services, regions, details) ==
    LET listed == TargetIds(sub, ids)
    IN  [sub |-> Head(listed), ids |-> listed, skus |-> skus, services |-> services,
         regions |-> regions, details |-> details]

\* What it refuses: no subscription, and a service, a tier or a region no catalog has.
Accepted(sub, ids, services, regions) ==
    TargetIds(sub, ids) # <<>> /\ services \cup regions \subseteq offered

\* Fault: a row without subscriptions is not read as its key's.
RecordOfColumns(b, row) ==
    LET ids == IF row.ids # <<>> THEN row.ids ELSE <<row.sub>>
    IN  [row EXCEPT !.ids = ids, !.sub = Head(ids)]

\* _entity_to_record(): what a GET tells of a row, of whatever release.
BomRecord(b, row) ==
    LET ids == CASE row.ids # <<>> -> row.ids
                 [] row.ids = <<>> /\ row.sub # Gone -> <<row.sub>>
                 [] OTHER -> <<b>>
    IN  [row EXCEPT !.ids = ids, !.sub = Head(ids)]

\* PUT of what GET returned: the body's subscription, else its first, else the route.
PutBody(b, r) ==
    LET sub == IF r.sub # Gone THEN r.sub ELSE IF r.ids # <<>> THEN Head(r.ids) ELSE b
    IN  Normalized(sub, r.ids, r.skus, r.services, r.regions, r.details)

------------------------------------------------------------------------------
Picked == {ids \in IdLists : Len(ids) <= 2}

\* A catalog lists a tier with its service.
Catalogs == {listed \in SUBSET (Services \cup BomRegions) :
                \A s \in listed \cap Services : ServiceOf[s] \in listed}
NoImport == [stage |-> "idle", todo |-> {}, restored |-> FALSE]
Importing == restore.stage # "idle"
WriteCount == writes < MaxWrites /\ writes' = writes + 1
Trouble == troubles < MaxTroubles /\ troubles' = troubles + 1
Touch(changed) == touched' = IF Importing THEN touched \cup changed ELSE touched

\* The table of any release: a row under its subscription's GUID, one that names a
\* single subscription, or one with a list.
Older(b) == [sub : IF b \in Guids THEN Guids \cup {Gone} ELSE Guids, ids : {<<>>},
             skus : {TRUE}, services : Asked, regions : {BomRegions}, details : {TRUE}]
Newer == UNION {{Normalized(Gone, ids, TRUE, asked, BomRegions, TRUE) :
                    ids \in Picked \ {<<>>}} : asked \in Asked}

BomInit ==
    /\ boms \in [Boms -> {Gone} \cup Newer \cup UNION {Older(b) : b \in Boms}]
    /\ \A b \in Boms : boms[b] \in {Gone} \cup Newer \cup Older(b)
    /\ offered = Services \cup BomRegions
    /\ draft = [w \in Authors |-> Gone]
    /\ runs = [b \in Boms |-> Gone]
    /\ archive = Gone
    /\ restore = NoImport
    /\ writes = 0
    /\ troubles = 0
    /\ unwritten = {}
    /\ touched = {}

\* POST makes a BOM under a new id, PUT writes one under any id, even of a BOM
\* that was deleted; both check the whole of it before anything is written.  (A
\* service that is named twice is kept once, with the tier it had first.)
SaveBom(w, b, ids, skus, services, regions) ==
    LET sub == IF b \in Guids THEN b ELSE Gone IN
    /\ draft[w] = Gone
    /\ WriteCount
    /\ Accepted(sub, ids, services, regions)
    /\ draft' = [draft EXCEPT ![w] =
          [bom |-> b, row |-> Normalized(sub, ids, skus, services, regions, TRUE)]]
    /\ UNCHANGED <<boms, offered, runs, archive, restore, troubles, unwritten, touched>>

WriteBom(w) ==
    /\ draft[w] # Gone
    /\ \/ /\ boms' = [boms EXCEPT ![draft[w].bom] = draft[w].row]
          /\ Touch({draft[w].bom})
          /\ UNCHANGED troubles
       \/ Trouble /\ UNCHANGED <<boms, touched>>
    /\ draft' = [draft EXCEPT ![w] = Gone]
    /\ UNCHANGED <<offered, runs, archive, restore, writes, unwritten>>

DeleteBom(b) ==
    /\ boms[b] # Gone
    /\ WriteCount
    /\ boms' = [boms EXCEPT ![b] = Gone]
    /\ Touch({b})
    /\ UNCHANGED <<offered, draft, runs, archive, restore, troubles, unwritten>>

\* A custom service or region is deleted, a catalog file replaced, or one comes back.
CatalogChanges ==
    /\ Trouble
    /\ offered' \in Catalogs \ {offered}
    /\ UNCHANGED <<boms, draft, runs, archive, restore, writes, unwritten, touched>>

\* runs_post with use_saved_bom: a BOM with families, whose services the catalog
\* has, whatever became of their tiers and of its regions; its record says which
\* subscriptions are analysed, and the snapshot's meta block tells of them and of
\* the operator's own one, queried as a fallback.
Analysed(ids, services) ==
    {[ids |-> queried, services |-> services, targets |-> ids] :
        queried \in {ids} \cup (IF Operator \in Range(ids) THEN {} ELSE {Append(ids, Operator)})}

Analyse(b) ==
    /\ boms[b] # Gone
    /\ WriteCount
    /\ boms[b].skus
    /\ \A s \in boms[b].services : ServiceOf[s] \in offered
    /\ \E meta \in Analysed(BomRecord(b, boms[b]).ids, boms[b].services) :
          runs' = [runs EXCEPT ![b] = meta]
    /\ UNCHANGED <<boms, offered, draft, archive, restore, troubles, unwritten, touched>>

\* runs_post with an uploaded workbook: no BOM, the run goes under the subscription.
AnalyseUpload(b) ==
    /\ b \in Guids
    /\ WriteCount
    /\ \E meta \in Analysed(<<b>>, {}) : runs' = [runs EXCEPT ![b] = meta]
    /\ UNCHANGED <<boms, offered, draft, archive, restore, troubles, unwritten, touched>>

\* local_state_wipe, as far as it concerns BOMs and their analyses.
WipeBoms ==
    /\ Trouble
    /\ boms' = [b \in Boms |-> Gone]
    /\ runs' = [b \in Boms |-> Gone]
    /\ Touch(Boms)
    /\ UNCHANGED <<offered, draft, archive, restore, writes, unwritten>>

------------------------------------------------------------------------------
\* The archive has the analyses, and the BOMs, except from an older release or
\* when listing them fails.
Export ==
    /\ ~Importing
    /\ archive = Gone
    /\ \E listed \in {boms, [b \in Boms |-> Gone]} : archive' = [boms |-> listed, runs |-> runs]
    /\ UNCHANGED <<boms, offered, draft, runs, restore, writes, troubles, unwritten, touched>>

Archived(what) == {b \in Boms : archive[what][b] # Gone}

\* An archive without analyses is refused, whatever BOMs it has.
BeginImport ==
    /\ archive # Gone
    /\ ~Importing
    /\ Archived("runs") # {}
    /\ runs' = [b \in Boms |-> IF b \in Archived("runs") THEN archive.runs[b] ELSE runs[b]]
    /\ restore' = [stage |-> "rows", todo |-> Archived("boms"), restored |-> FALSE]
    /\ unwritten' = {}
    /\ touched' = {}
    /\ UNCHANGED <<boms, offered, draft, archive, writes, troubles>>

\* One BOM of the import is written, or its write fails, is logged and skipped.
PutBack(b, row) ==
    /\ \/ /\ boms' = [boms EXCEPT ![b] = row]
          /\ restore' = [restore EXCEPT !.todo = @ \ {b}, !.restored = TRUE]
          /\ touched' = touched \ {b}
          /\ UNCHANGED <<troubles, unwritten>>
       \/ /\ Trouble
          /\ restore' = [restore EXCEPT !.todo = @ \ {b}]
          /\ unwritten' = unwritten \cup {b}
          /\ UNCHANGED <<boms, touched>>
    /\ UNCHANGED <<offered, draft, runs, archive, writes>>

\* _restore_bom_entities(): the archived row as it is.
RestoreBom(b) ==
    /\ restore.stage = "rows"
    /\ b \in restore.todo
    /\ PutBack(b, archive.boms[b])

\* Fault: BOMs are rebuilt although rows were restored.
RebuildAnyway ==
    /\ restore.stage = "rows"
    /\ restore.todo = {}
    /\ restore' = [restore EXCEPT !.stage = "rebuild", !.todo = Archived("runs")]
    /\ UNCHANGED <<boms, offered, draft, runs, archive, writes, troubles, unwritten, touched>>

RestoredRows ==
    /\ restore.stage = "rows"
    /\ restore.todo = {}
    /\ restore' = IF restore.restored THEN [restore EXCEPT !.stage = "end"]
                  ELSE [restore EXCEPT !.stage = "rebuild", !.todo = Archived("runs")]
    /\ UNCHANGED <<boms, offered, draft, runs, archive, writes, troubles, unwritten, touched>>

\* _reconstruct_boms_from_snapshots(): families and services of the analysis, or
\* a bare BOM when the catalog no longer has one of the services or tiers; no
\* regions either way.
RebuildBom(b) ==
    /\ restore.stage = "rebuild"
    /\ b \in restore.todo
    /\ LET meta == archive.runs[b]
           known == Accepted(Gone, meta.ids, meta.services, {})
       IN  PutBack(b, Normalized(Gone, meta.ids, known,
                                 IF known THEN meta.services ELSE {}, {}, FALSE))

EndImport ==
    /\ \/ restore.stage = "end"
       \/ restore.stage = "rebuild" /\ restore.todo = {}
    /\ restore' = NoImport
    /\ UNCHANGED <<boms, offered, draft, runs, archive, writes, troubles, unwritten, touched>>

BomNext ==
    \/ \E w \in Authors, b \in Boms, ids \in Picked, skus \in BOOLEAN,
          services \in Asked, regions \in SUBSET BomRegions :
          SaveBom(w, b, ids, skus, services, regions)
    \/ \E w \in Authors : WriteBom(w)
    \/ \E b \in Boms : DeleteBom(b) \/ Analyse(b) \/ AnalyseUpload(b) \/ RestoreBom(b) \/ RebuildBom(b)
    \/ CatalogChanges \/ WipeBoms
    \/ Export \/ BeginImport \/ RestoredRows \/ EndImport

BomSpec == BomInit /\ [][BomNext]_bomVars

------------------------------------------------------------------------------
BomTypeOK ==
    /\ boms \in [Boms -> BomRow \cup {Gone}]
    /\ offered \in Catalogs
    /\ draft \in [Authors -> [bom : Boms, row : BomRow] \cup {Gone}]
    /\ runs \in [Boms -> Meta \cup {Gone}]
    /\ archive = Gone \/ archive \in [boms : [Boms -> BomRow \cup {Gone}],
                                      runs : [Boms -> Meta \cup {Gone}]]
    /\ restore \in [stage : {"idle", "rows", "rebuild", "end"}, todo : SUBSET Boms,
                    restored : BOOLEAN]
    /\ writes \in 0 .. MaxWrites
    /\ troubles \in 0 .. MaxTroubles
    /\ unwritten \subseteq Boms
    /\ touched \subseteq Boms

\* A BOM, of whatever release or rebuilt from an analysis, can be saved again as
\* the editor got it, unless a service, its tier or a region left the catalogs, and
\* is then the same: "such rows ... keep working unchanged".
SavesAsRead ==
    \A b \in Boms :
        boms[b] # Gone /\ boms[b].services \cup boms[b].regions \subseteq offered =>
            LET r == BomRecord(b, boms[b])
            IN  /\ r.ids # <<>>
                /\ Accepted(r.sub, r.ids, r.services, r.regions)
                /\ BomRecord(b, PutBody(b, r)) = r

\* What an import promises when it answers: every archived BOM is as it was
\* archived, or, when the archive has none, every archived analysis has its BOM
\* again, with the subscriptions it targeted (and the operator's, if the analysis
\* fell back to it) and, unless the catalog lost one, its services and families.
\* Left out are the BOMs whose write failed and those others wrote meanwhile.
ImportRestores ==
    [][Importing /\ restore'.stage = "idle" =>
          \A b \in Boms \ (unwritten \cup touched) :
              IF Archived("boms") # {}
              THEN b \in Archived("boms") => boms[b] = archive.boms[b]
              ELSE b \in Archived("runs") => LET targets == archive.runs[b].targets IN
                     /\ boms[b] # Gone
                     /\ boms[b].ids \in {targets, Append(targets, Operator)}
                     /\ \/ boms[b].skus /\ boms[b].services = archive.runs[b].services
                        \/ troubles > 0 /\ boms[b].services = {}]_bomVars
===============================================================================
