----------------------------- MODULE DatasetStore -----------------------------
(***************************************************************************)
(* Uploaded reference data (api/_shared/dataset_store.py, the endpoint     *)
(* datasets, the loaders of bom_regions and bom_services): an override     *)
(* file per dataset, written beside its place and moved there; a sidecar   *)
(* file for all of them that says where each came from, read, changed and  *)
(* written back without a lock; and a cache of the process per dataset,    *)
(* filled on the first read and emptied after each change.                 *)
(***************************************************************************)
EXTENDS Naturals, FiniteSets

CONSTANTS
    Datasets,
    Lenient,       \* whose loader caches an empty list when the file cannot be read
    Contents,      \* files that pass the validator, whatever their encoding
    Utf8,          \* those in UTF-8 without a mark, as the loaders open them
    Origin,        \* where each comes from
    Editors,       \* threads that serve requests
    MaxEvents      \* bound: saves, resets, unlinks, restarts, failing sidecar accesses

Origins == {"upload", "url", "arm"}

ASSUME DatasetAssumption ==
    /\ Lenient \subseteq Datasets /\ "none" \notin Datasets
    /\ Utf8 \subseteq Contents
    /\ Origin \in [Contents -> Origins]
    /\ {"none", "half", "seed", "nothing"} \cap Contents = {}
    /\ MaxEvents \in Nat

VARIABLES
    dest,          \* what the override file holds, "none" when there is none
    temp,          \* what its ".tmp" file holds
    sidecar,       \* _sources.json: the origin it notes for each dataset
    held,          \* the cache of the loader, "none" when it is empty
    job,           \* what a thread is doing
    events,
    clashed,       \* history: datasets two of whose saves shared the ".tmp" file
    doubtful,      \* history: datasets whose entry of the sidecar may be missing or
                   \* out of date: two changes overlapped, or one did not end
    overtaken      \* history: datasets whose file changed while it was loaded

datasetVars == <<dest, temp, sidecar, held, job, events, clashed, doubtful, overtaken>>
marks == <<clashed, doubtful, overtaken>>

\* "half" is a file that is cut off, or mixed from two contents.
Files == Contents \cup {"none", "half"}
Lists == Utf8 \cup {"none", "seed", "nothing"}
Sidecars == [Datasets -> Origins \cup {"none"}]
AllNone == [d \in Datasets |-> "none"]
Job == [stage : {"idle", "open", "write", "replace", "exists", "remove", "load", "meta", "drop",
                 "parse", "fill"},
        op : {"save", "reset", "unlink", "read"}, ds : Datasets \cup {"none"},
        from : Contents \cup {"none"}, handle : {"temp", "dest", "gone"},
        meta : Sidecars, got : Lists, late : BOOLEAN]
NoJob == [stage |-> "idle", op |-> "read", ds |-> "none", from |-> "none",
         handle |-> "gone", meta |-> AllNone, got |-> "none", late |-> FALSE]

Doing(e, stage) == job[e].stage = stage
Go(e, stage) == job' = [job EXCEPT ![e].stage = stage]
End(e) == job' = [job EXCEPT ![e] = NoJob]
Event == events < MaxEvents /\ events' = events + 1

Changes(e, d) == job[e].stage # "idle" /\ job[e].op # "read" /\ job[e].ds = d

\* The file has changed, the sidecar or the cache has not caught up yet.
CatchingUp(e, d) ==
    /\ job[e].op \in {"save", "reset"} /\ job[e].ds = d
    /\ job[e].stage \in {"load", "meta", "drop"}

\* What the loaders find: the packaged seed, unless there is an override; nothing, if
\* they cannot read that.  (The validator reads more encodings than they do.)
Active(d) ==
    CASE dest[d] = "none" -> "seed"
      [] dest[d] \in Utf8 -> dest[d]
      [] OTHER -> "nothing"

\* The file of a dataset changes: who is loading it has found the old one.
Overtake(jobs, d) ==
    [e \in Editors |-> [jobs[e] EXCEPT
        !.late = @ \/ (jobs[e].ds = d /\ jobs[e].stage \in {"parse", "fill"})]]

------------------------------------------------------------------------------
DatasetInit ==
    /\ dest = AllNone
    /\ temp = AllNone
    /\ sidecar = AllNone
    /\ held = AllNone
    /\ job = [e \in Editors |-> NoJob]
    /\ events = 0
    /\ clashed = {}
    /\ doubtful = {}
    /\ overtaken = {}

Begin(e, op, d, from, stage) ==
    /\ Doing(e, "idle")
    /\ Event
    /\ job' = [job EXCEPT ![e] =
          [@ EXCEPT !.stage = stage, !.op = op, !.ds = d, !.from = from]]
    /\ doubtful' = IF \E f \in Editors : Changes(f, d) THEN doubtful \cup {d} ELSE doubtful
    /\ UNCHANGED <<dest, temp, sidecar, held, clashed, overtaken>>

\* An upload, a refresh from Azure or a fetch from a URL whose bytes are there and
\* pass the validator (anything else is refused before a file is touched).
Save(e, d, from) == Begin(e, "save", d, from, "open")

\* refresh_source() fetches the linked URL again, when there is one.
Refetch(e, d) ==
    sidecar[d] = "url" /\ \E from \in Contents : Origin[from] = "url" /\ Save(e, d, from)

Reset(e, d) == Begin(e, "reset", d, "none", "exists")
Unlink(e, d) == Begin(e, "unlink", d, "none", "load")

------------------------------------------------------------------------------
\* Fault: the override is written in its place.
OpenInPlace(e) ==
    /\ Doing(e, "open")
    /\ LET d == job[e].ds
       IN  /\ dest' = [dest EXCEPT ![d] = "half"]
           /\ job' = [Overtake(job, d) EXCEPT ![e].stage = "write", ![e].handle = "dest"]
    /\ UNCHANGED <<temp, sidecar, held, events, marks>>

\* open(tmp, "wb") creates the file, or cuts off the one another save writes.
OpenTemp(e) ==
    /\ Doing(e, "open")
    /\ LET d == job[e].ds
       IN  /\ temp' = [temp EXCEPT ![d] = "half"]
           /\ clashed' = IF \E f \in Editors \ {e} :
                                job[f].ds = d /\ job[f].stage \in {"write", "replace"}
                         THEN clashed \cup {d} ELSE clashed
    /\ job' = [job EXCEPT ![e].stage = "write", ![e].handle = "temp"]
    /\ UNCHANGED <<dest, sidecar, held, events, doubtful, overtaken>>

\* The bytes go to the file that was opened, wherever another save has moved it;
\* over another's bytes they give a mixture, unless they cover them.
WriteBytes(e) ==
    /\ Doing(e, "write")
    /\ LET d == job[e].ds  Over(old) == {job[e].from} \cup (IF old = "half" THEN {} ELSE {"half"})
       IN  \/ /\ job[e].handle = "temp"
              /\ \E content \in Over(temp[d]) : temp' = [temp EXCEPT ![d] = content]
              /\ Go(e, "replace")
              /\ UNCHANGED dest
           \/ /\ job[e].handle = "dest"
              /\ \E content \in Over(dest[d]) : dest' = [dest EXCEPT ![d] = content]
              /\ job' = [Overtake(job, d) EXCEPT ![e].stage = "replace"]
              /\ UNCHANGED temp
           \/ /\ job[e].handle = "gone"
              /\ Go(e, "replace")
              /\ UNCHANGED <<dest, temp>>
    /\ UNCHANGED <<sidecar, held, events, marks>>

\* os.replace(); without a ".tmp" file (another save has moved it) it raises.
Moved(d) ==
    [f \in Editors |->
        IF job[f].ds # d THEN job[f]
        ELSE [job[f] EXCEPT !.handle = CASE @ = "temp" -> "dest" [] OTHER -> "gone"]]

Replace(e) ==
    /\ Doing(e, "replace")
    /\ LET d == job[e].ds
       IN  IF temp[d] = "none"
           THEN End(e) /\ UNCHANGED <<dest, temp>>
           ELSE /\ dest' = [dest EXCEPT ![d] = temp[d]]
                /\ temp' = [temp EXCEPT ![d] = "none"]
                /\ job' = [Overtake(Moved(d), d) EXCEPT ![e].stage = "load", ![e].handle = "gone"]
    /\ UNCHANGED <<sidecar, held, events, marks>>

\* reset_override() looks for the file before it removes it; when another reset
\* has removed it meanwhile, it raises.
LookForOverride(e) ==
    /\ Doing(e, "exists")
    /\ Go(e, IF dest[job[e].ds] = "none" THEN "load" ELSE "remove")
    /\ UNCHANGED <<dest, temp, sidecar, held, events, marks>>

Detached(jobs, d) ==
    [f \in Editors |->
        IF jobs[f].ds = d /\ jobs[f].handle = "dest"
        THEN [jobs[f] EXCEPT !.handle = "gone"] ELSE jobs[f]]

Remove(e) ==
    /\ Doing(e, "remove")
    /\ LET d == job[e].ds
       IN  /\ dest' = [dest EXCEPT ![d] = "none"]
           /\ IF dest[d] = "none" THEN End(e)
              ELSE job' = [Overtake(Detached(job, d), d) EXCEPT ![e].stage = "load"]
    /\ UNCHANGED <<temp, sidecar, held, events, marks>>

------------------------------------------------------------------------------
\* _load_meta(): a sidecar that cannot be read counts as an empty one.
LoadMeta(e) ==
    /\ Doing(e, "load")
    /\ \/ /\ job' = [job EXCEPT ![e].stage = "meta", ![e].meta = sidecar]
          /\ UNCHANGED <<events, doubtful>>
       \/ /\ Event
          /\ job' = [job EXCEPT ![e].stage = "meta", ![e].meta = AllNone]
          /\ doubtful' = Datasets
    /\ UNCHANGED <<dest, temp, sidecar, held, clashed, overtaken>>

\* Fault: a reset forgets the URL only.
EditedUrlOnly(e) ==
    LET d == job[e].ds  meta == job[e].meta
    IN  CASE job[e].op = "save" -> [meta EXCEPT ![d] = Origin[job[e].from]]
          [] OTHER -> [meta EXCEPT ![d] = IF @ = "url" THEN "upload" ELSE @]

\* _set_meta(), _clear_meta(): what is written back.
Edited(e) ==
    LET d == job[e].ds  meta == job[e].meta
    IN  CASE job[e].op = "save" -> [meta EXCEPT ![d] = Origin[job[e].from]]
          [] job[e].op = "reset" -> [meta EXCEPT ![d] = "none"]
          [] OTHER -> [meta EXCEPT ![d] = IF @ = "url" THEN "upload" ELSE @]

\* _write_meta(): the whole sidecar, by way of one ".tmp" file.  What others wrote
\* since it was read is lost; of two at once one may fail, or both be unreadable.
\* A failure is logged and swallowed.
WriteMeta(e) ==
    /\ Doing(e, "meta")
    /\ LET d == job[e].ds
           others == {f \in Editors \ {e} : Doing(f, "meta")}
       IN  \/ /\ job[e].op # "save" /\ job[e].meta[d] = "none"
              /\ UNCHANGED <<sidecar, events, doubtful>>
           \/ /\ job[e].op = "save" \/ job[e].meta[d] # "none"
              /\ sidecar' = Edited(e)
              /\ doubtful' = doubtful \cup {x \in Datasets : sidecar[x] # job[e].meta[x]}
              /\ UNCHANGED events
           \/ /\ others # {}
              /\ sidecar' \in {sidecar, AllNone}
              /\ doubtful' = Datasets
              /\ UNCHANGED events
           \/ /\ Event
              /\ doubtful' = doubtful \cup {d}
              /\ UNCHANGED sidecar
    /\ IF job[e].op = "unlink" THEN End(e) ELSE Go(e, "drop")
    /\ UNCHANGED <<dest, temp, held, clashed, overtaken>>

\* _invalidate_caches()
Drop(e) ==
    /\ Doing(e, "drop")
    /\ held' = [held EXCEPT ![job[e].ds] = "none"]
    /\ overtaken' = overtaken \ {job[e].ds}
    /\ End(e)
    /\ UNCHANGED <<dest, temp, sidecar, events, clashed, doubtful>>

------------------------------------------------------------------------------
\* A loader that finds its cache empty resolves the path (at once: nothing it does
\* in between depends on the cache), opens and parses the file, fills the cache.
Read(e, d) ==
    /\ Doing(e, "idle")
    /\ held[d] = "none"
    /\ job' = [job EXCEPT ![e] = [@ EXCEPT !.stage = "parse", !.ds = d,
                                  !.got = IF dest[d] = "none" THEN "seed" ELSE "none"]]
    /\ UNCHANGED <<dest, temp, sidecar, held, events, marks>>

Parse(e) ==
    /\ Doing(e, "parse")
    /\ LET d == job[e].ds
           readable == job[e].got = "seed" \/ dest[d] \in Utf8
       IN  \/ /\ readable
              /\ job' = [job EXCEPT ![e].stage = "fill",
                                    ![e].got = IF @ = "seed" THEN @ ELSE dest[d]]
           \/ /\ ~readable /\ d \in Lenient
              /\ job' = [job EXCEPT ![e].stage = "fill", ![e].got = "nothing"]
           \/ ~readable /\ d \notin Lenient /\ End(e)
    /\ UNCHANGED <<dest, temp, sidecar, held, events, marks>>

Fill(e) ==
    /\ Doing(e, "fill")
    /\ LET d == job[e].ds
       IN  /\ held' = [held EXCEPT ![d] = job[e].got]
           /\ overtaken' = IF job[e].late THEN overtaken \cup {d} ELSE overtaken \ {d}
    /\ End(e)
    /\ UNCHANGED <<dest, temp, sidecar, events, clashed, doubtful>>

\* The process restarts; the files stay as they are.
Reboot ==
    /\ Event
    /\ held' = AllNone
    /\ job' = [e \in Editors |-> NoJob]
    /\ doubtful' = doubtful \cup {d \in Datasets : \E e \in Editors :
                                    CatchingUp(e, d) /\ ~Doing(e, "drop")}
    /\ overtaken' = {}
    /\ UNCHANGED <<dest, temp, sidecar, clashed>>

DatasetNext ==
    \/ \E e \in Editors, d \in Datasets :
          \/ \E from \in Contents : Save(e, d, from)
          \/ Refetch(e, d) \/ Reset(e, d) \/ Unlink(e, d) \/ Read(e, d)
    \/ \E e \in Editors :
          \/ OpenTemp(e) \/ WriteBytes(e) \/ Replace(e)
          \/ LookForOverride(e) \/ Remove(e)
          \/ LoadMeta(e) \/ WriteMeta(e) \/ Drop(e)
          \/ Parse(e) \/ Fill(e)
    \/ Reboot

DatasetSpec == DatasetInit /\ [][DatasetNext]_datasetVars

------------------------------------------------------------------------------
DatasetTypeOK ==
    /\ dest \in [Datasets -> Files]
    /\ temp \in [Datasets -> Files]
    /\ sidecar \in Sidecars
    /\ held \in [Datasets -> Lists]
    /\ job \in [Editors -> Job]
    /\ events \in Nat
    /\ clashed \in SUBSET Datasets
    /\ doubtful \in SUBSET Datasets
    /\ overtaken \in SUBSET Datasets

\* "Atomic swap so a reader never sees a half file": the active override is one of
\* the uploaded contents at every moment, restarts included, unless two saves of
\* the dataset were under way at once.
OverrideWhole == \A d \in Datasets \ clashed : dest[d] # "half"

\* The sidecar tells where the active override came from (an unlinked one counts
\* as an upload), and names no dataset without one, except while a change is
\* under way or after one that overlapped another or did not end.
OriginOf(file) == IF file \in Contents THEN Origin[file] ELSE file

ProvenanceTrue ==
    \A d \in Datasets \ doubtful :
        (\A e \in Editors : ~Changes(e, d)) =>
            \/ sidecar[d] = OriginOf(dest[d])
            \/ sidecar[d] = "upload" /\ OriginOf(dest[d]) = "url"

\* A loader's cache is the active file, once every change has emptied it, unless
\* the file changed while it was loaded.  Of a file in another encoding than the
\* loaders' it is an empty list, where a loader caches one, until the next change.
LoadedIsActive ==
    \A d \in Datasets \ (overtaken \cup clashed) :
        (held[d] # "none" /\ \A e \in Editors : ~CatchingUp(e, d)) =>
            /\ held[d] = Active(d)
            /\ d \notin Lenient => held[d] # "nothing"

\* Both: a loader opens whole files only, and what it has loaded is the active one, as
\* far as it can read it.
LoadersSeeWholeFiles == OverrideWhole /\ LoadedIsActive
===============================================================================
