----------------------------- MODULE ServiceCheck -----------------------------
(***************************************************************************)
(* Where the services of a BOM are available (api/_shared/bom_services.py, *)
(* called by runs_post, and the columns of api/_shared/pipeline/model.py   *)
(* that read its answer): Azure is asked where each resource provider is,  *)
(* several at a time, each call being retried, and then, page by page, in  *)
(* which zones Premium SSD v2 is; what it says becomes a mark per region   *)
(* and service.  Azure may change between two calls.                       *)
(***************************************************************************)
EXTENDS Naturals, FiniteSets

CONSTANTS
    Regions,
    Providers,     \* resource provider namespaces
    Types,         \* resource types
    ProviderOf,    \* of a resource type
    Footprints,    \* where a type may be: regions and "global", or Unlisted
    Disk,          \* Premium SSD v2, the service with a zone check
    ZoneSets,      \* the zones a region may have for it
    Attempts,      \* of _arm_get_with_retry()
    MaxShifts      \* bound: changes at Azure during a check

ASSUME CheckAssumption ==
    /\ ProviderOf \in [Types -> Providers]
    /\ Footprints \subseteq (SUBSET (Regions \cup {"global"})) \cup {{"unlisted"}}
    /\ {"*", "absent", "global", "unlisted"} \cap Regions = {}
    /\ Disk \notin Types \cup Providers
    /\ Attempts \in Nat \ {0}
    /\ MaxShifts \in Nat

VARIABLES
    known,         \* namespaces the tenant knows
    sites,         \* where Azure offers a type
    zonesAt,       \* in which zones it offers the disk
    wanted,        \* the services of the BOM: types, whole providers, the disk
    stage,         \* of the check
    tries,         \* failed attempts of a provider call
    got,           \* the locations read for a service
    pages,         \* regions whose page of the SKU list has not been read
    zoned,         \* zones read so far
    denied,        \* the SKU list was refused
    shifts,
    could,         \* history: the answers Azure could have given since the check began
    zonesCould     \* history: likewise, the zones of a region

azureVars == <<known, sites, zonesAt>>
checkVars == <<azureVars, wanted, stage, tries, got, pages, zoned, denied, shifts, could, zonesCould>>

Unlisted == {"unlisted"}     \* a type its provider does not list
Offerings == Types \cup Providers
Locations == (SUBSET Regions) \cup {{"*"}, {"absent"}}

\* What GET /providers/{namespace} says of a type: its regions, "*" for a global
\* one, nothing for one that is not listed, "absent" for an unknown namespace; of
\* a whole provider: the regions of all of its types, "*" if none names a region.
TypeLocations(t) ==
    CASE ProviderOf[t] \notin known -> {"absent"}
      [] ProviderOf[t] \in known /\ sites[t] = Unlisted -> {}
      [] OTHER -> IF "global" \in sites[t] THEN {"*"} ELSE sites[t]
ProviderLocations(p) ==
    LET listed == {t \in Types : ProviderOf[t] = p /\ sites[t] # Unlisted}
        regional == UNION {sites[t] \ {"global"} : t \in listed}
    IN  CASE p \notin known -> {"absent"}
          [] p \in known /\ regional # {} -> regional
          [] OTHER -> IF listed = {} THEN {} ELSE {"*"}
ShownNow == [s \in Offerings |-> IF s \in Types THEN TypeLocations(s) ELSE ProviderLocations(s)]

------------------------------------------------------------------------------
CheckInit ==
    /\ known \in SUBSET Providers
    /\ sites \in [Types -> Footprints]
    /\ zonesAt \in [Regions -> ZoneSets]
    /\ wanted \in SUBSET (Offerings \cup {Disk})
    /\ stage = "shows"
    /\ tries = [s \in Offerings |-> 0]
    /\ got = [s \in {} |-> {}]
    /\ pages = Regions
    /\ zoned = [r \in Regions |-> {}]
    /\ denied = FALSE
    /\ shifts = 0
    /\ could = [s \in Offerings |-> {ShownNow[s]}]
    /\ zonesCould = [r \in Regions |-> {zonesAt[r]}]

Todo == (wanted \cap Offerings) \ DOMAIN got

\* One of the parallel calls is answered.
ProviderShown(s) ==
    /\ stage = "shows"
    /\ s \in Todo
    /\ got' = [x \in DOMAIN got \cup {s} |-> IF x = s THEN ShownNow[s] ELSE got[x]]
    /\ UNCHANGED <<azureVars, wanted, stage, tries, pages, zoned, denied, shifts, could, zonesCould>>

\* Fault: a call that keeps failing counts as an empty answer.
TransientAsEmpty(s) ==
    /\ stage = "shows"
    /\ s \in Todo
    /\ tries' = [tries EXCEPT ![s] = @ + 1]
    /\ got' = IF tries'[s] < Attempts THEN got
              ELSE [x \in DOMAIN got \cup {s} |-> IF x = s THEN {} ELSE got[x]]
    /\ UNCHANGED <<azureVars, wanted, stage, pages, zoned, denied, shifts, could, zonesCould>>

\* A connection breaks, or Azure answers 429 or 5xx: again, up to a limit.
Transient(s) ==
    /\ stage = "shows"
    /\ s \in Todo
    /\ tries' = [tries EXCEPT ![s] = @ + 1]
    /\ stage' = IF tries'[s] < Attempts THEN stage ELSE "failed"
    /\ UNCHANGED <<azureVars, wanted, got, pages, zoned, denied, shifts, could, zonesCould>>

\* 401, 403, any other error or an unreadable answer fails the whole check; so
\* does any failure of the SKU list but a refusal.
CheckFails ==
    /\ \/ stage = "shows" /\ Todo # {}
       \/ stage = "zones"
    /\ stage' = "failed"
    /\ UNCHANGED <<azureVars, wanted, tries, got, pages, zoned, denied, shifts, could, zonesCould>>

AllShown ==
    /\ stage = "shows"
    /\ Todo = {}
    /\ stage' = IF Disk \in wanted THEN "zones" ELSE "done"
    /\ UNCHANGED <<azureVars, wanted, tries, got, pages, zoned, denied, shifts, could, zonesCould>>

\* A page of the SKU list; the last one has no next link.
ReadZones(r) ==
    /\ stage = "zones"
    /\ r \in pages
    /\ zoned' = [zoned EXCEPT ![r] = @ \cup zonesAt[r]]
    /\ pages' = pages \ {r}
    /\ stage' = IF pages' = {} THEN "done" ELSE stage
    /\ UNCHANGED <<azureVars, wanted, tries, got, denied, shifts, could, zonesCould>>

\* 401 or 403: what was read is dropped, and every region counts as without zones.
ZonesDenied ==
    /\ stage = "zones"
    /\ zoned' = [r \in Regions |-> {}]
    /\ denied' = TRUE
    /\ stage' = "done"
    /\ UNCHANGED <<azureVars, wanted, tries, got, pages, shifts, could, zonesCould>>

\* Azure changes while it is asked.
Shifts ==
    /\ stage \in {"shows", "zones"}
    /\ shifts < MaxShifts
    /\ shifts' = shifts + 1
    /\ \/ /\ \E t \in Types, f \in Footprints : sites' = [sites EXCEPT ![t] = f]
          /\ UNCHANGED <<known, zonesAt>>
       \/ /\ \E p \in Providers : known' = (known \ {p}) \cup ({p} \ known)
          /\ UNCHANGED <<sites, zonesAt>>
       \/ /\ \E r \in Regions, z \in ZoneSets : zonesAt' = [zonesAt EXCEPT ![r] = z]
          /\ UNCHANGED <<known, sites>>
    /\ could' = [s \in Offerings |-> could[s] \cup {ShownNow[s]'}]
    /\ zonesCould' = [r \in Regions |-> zonesCould[r] \cup {zonesAt'[r]}]
    /\ UNCHANGED <<wanted, stage, tries, got, pages, zoned, denied>>

CheckNext ==
    \/ \E s \in Offerings : ProviderShown(s) \/ Transient(s)
    \/ \E r \in Regions : ReadZones(r)
    \/ CheckFails \/ AllShown \/ ZonesDenied \/ Shifts

CheckSpec == CheckInit /\ [][CheckNext]_checkVars

------------------------------------------------------------------------------
\* check_services_availability(): the mark of a service in a region; a namespace
\* that is absent is to be registered, and does not fail the region.
Mark(s, r) ==
    CASE s = Disk -> IF Cardinality(zoned[r]) >= 3 THEN "available" ELSE "missing"
      [] s # Disk /\ got[s] = {"absent"} -> "registration_required"
      [] OTHER -> IF got[s] = {"*"} \/ r \in got[s] THEN "available" ELSE "missing"

Overall(r) == IF \A s \in wanted : Mark(s, r) # "missing" THEN "PASS" ELSE "FAIL"

\* extract_missing_services(), extract_registration_required() and build_model()
\* on the synthesized record: both the marks and the overall column must agree.
MissingServices(r) == {s \in wanted : Mark(s, r) = "missing"}
RegistrationRequired(r) == {s \in wanted : Mark(s, r) = "registration_required"}
HasBomIssue(r) == Overall(r) = "FAIL" \/ MissingServices(r) # {}

------------------------------------------------------------------------------
CheckTypeOK ==
    /\ known \subseteq Providers
    /\ sites \in [Types -> Footprints]
    /\ zonesAt \in [Regions -> ZoneSets]
    /\ wanted \subseteq Offerings \cup {Disk}
    /\ stage \in {"shows", "zones", "done", "failed"}
    /\ tries \in [Offerings -> 0 .. Attempts]
    /\ DOMAIN got \subseteq wanted \cap Offerings
    /\ \A s \in DOMAIN got : got[s] \in Locations
    /\ pages \subseteq Regions
    /\ zoned \in [Regions -> {{}} \cup ZoneSets]
    /\ denied \in BOOLEAN
    /\ shifts \in 0 .. MaxShifts

\* Every mark an analysis shows, Azure backed at some moment of the check: an
\* available service was offered in the region (the disk in three zones), one
\* whose registration is asked for had an unknown namespace, and a missing one was
\* not offered there; a call that broke, was throttled or answered late never
\* makes a service look missing (the exception, a refused SKU list, is only for
\* the disk).  A region without a BOM issue misses nothing.
MarksBacked ==
    stage = "done" =>
        \A r \in Regions :
            /\ \A s \in wanted \cap Offerings :
                   \E locations \in could[s] :
                      CASE Mark(s, r) = "available" -> locations = {"*"} \/ r \in locations
                        [] Mark(s, r) = "missing" -> locations \cap {"*", "absent", r} = {}
                        [] OTHER -> locations = {"absent"}
            /\ Disk \in wanted =>
                   \/ denied /\ Mark(Disk, r) = "missing"
                   \/ \E zones \in zonesCould[r] :
                         (Mark(Disk, r) = "available") <=> Cardinality(zones) >= 3
            /\ HasBomIssue(r) <=> MissingServices(r) # {}
===============================================================================
