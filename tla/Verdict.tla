-------------------------------- MODULE Verdict --------------------------------
(***************************************************************************)
(* What a compile concludes about one region for one bill of materials     *)
(* (api/_shared/compile.py): the tiers of vCPU quota, the plan of quota    *)
(* increases, the deployment verdict with its blockers, and the advice.    *)
(* The state is what ARM answers when asked; every action is a change of   *)
(* those answers between two analyses.  The conclusions are operators on   *)
(* the state, so that P' is what the next analysis concludes.  Regions do  *)
(* not influence each other.  The quota of the helper subscriptions is     *)
(* reported as possible donors and decides nothing: it is left out.  A     *)
(* rejected token of the target aborts the compile (see RunLifecycle).     *)
(***************************************************************************)
EXTENDS Integers

CONSTANTS Subs,        \* the subscriptions of the run
          Target,      \* the one deployed to
          Families,    \* VM families
          NoFamily,    \* a requirement without a fallback
          None,        \* a number ARM did not report
          NoRow,       \* a family without a quota row
          Openings,    \* the zones the first analysis may meet
          Rows,        \* the quota rows it may meet
          SharedRows,  \* the rows of the quota group it may meet
          Amounts,     \* the numbers later changes choose from
          Boms,        \* the sets of required families a BOM may have
          MaxChanges   \* bound on the changes

Zones == 1..3

Requirement == [primary: Families, alt: Families \cup {NoFamily}, cores: Nat]

QuotaRow == [limit: Nat \cup {None}, usage: Nat \cup {None}]

\* Required families have distinct primaries (_validate_required_families);
\* cores = 0 stands for no core requirement.
ASSUME VerdictAssumption ==
    /\ Target \in Subs
    /\ NoFamily \notin Families
    /\ None \notin Int
    /\ NoRow \notin QuotaRow
    /\ Openings \subseteq [Subs -> [Families -> SUBSET Zones]]
    /\ Rows \cup SharedRows \subseteq QuotaRow \cup {NoRow}
    /\ Amounts \subseteq Nat
    /\ \A reqs \in Boms : /\ reqs # {}
                          /\ reqs \subseteq Requirement
                          /\ \A r, q \in reqs : r.primary = q.primary => r = q
    /\ MaxChanges \in Nat

VARIABLES reqs,         \* meta.skus_resolved
          access,       \* per_sub_status
          zones,        \* zones open to each subscription and family
          quotaStatus,  \* status of the target's compute usages in the region
          row,          \* the target's quota row of each family
          groupStatus,  \* status of the target's quota groups
          groupRow,     \* the row of its quota group for each family
          missing,      \* does the region lack a required service?
          unregistered, \* does a required service lack its provider?
          changes       \* changes so far

vars == <<reqs, access, zones, quotaStatus, row, groupStatus, groupRow,
          missing, unregistered, changes>>

TypeOK ==
    /\ reqs \in Boms
    /\ access \in [Subs -> {"ok", "no_access", "error"}]
    /\ zones \in [Subs -> [Families -> SUBSET Zones]]
    /\ quotaStatus \in {"ok", "no_access", "not_found", "error"}
    /\ row \in [Families -> QuotaRow \cup {NoRow}]
    /\ groupStatus \in {"ok", "no_quota_group", "not_available", "no_access", "error"}
    /\ groupRow \in [Families -> QuotaRow \cup {NoRow}]
    /\ missing \in BOOLEAN
    /\ unregistered \in BOOLEAN
    /\ changes \in 0..MaxChanges

(***************************************************************************)
(* Quota: the best row of a requirement's families, in the subscription    *)
(* (tier 1) and then, for what is short, in its quota group (tier 2).      *)
(***************************************************************************)
Headroom(x) ==
    IF x = NoRow \/ x.limit = None \/ x.usage = None THEN None ELSE x.limit - x.usage

MoreRoom(h, k) == h # None /\ (k = None \/ h > k)

FamilyIds(r) == {r.primary, r.alt} \ {NoFamily}

Candidates(rows, r) == {f \in FamilyIds(r) : rows[f] # NoRow}

\* More headroom first, an unknown one last, the primary family among equals.
\* (A sufficient row never has less headroom than an insufficient one.)
Ahead(rows, r, f, g) ==
    \/ MoreRoom(Headroom(rows[f]), Headroom(rows[g]))
    \/ Headroom(rows[f]) = Headroom(rows[g]) /\ f = r.primary /\ g # r.primary

Best(rows, r) ==
    CHOOSE f \in Candidates(rows, r) :
        \A g \in Candidates(rows, r) : ~Ahead(rows, r, g, f)

BestRow(rows, r) ==
    IF Candidates(rows, r) = {} THEN NoRow ELSE rows[Best(rows, r)]

Covers(x, cores) == Headroom(x) # None /\ Headroom(x) >= cores

\* Fault: the rows of a region whose usages could not be read are used.
SubRowsUnread == IF access[Target] = "ok"
                 THEN row ELSE [f \in Families |-> NoRow]

\* What the compile holds of the target: nothing when ARM refused it.
SubRows == IF access[Target] = "ok" /\ quotaStatus = "ok"
           THEN row ELSE [f \in Families |-> NoRow]

GroupRows == IF access[Target] = "ok" /\ groupStatus = "ok"
             THEN groupRow ELSE [f \in Families |-> NoRow]

Tier1(r) == BestRow(SubRows, r)

\* Fault: the group is not asked while the subscription itself has room.
Tier2Overdrawn(r) ==
    IF Headroom(BestRow(SubRows, r)) # None /\ Headroom(BestRow(SubRows, r)) > 0
    THEN NoRow ELSE BestRow(GroupRows, r)

Tier2(r) == BestRow(GroupRows, r)

Shortfall(r) ==
    LET room == Headroom(Tier1(r))
    IN  IF room = None THEN r.cores
        ELSE IF r.cores > room THEN r.cores - room ELSE 0

RequirementStatus(r) ==
    LET groupKnown == Headroom(Tier2(r)) # None
        unread     == access[Target] = "ok" /\ quotaStatus # "ok"
        noGroup    == access[Target] = "ok"
                      /\ groupStatus \in {"no_quota_group", "not_available"}
    IN  IF Covers(Tier1(r), r.cores) THEN "sufficient_sub"
        ELSE IF Covers(Tier2(r), Shortfall(r)) THEN "sufficient_group"
        ELSE IF unread /\ ~groupKnown THEN "unknown"
        ELSE IF Headroom(Tier1(r)) # None \/ groupKnown \/ noGroup THEN "insufficient"
        ELSE "unknown"

Sized == {r \in reqs : r.cores > 0}

Satisfied(r) == RequirementStatus(r) \in {"sufficient_sub", "sufficient_group"}

Short(r) == RequirementStatus(r) = "insufficient"

\* Fault: a region with a short requirement is never "partial".
RegionQuotaNeverPartial ==
    IF Sized # {} /\ \A r \in Sized : Satisfied(r) THEN "sufficient"
    ELSE IF \E r \in Sized : Short(r) THEN "insufficient" ELSE "unknown"

\* The region's quota_status, from the tiers of the target.
RegionQuota ==
    IF Sized # {} /\ \A r \in Sized : Satisfied(r) THEN "sufficient"
    ELSE IF \E r \in Sized : Short(r)
    THEN IF \E r \in Sized : Satisfied(r) THEN "partial" ELSE "insufficient"
    ELSE "unknown"

\* The entry of the target in the region's quota_subscriptions.
TargetSummary ==
    LET has(st) == \E r \in Sized : RequirementStatus(r) = st
        any     == has("sufficient_sub") \/ has("sufficient_group")
    IN  IF access[Target] # "ok" THEN access[Target]
        ELSE IF has("insufficient") /\ any THEN "partial"
        ELSE IF has("insufficient") THEN "insufficient"
        ELSE IF has("unknown") THEN "unknown"
        ELSE IF has("sufficient_group") THEN "sufficient_group"
        ELSE IF any THEN "sufficient_sub"
        ELSE "unknown"

(***************************************************************************)
(* The plan of quota increases of a region whose quota is insufficient.    *)
(***************************************************************************)
\* Fault: it rounds down.
RoundDownToNearest10(n) == IF n <= 0 THEN 0 ELSE (n \div 10) * 10

RoundUpToNearest10(n) == IF n <= 0 THEN 0 ELSE ((n + 9) \div 10) * 10

Planned == {r \in Sized : /\ RegionQuota = "insufficient"
                          /\ Short(r)
                          /\ Headroom(Tier1(r)) # None}

\* The headroom of a planned family is known, so its usage is.
RecommendedLimit(r) == RoundUpToNearest10(Tier1(r).usage + r.cores)

(***************************************************************************)
(* The verdict.  Every subscription that answers has a row for every       *)
(* required family, with no zone where the family is not offered, and each *)
(* such row has a note.                                                    *)
(***************************************************************************)
Accessible == {s \in Subs : access[s] = "ok"}

Found(f) == f # NoFamily /\ Accessible # {}

\* Fault: only zones that every subscription reports count.
ZonesOfAll(f) == {z \in Zones : \A s \in Accessible : z \in zones[s][f]}

ZonesOf(f) == UNION {zones[s][f] : s \in Accessible}

AllZones(f) == Found(f) /\ ZonesOf(f) = Zones

Constrained == {r \in reqs : ~AllZones(r.primary)}

UsesFallback(r) == r \in Constrained /\ AllZones(r.alt)

Blocker(type, severity) == [type |-> type, severity |-> severity]

SkuBlocker(r) ==
    IF UsesFallback(r)
    THEN Blocker(IF Found(r.primary) THEN "zone_gap" ELSE "sku_unavailable", "warning")
    ELSE IF Accessible = {} THEN Blocker("no_access", "critical")
    ELSE IF ~Found(r.primary) /\ ~Found(r.alt) THEN Blocker("sku_unavailable", "critical")
    ELSE Blocker("zone_gap", "critical")

QuotaBlockers ==
    IF Sized = {} THEN {}
    ELSE IF RegionQuota = "unknown" THEN {Blocker("no_access", "critical")}
    ELSE {Blocker("quota_insufficient", "warning") : r \in {q \in Sized : Short(q)}}

Blockers ==
    {b \in {Blocker("missing_service", "critical")} : missing}
      \* the target was refused, whether or not a helper answered instead
      \cup {b \in {Blocker("no_access", "critical")} : access[Target] # "ok"}
      \cup {SkuBlocker(r) : r \in Constrained}
      \cup QuotaBlockers

\* More than 80% of the limit used, or less than 25% (or 10 cores) to spare.
TightRow(x, cores) ==
    \/ /\ x.limit # None /\ x.usage # None /\ x.limit # 0
       /\ 100 * x.usage >= 80 * x.limit
    \/ /\ Headroom(x) # None
       /\ 4 * Headroom(x) <= 5 * cores \/ Headroom(x) <= 10

QuotaTight(r) ==
    \/ RequirementStatus(r) = "sufficient_sub" /\ TightRow(Tier1(r), r.cores)
    \/ RequirementStatus(r) = "sufficient_group" /\ TightRow(Tier2(r), r.cores)

HasConstraints ==
    \/ unregistered
    \/ \E r \in reqs : UsesFallback(r)
    \/ RegionQuota # "unknown" /\ \E r \in Sized : QuotaTight(r)

DeploymentVerdict ==
    IF \E b \in Blockers : b.severity = "critical" /\ b.type # "no_access"
    THEN "not_recommended"
    ELSE IF \E b \in Blockers : b.type = "no_access" THEN "needs_validation"
    ELSE IF HasConstraints \/ \E b \in Blockers : b.severity = "warning"
    THEN "ready_with_constraints"
    ELSE "ready"

Deployable == DeploymentVerdict \in {"ready", "ready_with_constraints"}

(***************************************************************************)
(* The advice: which kinds of recommendation the region gets.              *)
(***************************************************************************)
Blocked(type) == \E b \in Blockers : b.type = type

\* Fault: only a family without any zone counts as restricted.
IsRestrictedByZones == \E r \in reqs : Found(r.primary) /\ ZonesOf(r.primary) = {}

IsRestricted == Accessible # {}   \* some family row had a note

Recommendations ==
    LET scarce   == Blocked("zone_gap") \/ Blocked("sku_unavailable")
        fallback == \E r \in reqs : UsesFallback(r)
        advised(type) ==
            CASE type = "odcr"           -> /\ scarce \/ IsRestricted
                                            /\ ~(Blocked("no_access") /\ ~IsRestricted)
              [] type = "zonal_access"   -> Blocked("zone_gap") /\ IsRestricted
              [] type = "quota_increase" -> Blocked("quota_insufficient")
              [] type = "fallback_sku"   -> fallback
              [] type = "alt_region"     -> \/ Blocked("missing_service")
                                            \/ Blocked("sku_unavailable") /\ ~fallback
              [] type = "grant_access"   -> Blocked("no_access")
    IN  {type \in {"odcr", "zonal_access", "quota_increase", "fallback_sku",
                   "alt_region", "grant_access"} : advised(type)}

(***************************************************************************)
(* What may change in Azure between two analyses.                          *)
(***************************************************************************)
Init ==
    /\ reqs \in Boms
    /\ access \in [Subs -> {"ok", "no_access"}]
    /\ zones \in Openings
    /\ quotaStatus = "ok"
    /\ row \in [Families -> Rows]
    /\ groupStatus = "ok"
    /\ groupRow \in [Families -> SharedRows]
    /\ missing = FALSE
    /\ unregistered = FALSE
    /\ changes = 0

Changes == changes < MaxChanges /\ changes' = changes + 1

AccessLost(s, status) ==
    /\ Changes
    /\ access[s] = "ok"
    /\ access' = [access EXCEPT ![s] = status]
    /\ UNCHANGED <<reqs, zones, quotaStatus, row, groupStatus, groupRow, missing, unregistered>>

AccessRegained(s) ==
    /\ Changes
    /\ access[s] # "ok"
    /\ access' = [access EXCEPT ![s] = "ok"]
    /\ UNCHANGED <<reqs, zones, quotaStatus, row, groupStatus, groupRow, missing, unregistered>>

\* Fault: zones are numbered from zero, and shifted.
ZoneGrantedShifted(s, f, z) ==
    /\ Changes
    /\ z \notin zones[s][f]
    /\ zones' = [zones EXCEPT ![s][f] = @ \cup {z - 1}]
    /\ UNCHANGED <<reqs, access, quotaStatus, row, groupStatus, groupRow, missing, unregistered>>

ZoneGranted(s, f, z) ==
    /\ Changes
    /\ z \notin zones[s][f]
    /\ zones' = [zones EXCEPT ![s][f] = @ \cup {z}]
    /\ UNCHANGED <<reqs, access, quotaStatus, row, groupStatus, groupRow, missing, unregistered>>

ZoneWithdrawn(s, f, z) ==
    /\ Changes
    /\ z \in zones[s][f]
    /\ zones' = [zones EXCEPT ![s][f] = @ \ {z}]
    /\ UNCHANGED <<reqs, access, quotaStatus, row, groupStatus, groupRow, missing, unregistered>>

LimitRaised(f, n) ==
    /\ Changes
    /\ row[f] # NoRow
    /\ row[f].limit # None /\ row[f].limit < n
    /\ row' = [row EXCEPT ![f].limit = n]
    /\ UNCHANGED <<reqs, access, zones, quotaStatus, groupStatus, groupRow, missing, unregistered>>

\* The recommended limit of a planned family, granted as asked for.
RecommendedLimitGranted(r) ==
    /\ Changes
    /\ r \in Planned
    /\ row' = [row EXCEPT ![Best(SubRows, r)].limit = RecommendedLimit(r)]
    /\ UNCHANGED <<reqs, access, zones, quotaStatus, groupStatus, groupRow, missing, unregistered>>

CoresUsed(f, n) ==
    /\ Changes
    /\ row[f] # NoRow
    /\ row' = [row EXCEPT ![f].usage = n]
    /\ UNCHANGED <<reqs, access, zones, quotaStatus, groupStatus, groupRow, missing, unregistered>>

GroupRaised(f, n) ==
    /\ Changes
    /\ groupRow[f] # NoRow
    /\ groupRow[f].limit # None /\ groupRow[f].limit < n
    /\ groupRow' = [groupRow EXCEPT ![f].limit = n]
    /\ UNCHANGED <<reqs, access, zones, quotaStatus, row, groupStatus, missing, unregistered>>

QuotaAnswers(status) ==
    /\ Changes
    /\ quotaStatus' = status
    /\ UNCHANGED <<reqs, access, zones, row, groupStatus, groupRow, missing, unregistered>>

GroupAnswers(status) ==
    /\ Changes
    /\ groupStatus' = status
    /\ UNCHANGED <<reqs, access, zones, quotaStatus, row, groupRow, missing, unregistered>>

ServiceChanges ==
    /\ Changes
    /\ missing' = ~missing
    /\ UNCHANGED <<reqs, access, zones, quotaStatus, row, groupStatus, groupRow, unregistered>>

RegistrationChanges ==
    /\ Changes
    /\ unregistered' = ~unregistered
    /\ UNCHANGED <<reqs, access, zones, quotaStatus, row, groupStatus, groupRow, missing>>

Next ==
    \/ \E s \in Subs, status \in {"no_access", "error"} : AccessLost(s, status)
    \/ \E s \in Subs : AccessRegained(s)
    \/ \E s \in Subs, f \in Families, z \in Zones : ZoneGranted(s, f, z) \/ ZoneWithdrawn(s, f, z)
    \/ \E f \in Families, n \in Amounts : LimitRaised(f, n) \/ CoresUsed(f, n) \/ GroupRaised(f, n)
    \/ \E r \in reqs : RecommendedLimitGranted(r)
    \/ \E status \in {"ok", "no_access", "not_found", "error"} : QuotaAnswers(status)
    \/ \E status \in {"ok", "no_quota_group", "not_available", "no_access", "error"} : GroupAnswers(status)
    \/ ServiceChanges
    \/ RegistrationChanges

Spec == Init /\ [][Next]_vars

(***************************************************************************)
(* Properties.                                                             *)
(***************************************************************************)
\* The status a subscription's own entry shows and the status of the region
\* are worked out by two functions that do not call each other: for the
\* target they never disagree (_summarize_subscription_quota_for_region,
\* _evaluate_quota_tiers).
SummaryAgrees ==
    access[Target] = "ok" =>
        \/ RegionQuota = TargetSummary
        \/ RegionQuota = "sufficient"
             /\ TargetSummary \in {"sufficient_sub", "sufficient_group"}

\* A region is called ready only if every required family, or each one's
\* fallback, is open in all three zones to subscriptions that answered, every
\* core requirement is met by one row of the target, or by one row of its
\* group for what the target's rows leave short, and nothing is missing.
ReadyIsBacked ==
    DeploymentVerdict = "ready" =>
        /\ access[Target] = "ok" /\ ~missing /\ ~unregistered
        /\ \A r \in reqs, z \in Zones :
              \E s \in Subs : access[s] = "ok" /\ z \in zones[s][r.primary]
        /\ \A r \in reqs : r.cores > 0 =>
              \/ /\ quotaStatus = "ok"
                 /\ \E f \in FamilyIds(r) : Covers(row[f], r.cores)
              \/ /\ groupStatus = "ok"
                 /\ \E f \in FamilyIds(r) : Covers(groupRow[f], Shortfall(r))

\* Whatever keeps a region from being deployable has an advice of its own
\* kind: an access to grant, another region, capacity to reserve.  A short
\* quota has one in every region (_build_recommendations).
EveryBlockerHasAdvice ==
    /\ ~Deployable => Recommendations \cap {"grant_access", "alt_region", "zonal_access"} # {}
    /\ (\E r \in Sized : Short(r)) => "quota_increase" \in Recommendations

\* The limit a plan asks for is enough: once it is granted, the family it was
\* asked for is covered by the subscription itself, whichever of the two
\* families was chosen and however negative its headroom was.
RemediationSuffices ==
    [][\A r \in reqs : RecommendedLimitGranted(r) =>
          RequirementStatus(r)' = "sufficient_sub"]_vars

\* A higher limit, of the subscription or of its group, never makes a covered
\* requirement short, although it may change the row the tiers are read from.
MoreQuotaNeverHurts ==
    [][\A f \in Families, n \in Amounts :
          LimitRaised(f, n) \/ GroupRaised(f, n) =>
              \A r \in Sized : Satisfied(r) => Satisfied(r)']_vars

\* A zone granted, an access regained or a limit raised never turns a
\* deployable region into one that is not.  The limits need every status known:
\* a requirement of unknown quota counts only while no other one is short, so
\* that ending a shortage can uncover it (_compute_deployment_verdict).
ImprovementNeverHurts ==
    [][\/ \E s \in Subs, f \in Families, z \in Zones : ZoneGranted(s, f, z)
       \/ \E s \in Subs : AccessRegained(s)
       \/ /\ \A r \in Sized : RequirementStatus(r) # "unknown"
          /\ \E f \in Families, n \in Amounts : LimitRaised(f, n) \/ GroupRaised(f, n)
       => (Deployable => Deployable')]_vars

\* README.md says a region is ready when everything the BOM needs is available.
\* Then each required family, or its fallback, has its zones and its cores.
ReadyIsDeployable ==
    DeploymentVerdict = "ready" =>
        \A r \in reqs : \E f \in FamilyIds(r) :
            /\ AllZones(f)
            /\ r.cores > 0 => \/ Covers(SubRows[f], r.cores)
                              \/ Covers(GroupRows[f], Shortfall(r))
================================================================================
