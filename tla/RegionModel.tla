------------------------------ MODULE RegionModel ------------------------------
(***************************************************************************)
(* The table of regions of an analysis (api/_shared/pipeline/model.py):    *)
(* from the BOM's row of each region and its SKU rows, whether it can be   *)
(* deployed to, what stands in the way, and which regions to take instead. *)
(* A pure computation; between two analyses the rows of a region change.   *)
(***************************************************************************)
EXTENDS Integers, FiniteSets, Sequences, Functions

CONSTANTS
    Places,        \* regions, numbered in the order of their display names
    Requirements,  \* SKU families the BOM requires, each with a fallback family
    SkuRows,       \* rows of a family in a region: sets of zones, or NotOffered
    NotOffered,
    Latency,       \* published latency between two regions, or Unknown
    Curated,       \* GEO_FALLBACK: hand-listed alternatives of a region
    Distance,      \* between two regions with coordinates, or Unknown
    Continent,
    Unknown,
    TopN,          \* alternatives shown for a region
    MaxMissing     \* bound: missing services

ASSUME RegionAssumption ==
    /\ Places \subseteq Nat /\ IsFiniteSet(Places)
    /\ IsFiniteSet(Requirements)
    /\ Latency \in [Places -> [Places -> Nat \cup {Unknown}]]
    /\ Distance \in [Places -> [Places -> Nat \cup {Unknown}]]
    /\ Curated \in [Places -> Seq(Places)]
    /\ DOMAIN Continent = Places
    /\ TopN \in Nat \ {0}
    /\ MaxMissing \in Nat

VARIABLES
    missing,       \* how many services of the BOM a region lacks
    supported,     \* what the overall column says, which a workbook may have wrong
    skus           \* the rows of a region: primary and fallback of a requirement

regionVars == <<missing, supported, skus>>

Zones == 1 .. 3
Pairs == [primary : SkuRows, alt : SkuRows]
NoData == [q \in {} |-> {}]      \* a region without any SKU row

RegionInit ==
    /\ missing \in [Places -> 0 .. MaxMissing]
    /\ supported \in [Places -> BOOLEAN]
    /\ skus \in [Places -> [Requirements -> Pairs] \cup {NoData}]

\* The next analysis finds another situation in one region.
RegionChanges(p) ==
    \/ /\ \E n \in 0 .. MaxMissing : missing' = [missing EXCEPT ![p] = n]
       /\ UNCHANGED <<supported, skus>>
    \/ /\ supported' = [supported EXCEPT ![p] = ~@]
       /\ UNCHANGED <<missing, skus>>
    \/ /\ \E rows \in [Requirements -> Pairs] \cup {NoData} : skus' = [skus EXCEPT ![p] = rows]
       /\ UNCHANGED <<missing, supported>>

RegionNext == \E p \in Places : RegionChanges(p)
RegionSpec == RegionInit /\ [][RegionNext]_regionVars

------------------------------------------------------------------------------
\* analyze_skus(): all or nothing per family; a zone is open unless a requirement
\* that no family covers has neither family there.
In(row) == IF row = NotOffered THEN {} ELSE row
Chosen(p, q) ==
    CASE In(skus[p][q].primary) = Zones -> "primary"
      [] In(skus[p][q].primary) # Zones /\ In(skus[p][q].alt) = Zones -> "alt"
      [] OTHER -> "none"
Uncovered(p) == {q \in DOMAIN skus[p] : Chosen(p, q) = "none"}
SkuBlockers(p) == IF skus[p] = NoData THEN 1 ELSE Cardinality(Uncovered(p))
ZoneOk(p) ==
    IF skus[p] = NoData THEN {}
    ELSE {z \in Zones : \A q \in Uncovered(p) : z \in In(skus[p][q].primary) \cup In(skus[p][q].alt)}

HasIssue(p) == ~supported[p] \/ missing[p] > 0
ComputeRed(p) == SkuBlockers(p) > 0 \/ ZoneOk(p) # Zones
Healthy == {p \in Places : ~HasIssue(p) /\ ~ComputeRed(p)}
Status(p) ==
    CASE HasIssue(p) /\ ComputeRed(p) -> "BOM & Compute Issue"
      [] HasIssue(p) /\ ~ComputeRed(p) -> "BOM Issue"
      [] ~HasIssue(p) /\ ComputeRed(p) -> "Compute Issue"
      [] OTHER -> "OK"

\* recommendation(): empty unless a family was chosen for every requirement.
Recommended(p) == skus[p] # NoData /\ \A q \in Requirements : Chosen(p, q) # "none"

HardGaps(p) == missing[p] + SkuBlockers(p) + (IF ~supported[p] /\ missing[p] = 0 THEN 1 ELSE 0)
ClosedZones(p) == Cardinality(Zones \ ZoneOk(p))

\* Fault: a hard gap weighs as much as a closed zone.
GapScoreFlat(p) == HardGaps(p) + ClosedZones(p)
GapScore(p) == HardGaps(p) * 100 + ClosedZones(p)

------------------------------------------------------------------------------
\* sort() by keys of three numbers, ties in the order of the table, and the first
\* TopN of it: the n-th is the one n - 1 others come before.
Before(key, a, b) ==
    \/ key[a][1] < key[b][1]
    \/ key[a][1] = key[b][1] /\ key[a][2] < key[b][2]
    \/ key[a][1] = key[b][1] /\ key[a][2] = key[b][2] /\ key[a][3] < key[b][3]
    \/ key[a] = key[b] /\ a < b
Sorted(key) ==
    LET size == Cardinality(DOMAIN key)
        rank == [c \in DOMAIN key |-> Cardinality({d \in DOMAIN key : Before(key, d, c)})]
    IN  [n \in 1 .. (IF size < TopN THEN size ELSE TopN) |->
            CHOOSE c \in DOMAIN key : rank[c] = n - 1]

\* Among healthy regions: by published latency, else those listed by hand, else by
\* distance, the same continent first.
Measured(p) == {h \in Healthy \ {p} : Latency[p][h] # Unknown}
Located(p) == {h \in Healthy \ {p} : Distance[p][h] # Unknown}
Listed(p) == Healthy \cap Range(Curated[p])

HealthyAlternatives(p) ==
    LET Abroad(h) == IF Continent[h] = Continent[p] /\ Continent[p] # Unknown THEN 0 ELSE 1
        Place(h) == CHOOSE n \in DOMAIN Curated[p] : Curated[p][n] = h
    IN  CASE Measured(p) # {} -> Sorted([h \in Measured(p) |-> <<0, 0, Latency[p][h]>>])
          [] Measured(p) = {} /\ Listed(p) # {} -> Sorted([h \in Listed(p) |-> <<0, 0, Place(h)>>])
          [] OTHER -> Sorted([h \in Located(p) |-> <<0, Abroad(h), Distance[p][h]>>])

\* When no region is healthy: those with a smaller score, the smallest first, then
\* the published latencies, then the distances.
LessBad(p) == {a \in Places : GapScore(a) < GapScore(p)}

LeastBadAlternatives(p) ==
    Sorted([a \in LessBad(p) |->
        CASE Latency[p][a] # Unknown -> <<GapScore(a), 0, Latency[p][a]>>
          [] Latency[p][a] = Unknown /\ Distance[p][a] # Unknown -> <<GapScore(a), 1, Distance[p][a]>>
          [] OTHER -> <<GapScore(a), 1, 1000000000>>])

AltRegions(p) ==
    CASE p \in Healthy -> <<>>
      [] p \notin Healthy /\ Healthy # {} -> HealthyAlternatives(p)
      [] OTHER -> LeastBadAlternatives(p)

------------------------------------------------------------------------------
RegionTypeOK ==
    /\ missing \in [Places -> 0 .. MaxMissing]
    /\ supported \in [Places -> BOOLEAN]
    /\ skus \in [Places -> [Requirements -> Pairs] \cup {NoData}]

\* What the table advises helps: a region is healthy exactly when its status is OK
\* and it misses no service, and then a family is recommended for each requirement
\* that is in all three zones.  The alternatives of another are healthy ones (one
\* at least, when a healthy region has a known latency or distance), or, when there
\* is none, regions with fewer missing services and SKUs, or as many and fewer
\* closed zones; the best of these is never left out.
AlternativesHelp ==
    LET fit == Healthy IN
    \A p \in Places :
        LET alts == Range(AltRegions(p))
            Better(a) ==
                \/ HardGaps(a) < HardGaps(p)
                \/ HardGaps(a) = HardGaps(p) /\ ClosedZones(a) < ClosedZones(p)
        IN  /\ p \in fit <=> Status(p) = "OK"
            /\ p \in fit =>
                  /\ missing[p] = 0
                  /\ Recommended(p)
                  /\ \A q \in Requirements : Zones \in {In(skus[p][q].primary), In(skus[p][q].alt)}
                  /\ alts = {}
            /\ p \notin fit /\ fit # {} =>
                  /\ alts \subseteq fit
                  /\ alts # {} \/ \A h \in fit : {Latency[p][h], Distance[p][h]} = {Unknown}
            /\ fit = {} =>
                  /\ \A a \in alts : Better(a)
                  /\ alts # {} \/ \A a \in Places : ~Better(a)
                  /\ \A a \in Places \ alts : Better(a) =>
                        \A b \in alts : HardGaps(b) <= HardGaps(a)
===============================================================================
