----------------------------- MODULE Verdict_proofs -----------------------------
(***************************************************************************)
(* Proofs about Verdict, for every set of families, every bill of          *)
(* materials and every quota.                                              *)
(***************************************************************************)
EXTENDS Verdict, TLAPS

(***************************************************************************)
(* Quota rows.                                                             *)
(***************************************************************************)
RowMap == [Families -> QuotaRow \cup {NoRow}]

\* A headroom is a number or not known.
LEMMA HeadroomType ==
    ASSUME NEW x \in QuotaRow \cup {NoRow}
    PROVE  Headroom(x) \in Int \cup {None}
BY VerdictAssumption DEF Headroom, QuotaRow

\* The families of a requirement are its primary and, if any, its fallback.
LEMMA FamilyIdsType ==
    ASSUME NEW r \in Requirement
    PROVE  /\ FamilyIds(r) \subseteq Families
           /\ FamilyIds(r) \subseteq {r.primary, r.alt}
           /\ r.primary \in FamilyIds(r)
BY VerdictAssumption DEF FamilyIds, Requirement

\* The requirements of the run are well formed.
LEMMA ReqsType ==
    ASSUME reqs \in Boms
    PROVE  reqs \subseteq Requirement
BY VerdictAssumption

\* The best row is a row of one of the requirement's families, and none of
\* them has more headroom (_best_subscription_quota_match).
LEMMA BestIsBest ==
    ASSUME NEW rows \in RowMap, NEW r \in Requirement, Candidates(rows, r) # {}
    PROVE  /\ Best(rows, r) \in Candidates(rows, r)
           /\ \A g \in Candidates(rows, r) :
                 ~MoreRoom(Headroom(rows[g]), Headroom(rows[Best(rows, r)]))
<1> DEFINE C == Candidates(rows, r)
<1>1. C \subseteq {r.primary, r.alt} /\ C \subseteq Families
    BY FamilyIdsType DEF Candidates
<1>2. \A f \in C : Headroom(rows[f]) \in Int \cup {None}
    BY <1>1, HeadroomType DEF RowMap
<1>3. \E f \in C : \A g \in C : ~Ahead(rows, r, g, f)
    <2>1. \A f, g \in C : Ahead(rows, r, f, g) => ~Ahead(rows, r, g, f)
        BY <1>2, VerdictAssumption DEF Ahead, MoreRoom
    <2>2. \A f \in C : ~Ahead(rows, r, f, f)
        BY <1>2, VerdictAssumption DEF Ahead, MoreRoom
    <2> HIDE DEF C
    <2> QED BY <1>1, <2>1, <2>2, Candidates(rows, r) # {} DEF C
<1>4. Best(rows, r) \in C /\ \A g \in C : ~Ahead(rows, r, g, Best(rows, r))
    BY <1>3 DEF Best
<1> QED BY <1>4 DEF Ahead

\* Hence the best row covers a need exactly when some row does.
LEMMA BestCovers ==
    ASSUME NEW rows \in RowMap, NEW r \in Requirement, NEW cores \in Nat
    PROVE  Covers(BestRow(rows, r), cores)
             <=> \E f \in FamilyIds(r) : Covers(rows[f], cores)
<1>1. CASE Candidates(rows, r) = {}
    <2>1. \A f \in FamilyIds(r) : rows[f] = NoRow
        BY <1>1 DEF Candidates
    <2> QED BY <1>1, <2>1 DEF BestRow, Covers, Headroom
<1>2. CASE Candidates(rows, r) # {}
    <2> DEFINE b == Best(rows, r)
    <2>1. b \in FamilyIds(r) /\ BestRow(rows, r) = rows[b]
        BY <1>2, BestIsBest DEF BestRow, Candidates
    <2>2. ASSUME NEW f \in FamilyIds(r), Covers(rows[f], cores)
          PROVE  Covers(rows[b], cores)
        <3>1. f \in Candidates(rows, r)
            BY <2>2 DEF Candidates, Covers, Headroom
        <3>2. ~MoreRoom(Headroom(rows[f]), Headroom(rows[b]))
            BY <1>2, <3>1, BestIsBest
        <3>3. Headroom(rows[f]) \in Int \cup {None} /\ Headroom(rows[b]) \in Int \cup {None}
            BY <2>1, FamilyIdsType, HeadroomType DEF RowMap
        <3> HIDE DEF b
        <3> QED BY <2>2, <3>2, <3>3 DEF Covers, MoreRoom
    <2> QED BY <2>1, <2>2
<1> QED BY <1>1, <1>2

\* What the compile holds of the target are rows of the same families.
LEMMA SeenRowsType ==
    ASSUME TypeOK
    PROVE  SubRows \in RowMap /\ GroupRows \in RowMap
BY DEF TypeOK, SubRows, GroupRows, RowMap

\* The tiers of a requirement are rows, or none.
LEMMA BestRowType ==
    ASSUME NEW rows \in RowMap, NEW r \in Requirement
    PROVE  BestRow(rows, r) \in QuotaRow \cup {NoRow}
<1>1. CASE Candidates(rows, r) = {}
    BY <1>1 DEF BestRow
<1>2. CASE Candidates(rows, r) # {}
    <2>1. Best(rows, r) \in Families
        BY <1>2, BestIsBest, FamilyIdsType DEF Candidates
    <2> QED BY <1>2, <2>1 DEF BestRow, RowMap
<1> QED BY <1>1, <1>2

\* A shortfall is a number of cores.
LEMMA ShortfallType ==
    ASSUME TypeOK, NEW r \in Requirement
    PROVE  Shortfall(r) \in Nat
<1>1. Headroom(Tier1(r)) \in Int \cup {None}
    BY SeenRowsType, BestRowType, HeadroomType DEF Tier1
<1>2. r.cores \in Nat
    BY DEF Requirement
<1> QED BY <1>1, <1>2 DEF Shortfall

\* A requirement is satisfied exactly when one row of the subscription covers
\* it, or one row of its group what is short.
LEMMA SatisfiedIff ==
    ASSUME TypeOK, NEW r \in Requirement
    PROVE  Satisfied(r) <=> \/ \E f \in FamilyIds(r) : Covers(SubRows[f], r.cores)
                            \/ \E f \in FamilyIds(r) : Covers(GroupRows[f], Shortfall(r))
<1>1. Satisfied(r) <=> Covers(Tier1(r), r.cores) \/ Covers(Tier2(r), Shortfall(r))
    BY DEF Satisfied, RequirementStatus
<1>2. Covers(Tier1(r), r.cores) <=> \E f \in FamilyIds(r) : Covers(SubRows[f], r.cores)
    BY SeenRowsType, BestCovers DEF Tier1, Requirement
<1>3. Covers(Tier2(r), Shortfall(r))
        <=> \E f \in FamilyIds(r) : Covers(GroupRows[f], Shortfall(r))
    BY SeenRowsType, ShortfallType, BestCovers DEF Tier2
<1> QED BY <1>1, <1>2, <1>3

(***************************************************************************)
(* Type correctness.                                                       *)
(***************************************************************************)
\* A recommended limit is a number of cores, at least the usage and the
\* required cores together (_round_up_to_nearest_10).
LEMMA RoundUpAtLeast ==
    ASSUME NEW n \in Nat
    PROVE  RoundUpToNearest10(n) \in Nat /\ RoundUpToNearest10(n) >= n
BY DEF RoundUpToNearest10

\* A planned requirement names a row of the target, with its numbers known.
LEMMA PlannedRow ==
    ASSUME TypeOK, NEW r \in reqs, r \in Planned
    PROVE  LET b == Best(SubRows, r)
           IN  /\ r \in Requirement
               /\ b \in FamilyIds(r) /\ b \in Families
               /\ access[Target] = "ok" /\ quotaStatus = "ok" /\ SubRows = row
               /\ row[b] \in QuotaRow
               /\ row[b].limit \in Nat /\ row[b].usage \in Nat
               /\ Tier1(r) = row[b]
<1> DEFINE b == Best(SubRows, r)
<1>1. r \in Requirement
    BY ReqsType DEF TypeOK
<1>2. SubRows \in RowMap
    BY SeenRowsType
<1>3. Headroom(Tier1(r)) # None
    BY DEF Planned
<1>4. Candidates(SubRows, r) # {}
    BY <1>3 DEF Tier1, BestRow, Headroom
<1>5. b \in FamilyIds(r) /\ b \in Families /\ SubRows[b] # NoRow
    BY <1>1, <1>2, <1>4, BestIsBest, FamilyIdsType DEF Candidates
<1>6. Tier1(r) = SubRows[b]
    BY <1>4 DEF Tier1, BestRow
<1>7. access[Target] = "ok" /\ quotaStatus = "ok" /\ SubRows = row
    BY <1>5 DEF SubRows
<1>8. row[b] \in QuotaRow
    BY <1>2, <1>5, <1>7 DEF RowMap
<1>9. row[b].limit \in Nat /\ row[b].usage \in Nat
    BY <1>3, <1>6, <1>7, <1>8 DEF Headroom, QuotaRow
<1> QED BY <1>1, <1>5, <1>6, <1>7, <1>8, <1>9

\* A row with another limit, or another usage, is a row.
LEMMA RowUpdate ==
    ASSUME NEW rows \in RowMap, NEW f \in Families, NEW n \in Nat, rows[f] # NoRow
    PROVE  /\ [rows EXCEPT ![f].limit = n] \in RowMap
           /\ [rows EXCEPT ![f].usage = n] \in RowMap
<1>1. rows[f] \in QuotaRow
    BY DEF RowMap
<1>2. [rows[f] EXCEPT !.limit = n] \in QuotaRow /\ [rows[f] EXCEPT !.usage = n] \in QuotaRow
    BY <1>1 DEF QuotaRow
<1> DEFINE l == [rows[f] EXCEPT !.limit = n]
           u == [rows[f] EXCEPT !.usage = n]
<1>3. [rows EXCEPT ![f] = l] \in RowMap /\ [rows EXCEPT ![f] = u] \in RowMap
    <2> HIDE DEF l, u
    <2> QED BY <1>2 DEF RowMap, l, u
<1> QED BY <1>3

\* TypeOK is inductive by itself.
LEMMA TypeStep == TypeOK /\ [Next]_vars => TypeOK'
<1> SUFFICES ASSUME TypeOK, [Next]_vars PROVE TypeOK'
    OBVIOUS
<1> USE VerdictAssumption
<1>1. ASSUME NEW s \in Subs, NEW status \in {"no_access", "error"}, AccessLost(s, status)
      PROVE  TypeOK'
    BY <1>1 DEF TypeOK, AccessLost, Changes
<1>2. ASSUME NEW s \in Subs, AccessRegained(s)
      PROVE  TypeOK'
    BY <1>2 DEF TypeOK, AccessRegained, Changes
<1>3. ASSUME NEW s \in Subs, NEW f \in Families, NEW z \in Zones,
             ZoneGranted(s, f, z) \/ ZoneWithdrawn(s, f, z)
      PROVE  TypeOK'
    <2>1. zones' \in [Subs -> [Families -> SUBSET Zones]]
        <3> DEFINE more == zones[s][f] \cup {z}
                   less == zones[s][f] \ {z}
        <3>1. /\ zones \in [Subs -> [Families -> SUBSET Zones]]
              /\ more \in SUBSET Zones /\ less \in SUBSET Zones
            BY DEF TypeOK
        <3>2. \/ zones' = [zones EXCEPT ![s] = [zones[s] EXCEPT ![f] = more]]
              \/ zones' = [zones EXCEPT ![s] = [zones[s] EXCEPT ![f] = less]]
            BY <1>3 DEF ZoneGranted, ZoneWithdrawn
        <3> HIDE DEF more, less
        <3>3. /\ [zones[s] EXCEPT ![f] = more] \in [Families -> SUBSET Zones]
              /\ [zones[s] EXCEPT ![f] = less] \in [Families -> SUBSET Zones]
            BY <3>1
        <3> QED BY <3>1, <3>2, <3>3
    <2> QED BY <1>3, <2>1 DEF TypeOK, ZoneGranted, ZoneWithdrawn, Changes
<1>4. ASSUME NEW f \in Families, NEW n \in Amounts, LimitRaised(f, n)
      PROVE  TypeOK'
    <2>1. row \in RowMap /\ n \in Nat /\ row[f] # NoRow
        BY <1>4 DEF TypeOK, LimitRaised, RowMap
    <2>2. row' = [row EXCEPT ![f].limit = n]
        BY <1>4 DEF LimitRaised
    <2>3. row' \in RowMap
        BY <2>1, <2>2, RowUpdate
    <2> QED BY <1>4, <2>3 DEF TypeOK, LimitRaised, Changes, RowMap
<1>5. ASSUME NEW f \in Families, NEW n \in Amounts, CoresUsed(f, n)
      PROVE  TypeOK'
    <2>1. row \in RowMap /\ n \in Nat /\ row[f] # NoRow
        BY <1>5 DEF TypeOK, CoresUsed, RowMap
    <2>2. row' = [row EXCEPT ![f].usage = n]
        BY <1>5 DEF CoresUsed
    <2>3. row' \in RowMap
        BY <2>1, <2>2, RowUpdate
    <2> QED BY <1>5, <2>3 DEF TypeOK, CoresUsed, Changes, RowMap
<1>6. ASSUME NEW f \in Families, NEW n \in Amounts, GroupRaised(f, n)
      PROVE  TypeOK'
    <2>1. groupRow \in RowMap /\ n \in Nat /\ groupRow[f] # NoRow
        BY <1>6 DEF TypeOK, GroupRaised, RowMap
    <2>2. groupRow' = [groupRow EXCEPT ![f].limit = n]
        BY <1>6 DEF GroupRaised
    <2>3. groupRow' \in RowMap
        BY <2>1, <2>2, RowUpdate
    <2> QED BY <1>6, <2>3 DEF TypeOK, GroupRaised, Changes, RowMap
<1>7. ASSUME NEW r \in reqs, RecommendedLimitGranted(r)
      PROVE  TypeOK'
    <2> DEFINE b == Best(SubRows, r)
               n == RecommendedLimit(r)
    <2>1. r \in Planned /\ row' = [row EXCEPT ![b].limit = n]
        BY <1>7 DEF RecommendedLimitGranted
    <2>2. b \in Families /\ row[b] \in QuotaRow /\ row[b].usage \in Nat
            /\ Tier1(r) = row[b] /\ r.cores \in Nat
        BY <2>1, PlannedRow DEF Requirement
    <2>3. n \in Nat
        BY <2>2, RoundUpAtLeast DEF RecommendedLimit
    <2> HIDE DEF b, n
    <2>4. row \in RowMap /\ row[b] # NoRow
        BY <2>2, VerdictAssumption DEF TypeOK, RowMap
    <2>5. row' \in RowMap
        BY <2>1, <2>2, <2>3, <2>4, RowUpdate
    <2> QED BY <1>7, <2>5 DEF TypeOK, RecommendedLimitGranted, Changes, RowMap
<1>8. ASSUME NEW status \in {"ok", "no_access", "not_found", "error"}, QuotaAnswers(status)
      PROVE  TypeOK'
    BY <1>8 DEF TypeOK, QuotaAnswers, Changes
<1>9. ASSUME NEW status \in {"ok", "no_quota_group", "not_available", "no_access", "error"},
             GroupAnswers(status)
      PROVE  TypeOK'
    BY <1>9 DEF TypeOK, GroupAnswers, Changes
<1>10. CASE ServiceChanges
    BY <1>10 DEF TypeOK, ServiceChanges, Changes
<1>11. CASE RegistrationChanges
    BY <1>11 DEF TypeOK, RegistrationChanges, Changes
<1>12. CASE UNCHANGED vars
    BY <1>12 DEF TypeOK, vars
<1> QED BY <1>1, <1>2, <1>3, <1>4, <1>5, <1>6, <1>7, <1>8, <1>9, <1>10, <1>11, <1>12
        DEF Next

\* Every reachable state has the types of TypeOK.
THEOREM TypeCorrect == Spec => []TypeOK
<1>1. Init => TypeOK
    <2> SUFFICES ASSUME Init PROVE TypeOK
        OBVIOUS
    <2>1. /\ row \in [Families -> QuotaRow \cup {NoRow}]
          /\ groupRow \in [Families -> QuotaRow \cup {NoRow}]
        BY VerdictAssumption DEF Init
    <2>2. zones \in [Subs -> [Families -> SUBSET Zones]] /\ changes \in 0..MaxChanges
        BY VerdictAssumption DEF Init
    <2>3. access \in [Subs -> {"ok", "no_access", "error"}]
        BY DEF Init
    <2> QED BY <2>1, <2>2, <2>3 DEF Init, TypeOK
<1>2. TypeOK /\ [Next]_vars => TypeOK'
    BY TypeStep
<1> QED BY <1>1, <1>2, PTL DEF Spec

(***************************************************************************)
(* The plan of quota increases.                                            *)
(***************************************************************************)
\* After the recommended limit is granted, the chosen family has the cores.
LEMMA GrantCovers ==
    ASSUME TypeOK, NEW r \in reqs, RecommendedLimitGranted(r)
    PROVE  RequirementStatus(r)' = "sufficient_sub"
<1> DEFINE b == Best(SubRows, r)
           n == RecommendedLimit(r)
<1>1. r \in Planned /\ row' = [row EXCEPT ![b].limit = n]
        /\ access' = access /\ quotaStatus' = quotaStatus
    BY DEF RecommendedLimitGranted
<1>2. /\ r \in Requirement /\ b \in FamilyIds(r) /\ b \in Families
      /\ access[Target] = "ok" /\ quotaStatus = "ok"
      /\ row[b] \in QuotaRow /\ row[b].usage \in Nat /\ Tier1(r) = row[b]
    BY <1>1, PlannedRow
<1>3. r.cores \in Nat
    BY <1>2 DEF Requirement
<1>4. n \in Nat /\ n >= row[b].usage + r.cores
    BY <1>2, <1>3, RoundUpAtLeast DEF RecommendedLimit
<1> HIDE DEF b, n
<1>5. row \in RowMap /\ row[b] # NoRow
    BY <1>2, VerdictAssumption DEF TypeOK, RowMap
<1>6. row' \in RowMap
    BY <1>1, <1>2, <1>4, <1>5, RowUpdate
<1>7. row'[b].limit = n /\ row'[b].usage = row[b].usage
    <2>1. row'[b] = [row[b] EXCEPT !.limit = n]
        BY <1>1, <1>2, <1>5 DEF RowMap
    <2> QED BY <2>1, <1>2 DEF QuotaRow
<1>8. row'[b] # NoRow
    <2>1. row'[b] = [row[b] EXCEPT !.limit = n]
        BY <1>1, <1>2, <1>5 DEF RowMap
    <2>2. [row[b] EXCEPT !.limit = n] \in QuotaRow
        BY <1>2, <1>4 DEF QuotaRow
    <2> QED BY <2>1, <2>2, VerdictAssumption
<1>9. Covers(row'[b], r.cores)
    BY <1>2, <1>3, <1>4, <1>7, <1>8, VerdictAssumption DEF Covers, Headroom
<1>10. SubRows' = row'
    BY <1>1, <1>2 DEF SubRows
<1>11. Covers(BestRow(row', r), r.cores)
    BY <1>2, <1>3, <1>6, <1>9, BestCovers
<1> QED BY <1>10, <1>11 DEF RequirementStatus, Tier1

\* A recommended limit, once granted, satisfies the family it was asked for.
THEOREM RemediationTheorem == Spec => RemediationSuffices
<1>1. TypeOK /\ [Next]_vars =>
        [\A r \in reqs : RecommendedLimitGranted(r) =>
            RequirementStatus(r)' = "sufficient_sub"]_vars
    BY GrantCovers
<1> QED BY <1>1, TypeCorrect, PTL DEF Spec, RemediationSuffices

(***************************************************************************)
(* More quota.                                                             *)
(***************************************************************************)
\* The same headrooms are known in rows and in more, and none is smaller there.
Grown(rows, more) ==
    \A f \in Families :
        /\ Headroom(rows[f]) = None <=> Headroom(more[f]) = None
        /\ Headroom(rows[f]) # None => Headroom(more[f]) >= Headroom(rows[f])

\* The best of grown rows is no worse, even if it is another family's.
LEMMA BestGrows ==
    ASSUME NEW rows \in RowMap, NEW more \in RowMap, NEW r \in Requirement,
           Grown(rows, more), Headroom(BestRow(rows, r)) # None
    PROVE  /\ Headroom(BestRow(more, r)) # None
           /\ Headroom(BestRow(more, r)) >= Headroom(BestRow(rows, r))
<1> DEFINE b == Best(rows, r)
           m == Best(more, r)
<1>1. Candidates(rows, r) # {}
    BY DEF BestRow, Headroom
<1>2. BestRow(rows, r) = rows[b] /\ b \in FamilyIds(r) /\ b \in Families
    BY <1>1, BestIsBest, FamilyIdsType DEF BestRow, Candidates
<1>3. Headroom(more[b]) # None /\ Headroom(more[b]) >= Headroom(rows[b])
    BY <1>2, Headroom(BestRow(rows, r)) # None DEF Grown
<1>4. b \in Candidates(more, r)
    BY <1>2, <1>3 DEF Candidates, Headroom
<1>5. BestRow(more, r) = more[m] /\ m \in Families
        /\ ~MoreRoom(Headroom(more[b]), Headroom(more[m]))
    BY <1>4, BestIsBest, FamilyIdsType DEF BestRow, Candidates
<1>6. /\ Headroom(rows[b]) \in Int \cup {None}
      /\ Headroom(more[b]) \in Int \cup {None}
      /\ Headroom(more[m]) \in Int \cup {None}
    BY <1>2, <1>5, HeadroomType DEF RowMap
<1> HIDE DEF b, m
<1> QED BY <1>2, <1>3, <1>5, <1>6 DEF MoreRoom

\* Where no headroom is known, none becomes known.
LEMMA UnknownStays ==
    ASSUME NEW rows \in RowMap, NEW more \in RowMap, NEW r \in Requirement,
           Grown(rows, more), Headroom(BestRow(rows, r)) = None
    PROVE  Headroom(BestRow(more, r)) = None
<1> SUFFICES ASSUME Headroom(BestRow(more, r)) # None PROVE FALSE
    OBVIOUS
<1> DEFINE m == Best(more, r)
<1>1. Candidates(more, r) # {}
    BY DEF BestRow, Headroom
<1>2. BestRow(more, r) = more[m] /\ m \in FamilyIds(r) /\ m \in Families
    BY <1>1, BestIsBest, FamilyIdsType DEF BestRow, Candidates
<1>3. Headroom(rows[m]) # None
    BY <1>2 DEF Grown
<1>4. m \in Candidates(rows, r)
    BY <1>2, <1>3 DEF Candidates, Headroom
<1>5. ~MoreRoom(Headroom(rows[m]), Headroom(BestRow(rows, r)))
    BY <1>4, BestIsBest DEF BestRow
<1> QED BY <1>3, <1>5 DEF MoreRoom

\* A covered need stays covered, and so does a smaller one.
LEMMA CoversGrows ==
    ASSUME NEW rows \in RowMap, NEW more \in RowMap, NEW r \in Requirement,
           Grown(rows, more), NEW c \in Nat, NEW d \in Nat, d <= c,
           Covers(BestRow(rows, r), c)
    PROVE  Covers(BestRow(more, r), d)
<1>1. Headroom(BestRow(rows, r)) # None /\ Headroom(BestRow(rows, r)) >= c
    BY DEF Covers
<1>2. /\ Headroom(BestRow(more, r)) # None
      /\ Headroom(BestRow(more, r)) >= Headroom(BestRow(rows, r))
    BY <1>1, BestGrows
<1>3. /\ Headroom(BestRow(rows, r)) \in Int \cup {None}
      /\ Headroom(BestRow(more, r)) \in Int \cup {None}
    BY BestRowType, HeadroomType
<1> QED BY <1>1, <1>2, <1>3 DEF Covers

\* A requirement satisfied before its rows grew is satisfied after.
LEMMA SatisfiedGrows ==
    ASSUME TypeOK, TypeOK', NEW r \in Requirement, Satisfied(r),
           Grown(SubRows, SubRows'), Grown(GroupRows, GroupRows')
    PROVE  Satisfied(r)'
<1> DEFINE s == SubRows
           t == SubRows'
           g == GroupRows
           h == GroupRows'
<1>1. s \in RowMap /\ g \in RowMap
    BY SeenRowsType
<1>2. t \in RowMap /\ h \in RowMap
    BY DEF TypeOK, SubRows, GroupRows, RowMap
<1>3. r.cores \in Nat
    BY DEF Requirement
<1> DEFINE Lack(rows) == LET room == Headroom(BestRow(rows, r))
                         IN  IF room = None THEN r.cores
                             ELSE IF r.cores > room THEN r.cores - room ELSE 0
<1>4. Satisfied(r) <=> Covers(BestRow(s, r), r.cores) \/ Covers(BestRow(g, r), Lack(s))
    BY DEF Satisfied, RequirementStatus, Tier1, Tier2, Shortfall
<1>5. Satisfied(r)' <=> Covers(BestRow(t, r), r.cores) \/ Covers(BestRow(h, r), Lack(t))
    BY DEF Satisfied, RequirementStatus, Tier1, Tier2, Shortfall
<1> HIDE DEF s, t, g, h
<1>6. Grown(s, t) /\ Grown(g, h)
    BY DEF s, t, g, h
<1>7. /\ Headroom(BestRow(s, r)) \in Int \cup {None}
      /\ Headroom(BestRow(t, r)) \in Int \cup {None}
    BY <1>1, <1>2, BestRowType, HeadroomType
<1>8. Lack(s) \in Nat /\ Lack(t) \in Nat /\ Lack(t) <= Lack(s)
    <2>1. Lack(s) \in Nat /\ Lack(t) \in Nat
        BY <1>3, <1>7
    <2>2. CASE Headroom(BestRow(s, r)) = None
        <3>1. Headroom(BestRow(t, r)) = None
            BY <1>1, <1>2, <1>6, <2>2, UnknownStays
        <3> QED BY <1>3, <2>2, <3>1
    <2>3. CASE Headroom(BestRow(s, r)) # None
        <3>1. /\ Headroom(BestRow(t, r)) # None
              /\ Headroom(BestRow(t, r)) >= Headroom(BestRow(s, r))
            BY <1>1, <1>2, <1>6, <2>3, BestGrows
        <3> QED BY <1>3, <1>7, <2>1, <2>3, <3>1
    <2> QED BY <2>2, <2>3
<1> HIDE DEF Lack
<1>9. CASE Covers(BestRow(s, r), r.cores)
    BY <1>1, <1>2, <1>3, <1>5, <1>6, <1>9, CoversGrows
<1>10. CASE Covers(BestRow(g, r), Lack(s))
    BY <1>1, <1>2, <1>5, <1>6, <1>8, <1>10, CoversGrows
<1> QED BY <1>4, <1>9, <1>10

\* A raised limit grows the rows it belongs to.
LEMMA RaisedGrows ==
    ASSUME NEW rows \in RowMap, NEW f \in Families, NEW n \in Nat,
           rows[f] # NoRow, rows[f].limit # None, rows[f].limit < n
    PROVE  Grown(rows, [rows EXCEPT ![f].limit = n])
<1> DEFINE more == [rows EXCEPT ![f].limit = n]
<1>1. rows[f] \in QuotaRow
    BY DEF RowMap
<1>2. more[f] = [rows[f] EXCEPT !.limit = n]
    BY DEF RowMap
<1>3. more[f].limit = n /\ more[f].usage = rows[f].usage
    BY <1>1, <1>2 DEF QuotaRow
<1>4. more[f] # NoRow
    <2>1. [rows[f] EXCEPT !.limit = n] \in QuotaRow
        BY <1>1 DEF QuotaRow
    <2> QED BY <1>2, <2>1, VerdictAssumption
<1>5. \A e \in Families \ {f} : more[e] = rows[e]
    BY DEF RowMap
<1> HIDE DEF more
<1>6. /\ Headroom(rows[f]) = None <=> Headroom(more[f]) = None
      /\ Headroom(rows[f]) # None => Headroom(more[f]) >= Headroom(rows[f])
    BY <1>1, <1>3, <1>4, VerdictAssumption DEF Headroom, QuotaRow
<1>7. \A e \in Families \ {f} :
        /\ Headroom(rows[e]) = None <=> Headroom(more[e]) = None
        /\ Headroom(rows[e]) # None => Headroom(more[e]) >= Headroom(rows[e])
    <2>1. \A e \in Families \ {f} : Headroom(rows[e]) \in Int \cup {None}
        BY HeadroomType DEF RowMap
    <2> QED BY <1>5, <2>1
<1>8. Grown(rows, more)
    BY <1>6, <1>7 DEF Grown
<1> QED BY <1>8 DEF more

\* Rows are at least themselves.
LEMMA GrownReflexive ==
    ASSUME NEW rows \in RowMap
    PROVE  Grown(rows, rows)
<1>1. \A f \in Families : Headroom(rows[f]) \in Int \cup {None}
    BY HeadroomType DEF RowMap
<1> QED BY <1>1 DEF Grown

\* A raised limit grows what the compile holds of the target.
LEMMA RaiseStep ==
    ASSUME TypeOK, TypeOK', NEW f \in Families, NEW n \in Amounts,
           LimitRaised(f, n) \/ GroupRaised(f, n)
    PROVE  Grown(SubRows, SubRows') /\ Grown(GroupRows, GroupRows')
<1>1. n \in Nat /\ row \in RowMap /\ groupRow \in RowMap
    BY VerdictAssumption DEF TypeOK, RowMap
<1>2. SubRows \in RowMap /\ GroupRows \in RowMap
    BY SeenRowsType
<1>3. access' = access /\ quotaStatus' = quotaStatus /\ groupStatus' = groupStatus
    BY DEF LimitRaised, GroupRaised
<1>4. CASE LimitRaised(f, n)
    <2>1. Grown(row, row') /\ groupRow' = groupRow
        BY <1>1, <1>4, RaisedGrows DEF LimitRaised
    <2>2. GroupRows' = GroupRows
        BY <1>3, <2>1 DEF GroupRows
    <2>3. CASE access[Target] = "ok" /\ quotaStatus = "ok"
        BY <1>2, <1>3, <2>1, <2>2, <2>3, GrownReflexive DEF SubRows
    <2>4. CASE ~(access[Target] = "ok" /\ quotaStatus = "ok")
        <3>1. SubRows' = SubRows
            BY <1>3, <2>4 DEF SubRows
        <3> QED BY <1>2, <2>2, <3>1, GrownReflexive
    <2> QED BY <2>3, <2>4
<1>5. CASE GroupRaised(f, n)
    <2>1. Grown(groupRow, groupRow') /\ row' = row
        BY <1>1, <1>5, RaisedGrows DEF GroupRaised
    <2>2. SubRows' = SubRows
        BY <1>3, <2>1 DEF SubRows
    <2>3. CASE access[Target] = "ok" /\ groupStatus = "ok"
        BY <1>2, <1>3, <2>1, <2>2, <2>3, GrownReflexive DEF GroupRows
    <2>4. CASE ~(access[Target] = "ok" /\ groupStatus = "ok")
        <3>1. GroupRows' = GroupRows
            BY <1>3, <2>4 DEF GroupRows
        <3> QED BY <1>2, <2>2, <3>1, GrownReflexive
    <2> QED BY <2>3, <2>4
<1> QED BY <1>4, <1>5

\* A higher limit never makes a satisfied requirement short.
THEOREM MoreQuotaTheorem == Spec => MoreQuotaNeverHurts
<1>1. TypeOK /\ TypeOK' /\ [Next]_vars =>
        [\A f \in Families, n \in Amounts :
            LimitRaised(f, n) \/ GroupRaised(f, n) =>
                \A r \in Sized : Satisfied(r) => Satisfied(r)']_vars
    <2> SUFFICES ASSUME TypeOK, TypeOK', NEW f \in Families, NEW n \in Amounts,
                        LimitRaised(f, n) \/ GroupRaised(f, n),
                        NEW r \in Sized, Satisfied(r)
                 PROVE  Satisfied(r)'
        OBVIOUS
    <2>1. r \in Requirement
        BY ReqsType DEF TypeOK, Sized
    <2> QED BY <2>1, RaiseStep, SatisfiedGrows
<1> QED BY <1>1, TypeCorrect, PTL DEF Spec, MoreQuotaNeverHurts

(***************************************************************************)
(* What the verdict stands on.                                             *)
(***************************************************************************)
\* A requirement has one of four statuses.
LEMMA StatusType ==
    ASSUME NEW r \in reqs
    PROVE  RequirementStatus(r) \in {"sufficient_sub", "sufficient_group",
                                     "insufficient", "unknown"}
BY DEF RequirementStatus

\* The target's own entry and the status of the region agree.
THEOREM SummaryTheorem == Spec => []SummaryAgrees
<1>1. SummaryAgrees
    <2> DEFINE St(r) == RequirementStatus(r)
    <2>1. \A r \in Sized : St(r) \in {"sufficient_sub", "sufficient_group",
                                      "insufficient", "unknown"}
        BY StatusType DEF Sized
    <2>2. \A r \in Sized : Short(r) <=> St(r) = "insufficient"
        BY DEF Short
    <2>3. \A r \in Sized : Satisfied(r) <=> \/ St(r) = "sufficient_sub"
                                            \/ St(r) = "sufficient_group"
        BY DEF Satisfied
    <2>4. TargetSummary =
            LET has(st) == \E r \in Sized : St(r) = st
                any     == has("sufficient_sub") \/ has("sufficient_group")
            IN  IF access[Target] # "ok" THEN access[Target]
                ELSE IF has("insufficient") /\ any THEN "partial"
                ELSE IF has("insufficient") THEN "insufficient"
                ELSE IF has("unknown") THEN "unknown"
                ELSE IF has("sufficient_group") THEN "sufficient_group"
                ELSE IF any THEN "sufficient_sub"
                ELSE "unknown"
        BY DEF TargetSummary
    <2> HIDE DEF St
    <2> QED BY <2>1, <2>2, <2>3, <2>4 DEF SummaryAgrees, RegionQuota
<1> QED BY <1>1, PTL

\* A ready region has no blocker at all, and no constraint.
LEMMA ReadyMeans ==
    ASSUME DeploymentVerdict = "ready"
    PROVE  (\A b \in Blockers : b.severity \notin {"critical", "warning"}) /\ ~HasConstraints
BY DEF DeploymentVerdict

\* It has an answer from the target, the zones of every primary family, and a row
\* that covers every core requirement.
LEMMA ReadyFacts ==
    ASSUME DeploymentVerdict = "ready"
    PROVE  /\ access[Target] = "ok" /\ ~missing /\ ~unregistered
           /\ \A r \in reqs : AllZones(r.primary)
           /\ \A r \in Sized : Satisfied(r)
<1>1. \A b \in Blockers : b.severity \notin {"critical", "warning"}
    BY ReadyMeans
<1>2. access[Target] = "ok"
    <2> SUFFICES ASSUME access[Target] # "ok" PROVE FALSE
        OBVIOUS
    <2>1. Blocker("no_access", "critical") \in Blockers
        BY DEF Blockers
    <2> QED BY <1>1, <2>1 DEF Blocker
<1>3. ~missing
    <2> SUFFICES ASSUME missing PROVE FALSE
        OBVIOUS
    <2>1. Blocker("missing_service", "critical") \in Blockers
        BY DEF Blockers
    <2> QED BY <1>1, <2>1 DEF Blocker
<1>4. ~unregistered
    BY ReadyMeans DEF HasConstraints
<1>5. ASSUME NEW r \in reqs, r \in Constrained
      PROVE  FALSE
    <2>1. SkuBlocker(r) \in Blockers
        BY <1>5 DEF Blockers
    <2>2. SkuBlocker(r).severity \in {"critical", "warning"}
        BY DEF SkuBlocker, Blocker
    <2> QED BY <1>1, <2>1, <2>2
<1>6. \A r \in reqs : AllZones(r.primary)
    BY <1>5 DEF Constrained
<1>7. ASSUME NEW r \in Sized
      PROVE  Satisfied(r)
    <2>1. RegionQuota # "unknown"
        <3> SUFFICES ASSUME RegionQuota = "unknown" PROVE FALSE
            OBVIOUS
        <3>1. Blocker("no_access", "critical") \in Blockers
            BY <1>7 DEF Blockers, QuotaBlockers
        <3> QED BY <1>1, <3>1 DEF Blocker
    <2>2. \A q \in Sized : ~Short(q)
        <3> SUFFICES ASSUME NEW q \in Sized, Short(q) PROVE FALSE
            OBVIOUS
        <3>1. Blocker("quota_insufficient", "warning") \in QuotaBlockers
            BY <2>1 DEF QuotaBlockers
        <3>2. Blocker("quota_insufficient", "warning") \in Blockers
            BY <3>1 DEF Blockers
        <3> QED BY <1>1, <3>2 DEF Blocker
    <2> QED BY <1>7, <2>1, <2>2 DEF RegionQuota
<1> QED BY <1>2, <1>3, <1>4, <1>6, <1>7

\* A region is called ready only if the facts back it.
THEOREM ReadyTheorem == Spec => []ReadyIsBacked
<1>1. TypeOK => ReadyIsBacked
    <2> SUFFICES ASSUME TypeOK, DeploymentVerdict = "ready"
                 PROVE  /\ access[Target] = "ok" /\ ~missing /\ ~unregistered
                        /\ \A r \in reqs, z \in Zones :
                              \E s \in Subs : access[s] = "ok" /\ z \in zones[s][r.primary]
                        /\ \A r \in reqs : r.cores > 0 =>
                              \/ /\ quotaStatus = "ok"
                                 /\ \E f \in FamilyIds(r) : Covers(row[f], r.cores)
                              \/ /\ groupStatus = "ok"
                                 /\ \E f \in FamilyIds(r) : Covers(groupRow[f], Shortfall(r))
        BY DEF ReadyIsBacked
    <2>1. access[Target] = "ok" /\ ~missing /\ ~unregistered
        BY ReadyFacts
    <2>6. \A r \in reqs : ZonesOf(r.primary) = Zones
        BY ReadyFacts DEF AllZones
    <2>7. ASSUME NEW r \in reqs, NEW z \in Zones
          PROVE  \E s \in Subs : access[s] = "ok" /\ z \in zones[s][r.primary]
        BY <2>6 DEF ZonesOf, Accessible
    <2>8. \A r \in reqs : r.cores > 0 => Satisfied(r)
        BY ReadyFacts DEF Sized
    <2>9. ASSUME NEW r \in reqs, r.cores > 0
          PROVE  \/ /\ quotaStatus = "ok"
                    /\ \E f \in FamilyIds(r) : Covers(row[f], r.cores)
                 \/ /\ groupStatus = "ok"
                    /\ \E f \in FamilyIds(r) : Covers(groupRow[f], Shortfall(r))
        <3>1. r \in Requirement
            BY ReqsType DEF TypeOK
        <3>2. \/ \E f \in FamilyIds(r) : Covers(SubRows[f], r.cores)
              \/ \E f \in FamilyIds(r) : Covers(GroupRows[f], Shortfall(r))
            BY <2>8, <2>9, <3>1, SatisfiedIff
        <3>3. ASSUME NEW f \in FamilyIds(r), Covers(SubRows[f], r.cores)
              PROVE  quotaStatus = "ok" /\ Covers(row[f], r.cores)
            BY <3>1, <3>3, FamilyIdsType DEF SubRows, Covers, Headroom
        <3>4. ASSUME NEW f \in FamilyIds(r), Covers(GroupRows[f], Shortfall(r))
              PROVE  groupStatus = "ok" /\ Covers(groupRow[f], Shortfall(r))
            <4> DEFINE d == Shortfall(r)
            <4> HIDE DEF d
            <4>1. Covers(GroupRows[f], d)
                BY <3>4 DEF d
            <4>2. groupStatus = "ok" /\ Covers(groupRow[f], d)
                BY <3>1, <4>1, FamilyIdsType DEF GroupRows, Covers, Headroom
            <4> QED BY <4>2 DEF d
        <3> QED BY <3>2, <3>3, <3>4
    <2> QED BY <2>1, <2>7, <2>9
<1> QED BY <1>1, TypeCorrect, PTL

\* The cores of a requirement are counted in a family that has all three zones:
\* each tier is read from the row of its primary family, or of a fallback that is
\* offered in full.
CountedWhereOffered(r) ==
    \A rows \in {SubRows, GroupRows} :
        Candidates(rows, r) # {} =>
            Best(rows, r) = r.primary \/ AllZones(Best(rows, r))

\* The quota tiers choose the family with the most headroom without looking at its
\* zones, and the zones are looked up without its quota; that is the only way a
\* region can be called ready while a required family, or its fallback, lacks its
\* zones or its cores.  In particular nothing is wrong with a ready region whose
\* bill of materials names no fallback.
THEOREM ReadyUnlessCountedElsewhere ==
    Spec => []((\A r \in Sized : CountedWhereOffered(r)) => ReadyIsDeployable)
<1>1. ASSUME TypeOK, \A r \in Sized : CountedWhereOffered(r), DeploymentVerdict = "ready",
             NEW r \in reqs
      PROVE  \E f \in FamilyIds(r) :
                 /\ AllZones(f)
                 /\ r.cores > 0 => \/ Covers(SubRows[f], r.cores)
                                   \/ Covers(GroupRows[f], Shortfall(r))
    <2>1. r \in Requirement /\ r.primary \in FamilyIds(r) /\ AllZones(r.primary)
        BY <1>1, ReqsType, FamilyIdsType, ReadyFacts DEF TypeOK
    <2>2. ASSUME NEW rows \in {SubRows, GroupRows}, NEW cores, Covers(BestRow(rows, r), cores), r.cores > 0
          PROVE  \E f \in FamilyIds(r) : AllZones(f) /\ Covers(rows[f], cores)
        <3>1. Candidates(rows, r) # {}
            BY <2>2 DEF BestRow, Covers, Headroom
        <3>2. rows \in RowMap
            BY <1>1, <2>2, SeenRowsType
        <3>3. Best(rows, r) \in FamilyIds(r) /\ BestRow(rows, r) = rows[Best(rows, r)]
            BY <2>1, <3>1, <3>2, BestIsBest DEF Candidates, BestRow
        <3>4. CountedWhereOffered(r)
            BY <1>1, <2>2 DEF Sized
        <3>5. AllZones(Best(rows, r))
            BY <2>1, <2>2, <3>1, <3>4 DEF CountedWhereOffered
        <3> QED BY <2>2, <3>3, <3>5
    <2>3. ASSUME r.cores > 0
          PROVE  Covers(Tier1(r), r.cores) \/ Covers(Tier2(r), Shortfall(r))
        BY <1>1, <2>3, ReadyFacts DEF Sized, Satisfied, RequirementStatus
    <2> DEFINE short == Shortfall(r)
    <2>4. r.cores > 0 => Covers(BestRow(SubRows, r), r.cores) \/ Covers(BestRow(GroupRows, r), short)
        BY <2>3 DEF Tier1, Tier2
    <2> HIDE DEF short
    <2>5. \E f \in FamilyIds(r) :
              /\ AllZones(f)
              /\ r.cores > 0 => Covers(SubRows[f], r.cores) \/ Covers(GroupRows[f], short)
        BY <2>1, <2>2, <2>4
    <2> QED BY <2>5 DEF short
<1>2. TypeOK => ((\A r \in Sized : CountedWhereOffered(r)) => ReadyIsDeployable)
    BY <1>1 DEF ReadyIsDeployable
<1> QED BY <1>2, TypeCorrect, PTL

\* Nothing is missing, the target answered, each requirement has a family open
\* in all zones, and no quota is in doubt.
Sound == /\ ~missing
         /\ access[Target] = "ok"
         /\ \A r \in reqs : AllZones(r.primary) \/ AllZones(r.alt)
         /\ Sized = {} \/ RegionQuota # "unknown"

\* A region is deployable exactly when it is sound.
LEMMA DeployableIff == Deployable <=> Sound
<1> DEFINE fine(b) == b.severity # "critical" /\ b.type # "no_access"
<1>1. Deployable <=> \A b \in Blockers : fine(b)
    <2>1. \A b \in Blockers : b.type = "no_access" => b.severity = "critical"
        BY DEF Blockers, QuotaBlockers, SkuBlocker, Blocker
    <2> QED BY <2>1 DEF Deployable, DeploymentVerdict
<1>2. (\A b \in {Blocker("missing_service", "critical")} : missing => fine(b)) <=> ~missing
    BY DEF Blocker
<1>3. (\A b \in {Blocker("no_access", "critical")} : access[Target] # "ok" => fine(b))
        <=> access[Target] = "ok"
    BY DEF Blocker
<1>4. (\A r \in Constrained : fine(SkuBlocker(r)))
        <=> \A r \in reqs : AllZones(r.primary) \/ AllZones(r.alt)
    <2>1. \A r \in Constrained : fine(SkuBlocker(r)) <=> UsesFallback(r)
        BY DEF SkuBlocker, Blocker
    <2> QED BY <2>1 DEF Constrained, UsesFallback
<1>5. (\A b \in QuotaBlockers : fine(b)) <=> Sized = {} \/ RegionQuota # "unknown"
    <2>1. CASE Sized = {}
        BY <2>1 DEF QuotaBlockers
    <2>2. CASE Sized # {} /\ RegionQuota = "unknown"
        BY <2>2 DEF QuotaBlockers, Blocker
    <2>3. CASE Sized # {} /\ RegionQuota # "unknown"
        <3>1. \A b \in QuotaBlockers : b = Blocker("quota_insufficient", "warning")
            BY <2>3 DEF QuotaBlockers
        <3>2. fine(Blocker("quota_insufficient", "warning"))
            BY DEF Blocker
        <3> QED BY <2>3, <3>1, <3>2
    <2> QED BY <2>1, <2>2, <2>3
<1> HIDE DEF fine
<1>6. (\A b \in Blockers : fine(b)) <=>
        /\ \A b \in {Blocker("missing_service", "critical")} : missing => fine(b)
        /\ \A b \in {Blocker("no_access", "critical")} : access[Target] # "ok" => fine(b)
        /\ \A r \in Constrained : fine(SkuBlocker(r))
        /\ \A b \in QuotaBlockers : fine(b)
    BY DEF Blockers
<1> QED BY <1>1, <1>2, <1>3, <1>4, <1>5, <1>6 DEF Sound

\* A requirement that was short and whose limit is raised is short or
\* satisfied after: its status does not become unknown.
LEMMA ShortStaysKnown ==
    ASSUME TypeOK, TypeOK', NEW r \in Requirement, Short(r), ~Satisfied(r)',
           NEW f \in Families, NEW n \in Amounts, LimitRaised(f, n) \/ GroupRaised(f, n)
    PROVE  Short(r)'
<1> DEFINE s == SubRows
           t == SubRows'
           g == GroupRows
           h == GroupRows'
<1>1. s \in RowMap /\ g \in RowMap /\ t \in RowMap /\ h \in RowMap
    BY SeenRowsType DEF TypeOK, SubRows, GroupRows, RowMap
<1>2. Grown(s, t) /\ Grown(g, h)
    BY RaiseStep
<1>3. access' = access /\ quotaStatus' = quotaStatus /\ groupStatus' = groupStatus
    BY DEF LimitRaised, GroupRaised
<1>4. Tier1(r) = BestRow(s, r) /\ Tier1(r)' = BestRow(t, r)
        /\ Tier2(r) = BestRow(g, r) /\ Tier2(r)' = BestRow(h, r)
    BY DEF Tier1, Tier2
<1> HIDE DEF s, t, g, h
<1>5. /\ Headroom(BestRow(s, r)) # None => Headroom(BestRow(t, r)) # None
      /\ Headroom(BestRow(g, r)) # None => Headroom(BestRow(h, r)) # None
    BY <1>1, <1>2, BestGrows
<1>6. Headroom(Tier1(r)') # None \/ Headroom(Tier1(r)) = None
    BY <1>4, <1>5
<1>7. Headroom(Tier2(r)') # None \/ Headroom(Tier2(r)) = None
    BY <1>4, <1>5
<1>8. /\ ~(access[Target] = "ok" /\ quotaStatus # "ok" /\ Headroom(Tier2(r)) = None)
      /\ \/ Headroom(Tier1(r)) # None
         \/ Headroom(Tier2(r)) # None
         \/ access[Target] = "ok" /\ groupStatus \in {"no_quota_group", "not_available"}
    BY DEF Short, RequirementStatus
<1>9. ~Covers(Tier1(r)', r.cores) /\ ~Covers(Tier2(r)', Shortfall(r)')
    BY DEF Satisfied, RequirementStatus
<1> QED BY <1>3, <1>6, <1>7, <1>8, <1>9 DEF Short, RequirementStatus

\* A region whose zones and accesses only grow stays deployable.
LEMMA OpeningStep ==
    ASSUME Deployable, UNCHANGED <<reqs, missing>>,
           UNCHANGED <<quotaStatus, row, groupStatus, groupRow>>,
           access'[Target] = access[Target],
           \A s \in Subs : access[s] = "ok" =>
               access'[s] = "ok" /\ \A f \in Families : zones[s][f] \subseteq zones'[s][f],
           TypeOK, TypeOK'
    PROVE  Deployable'
<1>1. \A f \in Families : AllZones(f) => AllZones(f)'
    <2> SUFFICES ASSUME NEW f \in Families, AllZones(f) PROVE AllZones(f)'
        OBVIOUS
    <2>1. f # NoFamily /\ Accessible # {} /\ ZonesOf(f) = Zones
        BY DEF AllZones, Found
    <2>2. Accessible \subseteq Accessible' /\ Accessible' \subseteq Subs
        BY DEF Accessible
    <2>3. ZonesOf(f) \subseteq ZonesOf(f)'
        BY <2>2 DEF ZonesOf, Accessible
    <2>4. ZonesOf(f)' \subseteq Zones
        BY DEF ZonesOf, Accessible, TypeOK
    <2> QED BY <2>1, <2>2, <2>3, <2>4 DEF AllZones, Found
<1>2. \A r \in reqs : r.primary \in Families /\ (AllZones(r.alt) => r.alt \in Families)
    BY ReqsType DEF TypeOK, Requirement, AllZones, Found
<1>3. \A r \in reqs : (AllZones(r.primary) \/ AllZones(r.alt))
                        => (AllZones(r.primary)' \/ AllZones(r.alt)')
    BY <1>1, <1>2
<1>4. SubRows' = SubRows /\ GroupRows' = GroupRows /\ Sized' = Sized
    BY DEF SubRows, GroupRows, Sized
<1>5. \A r : RequirementStatus(r)' = RequirementStatus(r)
    BY <1>4 DEF RequirementStatus, Tier1, Tier2, Shortfall
<1>6. RegionQuota' = RegionQuota
    BY <1>4, <1>5 DEF RegionQuota, Satisfied, Short
<1>7. Deployable' <=> Sound'
    BY DeployableIff, PTL
<1> QED BY <1>3, <1>4, <1>6, <1>7, DeployableIff DEF Sound

\* A region whose quota is known stays deployable when a limit is raised.
LEMMA RaiseKeeps ==
    ASSUME TypeOK, TypeOK', Deployable, \A r \in Sized : RequirementStatus(r) # "unknown",
           NEW f \in Families, NEW n \in Amounts, LimitRaised(f, n) \/ GroupRaised(f, n)
    PROVE  Deployable'
<1>1. UNCHANGED <<reqs, access, zones, missing>>
    BY DEF LimitRaised, GroupRaised
<1>2. Sized' = Sized /\ \A e : AllZones(e)' <=> AllZones(e)
    BY <1>1 DEF Sized, AllZones, Found, ZonesOf, Accessible
<1>3. \A r \in Sized : r \in Requirement /\ r \in reqs
    BY ReqsType DEF TypeOK, Sized
<1>4. \A r \in Sized : Satisfied(r) \/ Short(r)
    BY <1>3, StatusType DEF Satisfied, Short
<1>5. \A r \in Sized : Satisfied(r)' \/ Short(r)'
    <2> SUFFICES ASSUME NEW r \in Sized, ~Satisfied(r)' PROVE Short(r)'
        OBVIOUS
    <2>1. r \in Requirement
        BY <1>3
    <2>2. ~Satisfied(r)
        BY <2>1, RaiseStep, SatisfiedGrows
    <2> QED BY <1>4, <2>1, <2>2, ShortStaysKnown
<1>6. Sized' = {} \/ RegionQuota' # "unknown"
    BY <1>2, <1>5 DEF RegionQuota
<1>7. Deployable' <=> Sound'
    BY DeployableIff, PTL
<1> QED BY <1>1, <1>2, <1>6, <1>7, DeployableIff DEF Sound

\* An improvement never costs a region its verdict.
THEOREM ImprovementTheorem == Spec => ImprovementNeverHurts
<1> DEFINE A == \/ \E s \in Subs, f \in Families, z \in Zones : ZoneGranted(s, f, z)
                \/ \E s \in Subs : AccessRegained(s)
                \/ /\ \A r \in Sized : RequirementStatus(r) # "unknown"
                   /\ \E f \in Families, n \in Amounts : LimitRaised(f, n) \/ GroupRaised(f, n)
<1>1. TypeOK /\ TypeOK' /\ [Next]_vars => [A => (Deployable => Deployable')]_vars
    <2> SUFFICES ASSUME TypeOK, TypeOK', A, Deployable
                 PROVE  Deployable'
        OBVIOUS
    <2>0. access[Target] = "ok"
        BY DeployableIff DEF Sound
    <2>1. ASSUME NEW s \in Subs, NEW f \in Families, NEW z \in Zones, ZoneGranted(s, f, z)
          PROVE  Deployable'
        <3>1. /\ UNCHANGED <<reqs, missing, quotaStatus, row, groupStatus, groupRow, access>>
              /\ zones' = [zones EXCEPT ![s][f] = zones[s][f] \cup {z}]
            BY <2>1 DEF ZoneGranted
        <3>2. \A u \in Subs, e \in Families : zones[u][e] \subseteq zones'[u][e]
            BY <3>1 DEF TypeOK
        <3> QED BY <3>1, <3>2, OpeningStep
    <2>2. ASSUME NEW s \in Subs, AccessRegained(s)
          PROVE  Deployable'
        <3>1. /\ UNCHANGED <<reqs, missing, quotaStatus, row, groupStatus, groupRow, zones>>
              /\ access' = [access EXCEPT ![s] = "ok"]
              /\ access[s] # "ok"
            BY <2>2 DEF AccessRegained
        <3>2. \A u \in Subs : access[u] = "ok" => access'[u] = "ok"
            BY <3>1 DEF TypeOK
        <3>3. access'[Target] = access[Target]
            BY <2>0, <3>2, VerdictAssumption
        <3>4. \A u \in Subs : access[u] = "ok" =>
                access'[u] = "ok" /\ \A e \in Families : zones[u][e] \subseteq zones'[u][e]
            BY <3>1, <3>2
        <3> QED BY <3>1, <3>3, <3>4, OpeningStep
    <2>3. ASSUME NEW f \in Families, NEW n \in Amounts, LimitRaised(f, n) \/ GroupRaised(f, n),
                 \A r \in Sized : RequirementStatus(r) # "unknown"
          PROVE  Deployable'
        BY <2>3, RaiseKeeps
    <2> QED BY <2>1, <2>2, <2>3
<1>2. [][A => (Deployable => Deployable')]_vars <=> ImprovementNeverHurts
    BY PTL DEF ImprovementNeverHurts
<1> HIDE DEF A
<1> QED BY <1>1, <1>2, TypeCorrect, PTL DEF Spec

\* Whatever keeps a region from being deployable has an advice of its own kind.
THEOREM AdviceTheorem == Spec => []EveryBlockerHasAdvice
<1>1. TypeOK => EveryBlockerHasAdvice
    <2> SUFFICES ASSUME TypeOK PROVE EveryBlockerHasAdvice
        OBVIOUS
    <2>1. ASSUME ~Deployable
          PROVE  Recommendations \cap {"grant_access", "alt_region", "zonal_access"} # {}
        <3>1. \/ Blocked("no_access")
              \/ \E b \in Blockers : b.severity = "critical" /\ b.type # "no_access"
            BY <2>1 DEF Deployable, DeploymentVerdict, Blocked
        <3>2. \A b \in Blockers : b.severity = "critical" =>
                \/ b.type \in {"no_access", "missing_service"}
                \/ b.type = "zone_gap" /\ Accessible # {}
            <4>1. \A r \in reqs : r.primary # NoFamily
                BY ReqsType, VerdictAssumption DEF TypeOK, Requirement
            <4>2. \A r \in Constrained : SkuBlocker(r).severity = "critical" =>
                    \/ SkuBlocker(r).type = "no_access"
                    \/ SkuBlocker(r).type = "zone_gap" /\ Accessible # {}
                BY <4>1 DEF SkuBlocker, Blocker, Found, Constrained
            <4> QED BY <4>2 DEF Blockers, QuotaBlockers, Blocker
        <3>3. \/ Blocked("no_access")
              \/ Blocked("missing_service")
              \/ Blocked("zone_gap") /\ IsRestricted
            BY <3>1, <3>2 DEF Blocked, IsRestricted
        <3> QED BY <3>3 DEF Recommendations
    <2>2. ASSUME NEW r \in Sized, Short(r)
          PROVE  "quota_increase" \in Recommendations
        <3>1. RegionQuota # "unknown"
            BY <2>2 DEF RegionQuota
        <3>2. Blocker("quota_insufficient", "warning") \in Blockers
            BY <2>2, <3>1 DEF Blockers, QuotaBlockers
        <3>3. Blocked("quota_insufficient")
            BY <3>2 DEF Blocked, Blocker
        <3> QED BY <3>3 DEF Recommendations
    <2> QED BY <2>1, <2>2 DEF EveryBlockerHasAdvice
<1> QED BY <1>1, TypeCorrect, PTL
================================================================================
