------------------------ MODULE ReferenceData_proofs -------------------------
(***************************************************************************)
(* Proofs about what an analysis starts from and the table it ends in: the *)
(* custom entries (CatalogCache), the managed datasets (DatasetStore), the *)
(* BOMs (BomDefinitions) and the table of regions (RegionModel).           *)
(***************************************************************************)
EXTENDS CatalogCache, DatasetStore, BomDefinitions, RegionModel, FiniteSetTheorems, TLAPS

------------------------------------------------------------------------------
(***************************************************************************)
(* Proofs about the cache of custom entries, for any customers, kinds,     *)
(* names, threads, cap and number of slips.                                *)
(*                                                                         *)
(* EntriesSound is not inductive.  Counted adds what a request holds while *)
(* it goes from the cache to the table: nobody else works for a customer   *)
(* who is not shaken, so that what it read is still what there is.         *)
(***************************************************************************)
OnIt(t, c, k) == call[t].stage # "idle" /\ call[t].who = c /\ call[t].kind = k

Placed ==
    \A t \in Readers :
        call[t].stage # "idle" => call[t].who \in Users /\ call[t].kind \in Kinds

QueriesFresh ==
    \A t \in Readers :
        At(t, "store") /\ ~call[t].late => call[t].seen = table[call[t].who][call[t].kind]

Alone(c, k) == \A t, u \in Readers : OnIt(t, c, k) /\ OnIt(u, c, k) => t = u
SeenIsTable(c, k) ==
    \A t \in Readers : At(t, "store") /\ OnIt(t, c, k) => call[t].seen = table[c][k]
HotIsTable(c, k) ==
    hot[k] # Absent /\ hot[k].of = c =>
        \/ hot[k].list = table[c][k]
        \/ \E t \in Readers : At(t, "drop") /\ OnIt(t, c, k)
Room(c, k) ==
    \A t \in Readers :
        At(t, "write") /\ call[t].op = "add" /\ OnIt(t, c, k) => Size(table[c][k]) < MaxCustom

Counted ==
    \A c \in Users, k \in Kinds :
        <<c, k>> \notin shaken =>
            /\ Alone(c, k)
            /\ SeenIsTable(c, k)
            /\ HotIsTable(c, k)
            /\ Room(c, k)
            /\ Size(table[c][k]) <= MaxCustom

EntriesInv == CatalogTypeOK /\ Placed /\ QueriesFresh /\ CatalogFresh /\ Counted

------------------------------------------------------------------------------
\* The number of entries of a list is a natural number.
LEMMA SizeType == ASSUME NEW list \in Overlays PROVE Size(list) \in Nat
  <1>1. {n \in Entries : list[n] # Absent} \in SUBSET Entries
    OBVIOUS
  <1>2. IsFiniteSet({n \in Entries : list[n] # Absent})
    BY <1>1, CatalogAssumption, FS_Subset
  <1> QED
    BY <1>2, FS_CardinalityType DEF Size

\* A list of which every name but one is in another is at most one longer.
LEMMA SizeGrows ==
    ASSUME NEW list \in Overlays, NEW other \in Overlays, NEW n \in Entries,
           \A m \in Entries \ {n} : other[m] # Absent => list[m] # Absent
    PROVE  Size(other) <= Size(list) + 1
  <1> DEFINE S == {m \in Entries : list[m] # Absent}
             T == {m \in Entries : other[m] # Absent}
  <1>1. S \in SUBSET Entries /\ T \subseteq S \cup {n}
    OBVIOUS
  <1>2. IsFiniteSet(S)
    BY <1>1, CatalogAssumption, FS_Subset
  <1>3. IsFiniteSet(S \cup {n}) /\ Cardinality(S \cup {n}) <= Cardinality(S) + 1
    <2>1. IsFiniteSet(S \cup {n})
      BY <1>2, FS_AddElement
    <2>2. Cardinality(S) \in Nat
      BY <1>2, FS_CardinalityType
    <2>3. CASE n \in S
      <3>1. S \cup {n} = S
        BY <2>3
      <3> QED
        BY <3>1, <2>1, <2>2
    <2>4. CASE n \notin S
      BY <2>4, <1>2, <2>1, <2>2, FS_AddElement
    <2> QED
      BY <2>3, <2>4
  <1>4. Cardinality(T) <= Cardinality(S \cup {n})
    BY <1>1, <1>3, FS_Subset
  <1>5. IsFiniteSet(T)
    BY <1>1, <1>3, FS_Subset
  <1>6. Cardinality(T) \in Nat /\ Cardinality(S) \in Nat /\ Cardinality(S \cup {n}) \in Nat
    BY <1>2, <1>3, <1>5, FS_CardinalityType
  <1> HIDE DEF S, T
  <1>7. Cardinality(T) <= Cardinality(S) + 1
    BY <1>3, <1>4, <1>6
  <1> QED
    BY <1>7 DEF Size, S, T

\* A list whose names are all in another is no longer.
LEMMA SizeShrinks ==
    ASSUME NEW list \in Overlays, NEW other \in Overlays,
           \A m \in Entries : other[m] # Absent => list[m] # Absent
    PROVE  Size(other) <= Size(list)
  <1> DEFINE S == {m \in Entries : list[m] # Absent}
             T == {m \in Entries : other[m] # Absent}
  <1>1. S \in SUBSET Entries /\ T \subseteq S
    OBVIOUS
  <1>2. IsFiniteSet(S)
    BY <1>1, CatalogAssumption, FS_Subset
  <1>3. Cardinality(T) <= Cardinality(S)
    BY <1>1, <1>2, FS_Subset
  <1> QED
    BY <1>3 DEF Size

\* The empty list has no entries.
LEMMA SizeEmpty == Empty \in Overlays /\ Size(Empty) = 0
  <1>1. {n \in Entries : Empty[n] # Absent} = {}
    BY DEF Empty
  <1> QED
    BY <1>1, FS_EmptySet DEF Size, Empty, Overlays

\* A free thread is a call.
LEMMA FreeType == Free \in Call /\ Free.stage = "idle"
  BY DEF Free, Call, Empty, Overlays

\* What a request goes on to do when it has its list.
LEMMA DecidedFacts ==
    ASSUME NEW t \in Readers, call \in [Readers -> Call], NEW list
    PROVE  /\ Decided(t, list) \in Call
           /\ Decided(t, list).stage \in {"idle", "write"}
           /\ Decided(t, list).stage = "write" =>
                 /\ Size(list) < MaxCustom
                 /\ Decided(t, list).who = call[t].who
                 /\ Decided(t, list).kind = call[t].kind
                 /\ Decided(t, list).op = "add"
                 /\ call[t].op = "add"
  BY FreeType, SizeEmpty DEF Decided, Call

\* Overtaking marks the queries of that customer and kind as late, and nothing else.
LEMMA OvertakeFacts ==
    ASSUME call \in [Readers -> Call], NEW c, NEW k
    PROVE  /\ OvertakeQueries(call, c, k) \in [Readers -> Call]
           /\ \A t \in Readers :
                /\ OvertakeQueries(call, c, k)[t].stage = call[t].stage
                /\ OvertakeQueries(call, c, k)[t].op = call[t].op
                /\ OvertakeQueries(call, c, k)[t].who = call[t].who
                /\ OvertakeQueries(call, c, k)[t].kind = call[t].kind
                /\ OvertakeQueries(call, c, k)[t].seen = call[t].seen
                /\ call[t].late => OvertakeQueries(call, c, k)[t].late
                /\ call[t].stage = "store" /\ call[t].who = c /\ call[t].kind = k
                      => OvertakeQueries(call, c, k)[t].late
  <1>1. \A t \in Readers : call[t] \in Call
    OBVIOUS
  <1> QED
    BY <1>1 DEF OvertakeQueries, Call

------------------------------------------------------------------------------
\* A step of one thread that leaves table and cache alone keeps the invariant, if
\* the thread works for its customer alone and has seen his table as it is.
LEMMA ThreadStep ==
    ASSUME EntriesInv, NEW t \in Readers, NEW q \in Call,
           call' = [call EXCEPT ![t] = q],
           table' = table, hot' = hot, astray' = astray, slips' \in Nat,
           shaken \subseteq shaken', shaken' \subseteq Users \X Kinds,
           call[t].stage # "drop", q.stage # "drop",
           q.stage # "idle" =>
               /\ q.who \in Users /\ q.kind \in Kinds
               /\ \/ OnIt(t, q.who, q.kind)
                  \/ <<q.who, q.kind>> \in shaken'
                  \/ ~Busy(q.who, q.kind),
           q.stage = "store" => q.seen = table[q.who][q.kind],
           q.stage = "write" /\ q.op = "add" =>
               <<q.who, q.kind>> \in shaken' \/ Size(table[q.who][q.kind]) < MaxCustom
    PROVE  EntriesInv'
  <1> USE DEF EntriesInv
  <1>1. call \in [Readers -> Call] /\ call' \in [Readers -> Call]
    BY DEF CatalogTypeOK
  <1>2. call'[t] = q /\ \A u \in Readers \ {t} : call'[u] = call[u]
    BY <1>1
  <1>3. CatalogTypeOK'
    BY <1>1 DEF CatalogTypeOK
  <1>4. Placed'
    BY <1>2 DEF Placed
  <1>5. QueriesFresh'
    BY <1>2 DEF QueriesFresh, At
  <1>6. \A k \in Kinds : Pending(k)' <=> Pending(k)
    BY <1>2 DEF Pending, At
  <1>7. CatalogFresh'
    BY <1>6 DEF CatalogFresh, CacheIsTable
  <1>8. ASSUME NEW c \in Users, NEW k \in Kinds, <<c, k>> \notin shaken'
        PROVE  /\ Alone(c, k)' /\ SeenIsTable(c, k)' /\ HotIsTable(c, k)' /\ Room(c, k)'
               /\ Size(table[c][k])' <= MaxCustom
    <2>1. /\ Alone(c, k) /\ SeenIsTable(c, k) /\ HotIsTable(c, k) /\ Room(c, k)
          /\ Size(table[c][k]) <= MaxCustom
      BY <1>8 DEF Counted
    <2>2. Alone(c, k)'
      BY <1>2, <1>8, <2>1 DEF Alone, OnIt, Busy
    <2>3. SeenIsTable(c, k)'
      BY <1>2, <2>1 DEF SeenIsTable, OnIt, At
    <2>4. HotIsTable(c, k)'
      BY <1>2, <2>1 DEF HotIsTable, OnIt, At
    <2>5. Room(c, k)'
      BY <1>2, <1>8, <2>1 DEF Room, OnIt, At
    <2> QED
      BY <2>1, <2>2, <2>3, <2>4, <2>5
  <1>9. Counted'
    BY <1>8 DEF Counted
  <1> QED
    BY <1>3, <1>4, <1>5, <1>7, <1>9

\* The steps of one thread before it writes.
LEMMA AskKeeps ==
    ASSUME EntriesInv, NEW t \in Readers, NEW op \in {"list", "add", "delete"},
           NEW c \in Users, NEW k \in Kinds, Ask(t, op, c, k)
    PROVE  EntriesInv'
  <1> DEFINE q == [Free EXCEPT !.stage = IF op = "delete" THEN "write" ELSE "look",
                               !.op = op, !.who = c, !.kind = k]
  <1>1. /\ q \in Call /\ q.stage \in {"write", "look"} /\ q.who = c /\ q.kind = k
        /\ q.op = op /\ (q.stage = "write" => op = "delete")
    BY SizeEmpty DEF Free, Call
  <1>2. call' = [call EXCEPT ![t] = q]
    BY DEF Ask
  <1> HIDE DEF q
  <1>3. shaken \subseteq shaken' /\ shaken' \subseteq Users \X Kinds
    BY DEF Ask, Shake, EntriesInv, CatalogTypeOK
  <1>4. <<c, k>> \in shaken' \/ ~Busy(c, k)
    BY DEF Ask, Shake
  <1>5. slips' \in Nat /\ call[t].stage = "idle"
    BY DEF Ask, EntriesInv, CatalogTypeOK, At
  <1> QED
    BY <1>1, <1>2, <1>3, <1>4, <1>5, ThreadStep DEF Ask

LEMMA HitKeeps ==
    ASSUME EntriesInv, NEW t \in Readers, Hit(t)
    PROVE  EntriesInv'
  <1> DEFINE c == call[t].who  k == call[t].kind
  <1> USE DEF EntriesInv
  <1>1. /\ call \in [Readers -> Call] /\ call[t].stage = "look" /\ c \in Users /\ k \in Kinds
        /\ hot[k] # Absent
    BY DEF Hit, At, CatalogTypeOK, Placed
  <1>2. PICK q \in Call : /\ call' = [call EXCEPT ![t] = q]
                          /\ q = Decided(t, hot[k].list)
    BY <1>1, DecidedFacts DEF Hit
  <1>3. shaken \subseteq shaken' /\ shaken' \subseteq Users \X Kinds
    BY <1>1 DEF Hit, Shake, CatalogTypeOK
  <1>4. /\ q.stage \in {"idle", "write"}
        /\ q.stage = "write" => /\ Size(hot[k].list) < MaxCustom
                                /\ q.who = c /\ q.kind = k /\ q.op = "add" /\ call[t].op = "add"
    BY <1>1, <1>2, DecidedFacts
  <1>5. ASSUME q.stage = "write", <<c, k>> \notin shaken'
        PROVE  Size(table[c][k]) < MaxCustom
    <2>1. hot[k].of = c
      BY <1>1, <1>4, <1>5 DEF Hit, Shake
    <2>2. Alone(c, k) /\ HotIsTable(c, k)
      BY <1>1, <1>3, <1>5 DEF Counted
    <2>3. hot[k].list = table[c][k]
      BY <1>1, <2>1, <2>2 DEF Alone, HotIsTable, OnIt, At
    <2> QED
      BY <1>4, <1>5, <2>3
  <1>6. slips' \in Nat /\ table' = table /\ hot' = hot /\ astray' = astray
    BY DEF Hit, CatalogTypeOK
  <1>7. q.stage # "idle" => q.who \in Users /\ q.kind \in Kinds /\ OnIt(t, q.who, q.kind)
    BY <1>1, <1>4 DEF OnIt
  <1>8. call[t].stage # "drop" /\ q.stage # "drop" /\ q.stage # "store"
    BY <1>1, <1>4
  <1>9. q.stage = "write" /\ q.op = "add" =>
            <<q.who, q.kind>> \in shaken' \/ Size(table[q.who][q.kind]) < MaxCustom
    BY <1>4, <1>5
  <1> HIDE DEF EntriesInv
  <1> QED
    BY <1>2, <1>3, <1>6, <1>7, <1>8, <1>9, ThreadStep

LEMMA MissKeeps ==
    ASSUME EntriesInv, NEW t \in Readers, Miss(t)
    PROVE  EntriesInv'
  <1>1. /\ call \in [Readers -> Call] /\ call[t] \in Call /\ call[t].stage = "look"
        /\ call[t].who \in Users /\ call[t].kind \in Kinds
    BY DEF EntriesInv, Miss, At, CatalogTypeOK, Placed
  <1> DEFINE q == [call[t] EXCEPT !.stage = "query"]
  <1>2. q \in Call /\ q.stage = "query" /\ q.who = call[t].who /\ q.kind = call[t].kind
    BY <1>1 DEF Call
  <1>3. call' = [call EXCEPT ![t] = q]
    BY <1>1 DEF Miss, Call
  <1> HIDE DEF q
  <1>4. /\ table' = table /\ hot' = hot /\ astray' = astray /\ slips' \in Nat /\ shaken' = shaken
        /\ shaken' \subseteq Users \X Kinds
    BY DEF Miss, EntriesInv, CatalogTypeOK
  <1> QED
    BY <1>1, <1>2, <1>3, <1>4, ThreadStep DEF OnIt

LEMMA QueryKeeps ==
    ASSUME EntriesInv, NEW t \in Readers, Query(t)
    PROVE  EntriesInv'
  <1>1. /\ call \in [Readers -> Call] /\ call[t] \in Call /\ call[t].stage = "query"
        /\ call[t].who \in Users /\ call[t].kind \in Kinds
        /\ table[call[t].who][call[t].kind] \in Overlays
    BY DEF EntriesInv, Query, At, CatalogTypeOK, Placed
  <1> DEFINE q == [call[t] EXCEPT !.stage = "store",
                                  !.seen = table[call[t].who][call[t].kind]]
  <1>2. /\ q \in Call /\ q.stage = "store" /\ q.who = call[t].who /\ q.kind = call[t].kind
        /\ q.seen = table[call[t].who][call[t].kind]
    BY <1>1 DEF Call
  <1>3. call' = [call EXCEPT ![t] = q]
    BY <1>1 DEF Query, Call
  <1> HIDE DEF q
  <1>4. /\ table' = table /\ hot' = hot /\ astray' = astray /\ slips' \in Nat /\ shaken' = shaken
        /\ shaken' \subseteq Users \X Kinds
    BY DEF Query, EntriesInv, CatalogTypeOK
  <1> QED
    BY <1>1, <1>2, <1>3, <1>4, ThreadStep DEF OnIt

LEMMA QueryFailsKeeps ==
    ASSUME EntriesInv, NEW t \in Readers, QueryFails(t)
    PROVE  EntriesInv'
  <1>1. /\ call \in [Readers -> Call] /\ call[t].stage = "query"
        /\ call[t].who \in Users /\ call[t].kind \in Kinds
    BY DEF EntriesInv, QueryFails, At, CatalogTypeOK, Placed
  <1>2. PICK q \in Call : q = Decided(t, Empty) /\ call' = [call EXCEPT ![t] = q]
    BY <1>1, DecidedFacts DEF QueryFails
  <1>3. /\ q.stage \in {"idle", "write"}
        /\ q.stage = "write" => q.who = call[t].who /\ q.kind = call[t].kind
    BY <1>1, <1>2, DecidedFacts
  <1>4. /\ table' = table /\ hot' = hot /\ astray' = astray /\ slips' \in Nat
        /\ shaken' = shaken \cup {<<call[t].who, call[t].kind>>}
        /\ shaken' \subseteq Users \X Kinds
    BY <1>1 DEF QueryFails, Slip, Shake, EntriesInv, CatalogTypeOK
  <1> QED
    BY <1>1, <1>2, <1>3, <1>4, ThreadStep DEF OnIt

LEMMA LeaveKeeps ==
    ASSUME EntriesInv, NEW t \in Readers, call[t].stage # "drop", Leave(t),
           table' = table, hot' = hot, astray' = astray, shaken' = shaken, slips' \in Nat
    PROVE  EntriesInv'
  <1>1. call' = [call EXCEPT ![t] = Free]
    BY DEF Leave
  <1>2. shaken' \subseteq Users \X Kinds
    BY DEF EntriesInv, CatalogTypeOK
  <1> QED
    BY <1>1, <1>2, FreeType, ThreadStep

LEMMA WriteFailsKeeps ==
    ASSUME EntriesInv, NEW t \in Readers, WriteFails(t)
    PROVE  EntriesInv'
  <1>1. call[t].stage # "drop" /\ slips' \in Nat
    BY DEF WriteFails, Slip, At, EntriesInv, CatalogTypeOK
  <1> QED
    BY <1>1, LeaveKeeps DEF WriteFails

------------------------------------------------------------------------------
\* Filling the cache.
LEMMA StoreKeeps ==
    ASSUME EntriesInv, NEW t \in Readers, Store(t)
    PROVE  EntriesInv'
  <1> DEFINE c == call[t].who  k == call[t].kind  o == call[t].seen
  <1> USE DEF EntriesInv
  <1>1. /\ call \in [Readers -> Call] /\ call[t] \in Call /\ call[t].stage = "store"
        /\ c \in Users /\ k \in Kinds /\ o \in Overlays
        /\ call[t].late \in BOOLEAN
    BY DEF Store, At, CatalogTypeOK, Placed, Call
  <1>2. PICK q \in Call : q = Decided(t, o) /\ call' = [call EXCEPT ![t] = q]
    BY <1>1, DecidedFacts DEF Store
  <1>3. /\ q.stage \in {"idle", "write"}
        /\ q.stage = "write" => /\ Size(o) < MaxCustom
                                /\ q.who = c /\ q.kind = k
    BY <1>1, <1>2, DecidedFacts
  <1>4. /\ call' \in [Readers -> Call] /\ call'[t] = q
        /\ \A u \in Readers \ {t} : call'[u] = call[u]
    BY <1>1, <1>2
  <1> DEFINE kept == [of |-> c, list |-> o]
  <1>5. kept \in Cached /\ kept # Absent /\ kept.of = c /\ kept.list = o
    BY <1>1, CatalogAssumption DEF Cached, Overlays
  <1>6. /\ hot' = [hot EXCEPT ![k] = kept] /\ table' = table /\ shaken' = shaken
        /\ astray' = IF call[t].late THEN astray \cup {k} ELSE astray \ {k}
    BY DEF Store
  <1> HIDE DEF kept
  <1>7. /\ hot' \in [Kinds -> Cached \cup {Absent}] /\ hot'[k] = kept
        /\ \A j \in Kinds \ {k} : hot'[j] = hot[j]
    BY <1>1, <1>5, <1>6 DEF CatalogTypeOK
  <1>8. CatalogTypeOK'
    BY <1>1, <1>4, <1>6, <1>7 DEF CatalogTypeOK, Store
  <1>9. Placed'
    BY <1>1, <1>3, <1>4 DEF Placed
  <1>10. QueriesFresh'
    BY <1>3, <1>4, <1>6 DEF QueriesFresh, At
  <1>11. CatalogFresh'
    <2> SUFFICES ASSUME NEW j \in Kinds, j \notin astray', hot'[j] # Absent, ~Pending(j)'
                 PROVE  CacheIsTable(j)'
      BY DEF CatalogFresh
    <2>1. CASE j = k
      BY <2>1, <1>1, <1>5, <1>6, <1>7 DEF QueriesFresh, CacheIsTable, At
    <2>2. CASE j # k
      <3>1. j \notin astray /\ hot[j] # Absent /\ hot'[j] = hot[j]
        BY <2>2, <1>6, <1>7
      <3>2. ~Pending(j)
        <4> SUFFICES ASSUME NEW u \in Readers, call[u].stage = "drop",
                            call[u].kind = j, call[u].who = hot[j].of
                     PROVE  FALSE
          BY DEF Pending, At
        <4>1. call'[u] = call[u]
          BY <1>1, <1>4
        <4> QED
          BY <4>1, <3>1 DEF Pending, At
      <3> QED
        BY <3>1, <3>2, <2>2, <1>6, <1>7 DEF CatalogFresh, CacheIsTable
    <2> QED
      BY <2>1, <2>2
  <1>12. ASSUME NEW d \in Users, NEW j \in Kinds, <<d, j>> \notin shaken'
         PROVE  /\ Alone(d, j)' /\ SeenIsTable(d, j)' /\ HotIsTable(d, j)' /\ Room(d, j)'
                /\ Size(table[d][j])' <= MaxCustom
    <2>1. /\ Alone(d, j) /\ SeenIsTable(d, j) /\ HotIsTable(d, j) /\ Room(d, j)
          /\ Size(table[d][j]) <= MaxCustom
      BY <1>12, <1>6 DEF Counted
    <2>2. Alone(d, j)'
      BY <1>1, <1>3, <1>4, <2>1 DEF Alone, OnIt
    <2>3. SeenIsTable(d, j)'
      BY <1>3, <1>4, <1>6, <2>1 DEF SeenIsTable, OnIt, At
    <2>4. OnIt(t, d, j) => o = table[d][j]
      BY <1>1, <2>1 DEF SeenIsTable, At
    <2>5. HotIsTable(d, j)'
      <3>1. CASE j = k
        BY <3>1, <2>4, <1>1, <1>5, <1>6, <1>7 DEF HotIsTable, OnIt
      <3>2. CASE j # k
        BY <3>2, <2>1, <1>1, <1>4, <1>6, <1>7 DEF HotIsTable, OnIt, At
      <3> QED
        BY <3>1, <3>2
    <2>6. Room(d, j)'
      BY <2>1, <2>4, <1>1, <1>3, <1>4, <1>6 DEF Room, OnIt, At
    <2> QED
      BY <2>1, <2>2, <2>3, <2>5, <2>6, <1>6
  <1>13. Counted'
    BY <1>12 DEF Counted
  <1> QED
    BY <1>8, <1>9, <1>10, <1>11, <1>13

\* Emptying it.
LEMMA InvalidateKeeps ==
    ASSUME EntriesInv, NEW t \in Readers, Invalidate(t)
    PROVE  EntriesInv'
  <1> USE DEF EntriesInv
  <1> DEFINE k == call[t].kind
  <1>1. /\ call \in [Readers -> Call] /\ call' = [call EXCEPT ![t] = Free]
        /\ call[t].stage = "drop" /\ k \in Kinds
    BY DEF Invalidate, Leave, At, CatalogTypeOK, Placed
  <1>2. /\ call' \in [Readers -> Call] /\ call'[t].stage = "idle"
        /\ \A u \in Readers \ {t} : call'[u] = call[u]
    BY <1>1, FreeType
  <1>3. /\ hot' \in [Kinds -> Cached \cup {Absent}] /\ hot'[k] = Absent
        /\ \A j \in Kinds \ {k} : hot'[j] = hot[j]
        /\ table' = table /\ shaken' = shaken /\ astray' = astray \ {k}
    BY <1>1 DEF Invalidate, CatalogTypeOK
  <1>4. CatalogTypeOK'
    BY <1>2, <1>3 DEF CatalogTypeOK, Invalidate
  <1>5. Placed' /\ QueriesFresh'
    BY <1>2, <1>3 DEF Placed, QueriesFresh, At
  <1>6. CatalogFresh'
    <2> SUFFICES ASSUME NEW j \in Kinds, j \notin astray', hot'[j] # Absent, ~Pending(j)'
                 PROVE  CacheIsTable(j)'
      BY DEF CatalogFresh
    <2>1. j # k /\ j \notin astray /\ hot[j] # Absent /\ hot'[j] = hot[j]
      BY <1>3
    <2>2. ~Pending(j)
      <3> SUFFICES ASSUME NEW u \in Readers, call[u].stage = "drop",
                          call[u].kind = j, call[u].who = hot[j].of
                   PROVE  FALSE
        BY DEF Pending, At
      <3>1. u # t
        BY <2>1
      <3> QED
        BY <3>1, <2>1, <1>2 DEF Pending, At
    <2> QED
      BY <2>1, <2>2, <1>3 DEF CatalogFresh, CacheIsTable
  <1>7. ASSUME NEW d \in Users, NEW j \in Kinds, <<d, j>> \notin shaken'
        PROVE  /\ Alone(d, j)' /\ SeenIsTable(d, j)' /\ HotIsTable(d, j)' /\ Room(d, j)'
               /\ Size(table[d][j])' <= MaxCustom
    <2>1. /\ Alone(d, j) /\ SeenIsTable(d, j) /\ HotIsTable(d, j) /\ Room(d, j)
          /\ Size(table[d][j]) <= MaxCustom
      BY <1>7, <1>3 DEF Counted
    <2>2. Alone(d, j)' /\ SeenIsTable(d, j)' /\ Room(d, j)'
      BY <1>2, <1>3, <2>1 DEF Alone, SeenIsTable, Room, OnIt, At
    <2>3. HotIsTable(d, j)'
      BY <1>1, <1>2, <1>3, <2>1 DEF HotIsTable, OnIt, At
    <2> QED
      BY <2>1, <2>2, <2>3, <1>3
  <1>8. Counted'
    BY <1>7 DEF Counted
  <1> QED
    BY <1>4, <1>5, <1>6, <1>8

\* A write to the table of a customer: his queries are overtaken, and the thread
\* is about to empty the cache.
LEMMA WriteStep ==
    ASSUME EntriesInv, NEW t \in Readers, call[t].stage = "write",
           NEW o \in Overlays,
           table' = [table EXCEPT ![call[t].who][call[t].kind] = o],
           call' = [OvertakeQueries(call, call[t].who, call[t].kind) EXCEPT ![t].stage = "drop"],
           hot' = hot, slips' = slips, astray' = astray, shaken' = shaken,
           <<call[t].who, call[t].kind>> \notin shaken => Size(o) <= MaxCustom
    PROVE  EntriesInv'
  <1> USE DEF EntriesInv
  <1> DEFINE c == call[t].who  k == call[t].kind
             over == OvertakeQueries(call, c, k)
  <1>1. /\ call \in [Readers -> Call] /\ c \in Users /\ k \in Kinds
    BY DEF CatalogTypeOK, Placed
  <1>2. /\ over \in [Readers -> Call]
        /\ \A u \in Readers : /\ over[u].stage = call[u].stage /\ over[u].op = call[u].op
                              /\ over[u].who = call[u].who /\ over[u].kind = call[u].kind
                              /\ over[u].seen = call[u].seen
                              /\ call[u].late => over[u].late
                              /\ call[u].stage = "store" /\ call[u].who = c /\ call[u].kind = k
                                    => over[u].late
    BY <1>1, OvertakeFacts
  <1> HIDE DEF over
  <1>3. call' = [over EXCEPT ![t].stage = "drop"]
    BY DEF over
  <1>4. /\ call' \in [Readers -> Call] /\ call'[t].stage = "drop"
        /\ call'[t].who = c /\ call'[t].kind = k
        /\ \A u \in Readers \ {t} : call'[u] = over[u]
    <2>1. over[t] \in Call /\ over[t].who = c /\ over[t].kind = k
      BY <1>2
    <2> DEFINE q == [over[t] EXCEPT !.stage = "drop"]
    <2>2. q \in Call /\ q.stage = "drop" /\ q.who = c /\ q.kind = k
      BY <2>1 DEF Call
    <2>3. call' = [over EXCEPT ![t] = q]
      BY <1>3
    <2> HIDE DEF q
    <2> QED
      BY <1>2, <2>2, <2>3
  <1>5. /\ table' \in [Users -> [Kinds -> Overlays]] /\ table'[c][k] = o
        /\ \A d \in Users, j \in Kinds : <<d, j>> # <<c, k>> => table'[d][j] = table[d][j]
    BY <1>1 DEF CatalogTypeOK
  <1>6. CatalogTypeOK'
    BY <1>4, <1>5 DEF CatalogTypeOK
  <1>7. Placed'
    BY <1>1, <1>2, <1>4 DEF Placed
  <1>8. QueriesFresh'
    <2> SUFFICES ASSUME NEW u \in Readers, At(u, "store")', ~call'[u].late
                 PROVE  call'[u].seen = table'[call'[u].who][call'[u].kind]
      BY DEF QueriesFresh
    <2>1. u # t
      BY <1>4 DEF At
    <2>2. /\ call[u].stage = "store" /\ ~call[u].late
          /\ call'[u].who = call[u].who /\ call'[u].kind = call[u].kind
          /\ call'[u].seen = call[u].seen
          /\ <<call[u].who, call[u].kind>> # <<c, k>>
      BY <2>1, <1>2, <1>4 DEF At
    <2>3. call[u].who \in Users /\ call[u].kind \in Kinds
      BY <2>2 DEF Placed
    <2>4. table'[call[u].who][call[u].kind] = table[call[u].who][call[u].kind]
      BY <2>2, <2>3, <1>5
    <2>5. call[u].seen = table[call[u].who][call[u].kind]
      BY <2>2 DEF QueriesFresh, At
    <2> QED
      BY <2>2, <2>4, <2>5
  <1>9. CatalogFresh'
    <2> SUFFICES ASSUME NEW j \in Kinds, j \notin astray', hot'[j] # Absent, ~Pending(j)'
                 PROVE  CacheIsTable(j)'
      BY DEF CatalogFresh
    <2>1. ~(j = k /\ hot[j].of = c)
      BY <1>4 DEF Pending, At
    <2>2. ~Pending(j)
      <3> SUFFICES ASSUME NEW u \in Readers, call[u].stage = "drop",
                          call[u].kind = j, call[u].who = hot[j].of
                   PROVE  FALSE
        BY DEF Pending, At
      <3>1. u # t
        OBVIOUS
      <3>2. call'[u] = over[u]
        BY <3>1, <1>4
      <3>3. call'[u].stage = "drop" /\ call'[u].kind = j /\ call'[u].who = hot'[j].of
        BY <3>2, <1>2
      <3> QED
        BY <3>3 DEF Pending, At
    <2>3. hot[j].of \in Users
      BY DEF CatalogTypeOK, Cached
    <2> QED
      BY <2>1, <2>2, <2>3, <1>5 DEF CatalogFresh, CacheIsTable
  <1>10. ASSUME NEW d \in Users, NEW j \in Kinds, <<d, j>> \notin shaken'
         PROVE  /\ Alone(d, j)' /\ SeenIsTable(d, j)' /\ HotIsTable(d, j)' /\ Room(d, j)'
                /\ Size(table[d][j])' <= MaxCustom
    <2>1. /\ Alone(d, j) /\ SeenIsTable(d, j) /\ HotIsTable(d, j) /\ Room(d, j)
          /\ Size(table[d][j]) <= MaxCustom
      BY <1>10 DEF Counted
    <2>2. \A u \in Readers : OnIt(u, d, j)' <=> OnIt(u, d, j)
      BY <1>2, <1>4 DEF OnIt
    <2>3. Alone(d, j)'
      BY <2>1, <2>2 DEF Alone
    <2>4. CASE <<d, j>> = <<c, k>>
      <3>1. \A u \in Readers : OnIt(u, d, j)' => u = t
        BY <2>1, <2>2, <2>4 DEF Alone, OnIt
      <3>2. SeenIsTable(d, j)' /\ HotIsTable(d, j)' /\ Room(d, j)'
        BY <3>1, <1>4, <2>4 DEF SeenIsTable, HotIsTable, Room, At, OnIt
      <3> QED
        BY <3>2, <2>3, <2>4, <1>5, <1>10
    <2>5. CASE <<d, j>> # <<c, k>>
      <3>1. table'[d][j] = table[d][j]
        BY <1>5, <2>5
      <3>2. ~OnIt(t, d, j)
        BY <2>5 DEF OnIt
      <3>3. SeenIsTable(d, j)'
        BY <3>1, <3>2, <2>1, <2>2, <1>2, <1>4 DEF SeenIsTable, At
      <3>4. HotIsTable(d, j)'
        BY <3>1, <3>2, <2>1, <2>2, <1>2, <1>4 DEF HotIsTable, At
      <3>5. Room(d, j)'
        BY <3>1, <3>2, <2>1, <2>2, <1>2, <1>4 DEF Room, At
      <3> QED
        BY <3>1, <3>3, <3>4, <3>5, <2>1, <2>3
    <2> QED
      BY <2>4, <2>5
  <1>11. Counted'
    BY <1>10 DEF Counted
  <1> QED
    BY <1>6, <1>7, <1>8, <1>9, <1>11

LEMMA AddKeeps ==
    ASSUME EntriesInv, NEW t \in Readers, NEW n \in Entries, NEW f \in Facts, Add(t, n, f)
    PROVE  EntriesInv'
  <1> DEFINE c == call[t].who  k == call[t].kind  o == [table[c][k] EXCEPT ![n] = f]
  <1>1. /\ call[t].stage = "write" /\ call[t].op = "add" /\ c \in Users /\ k \in Kinds
        /\ table \in [Users -> [Kinds -> Overlays]]
    BY DEF Add, At, EntriesInv, CatalogTypeOK, Placed
  <1>2. o \in Overlays /\ \A m \in Entries \ {n} : o[m] # Absent => table[c][k][m] # Absent
    BY <1>1 DEF Overlays
  <1>3. table' = [table EXCEPT ![c][k] = o]
    BY <1>1, <1>2 DEF Add
  <1>4. Size(o) <= Size(table[c][k]) + 1 /\ Size(o) \in Nat /\ Size(table[c][k]) \in Nat
    BY <1>1, <1>2, SizeGrows, SizeType
  <1> HIDE DEF o
  <1>5. <<c, k>> \notin shaken => Size(table[c][k]) < MaxCustom
    BY <1>1 DEF EntriesInv, Counted, Room, At, OnIt
  <1>6. <<c, k>> \notin shaken => Size(o) <= MaxCustom
    BY <1>4, <1>5, CatalogAssumption
  <1> QED
    BY <1>1, <1>2, <1>3, <1>6, WriteStep DEF Add

LEMMA DeleteKeeps ==
    ASSUME EntriesInv, NEW t \in Readers, NEW n \in Entries, Delete(t, n)
    PROVE  EntriesInv'
  <1> DEFINE c == call[t].who  k == call[t].kind  o == [table[c][k] EXCEPT ![n] = Absent]
  <1>1. /\ call[t].stage = "write" /\ c \in Users /\ k \in Kinds
        /\ table \in [Users -> [Kinds -> Overlays]] /\ slips \in Nat
    BY DEF Delete, At, EntriesInv, CatalogTypeOK, Placed
  <1>2. CASE table[c][k][n] = Absent
    BY <1>1, <1>2, LeaveKeeps DEF Delete
  <1>3. CASE table[c][k][n] # Absent
    <2>1. o \in Overlays /\ \A m \in Entries : o[m] # Absent => table[c][k][m] # Absent
      BY <1>1 DEF Overlays
    <2>2. table' = [table EXCEPT ![c][k] = o]
      BY <1>1, <1>3, <2>1 DEF Delete
    <2>3. Size(o) <= Size(table[c][k]) /\ Size(o) \in Nat /\ Size(table[c][k]) \in Nat
      BY <1>1, <2>1, SizeShrinks, SizeType
    <2> HIDE DEF o
    <2>4. <<c, k>> \notin shaken => Size(table[c][k]) <= MaxCustom
      BY <1>1 DEF EntriesInv, Counted
    <2>5. <<c, k>> \notin shaken => Size(o) <= MaxCustom
      BY <2>3, <2>4, CatalogAssumption
    <2> QED
      BY <1>1, <1>3, <2>1, <2>2, <2>5, WriteStep DEF Delete
  <1> QED
    BY <1>2, <1>3

------------------------------------------------------------------------------
\* A store that is replaced overtakes queries and cached list of its customer.
LEMMA ReplaceStoreKeeps ==
    ASSUME EntriesInv, NEW c \in Users, ReplaceStore(c)
    PROVE  EntriesInv'
  <1> USE DEF EntriesInv
  <1>1. PICK k \in Kinds, o \in Overlays :
            /\ Size(o) <= MaxCustom
            /\ table' = [table EXCEPT ![c][k] = o]
            /\ call' = OvertakeQueries(call, c, k)
            /\ astray' = IF hot[k] # Absent /\ hot[k].of = c THEN astray \cup {k} ELSE astray
            /\ IF Busy(c, k) \/ (hot[k] # Absent /\ hot[k].of = c)
               THEN Shake(c, k) ELSE UNCHANGED shaken
    BY DEF ReplaceStore
  <1>2. hot' = hot /\ slips' \in Nat /\ call \in [Readers -> Call]
    BY DEF ReplaceStore, Slip, CatalogTypeOK
  <1>3. /\ call' \in [Readers -> Call]
        /\ \A u \in Readers : /\ call'[u].stage = call[u].stage /\ call'[u].op = call[u].op
                              /\ call'[u].who = call[u].who /\ call'[u].kind = call[u].kind
                              /\ call'[u].seen = call[u].seen
                              /\ call[u].late => call'[u].late
                              /\ call[u].stage = "store" /\ call[u].who = c /\ call[u].kind = k
                                    => call'[u].late
    BY <1>1, <1>2, OvertakeFacts
  <1>4. /\ table' \in [Users -> [Kinds -> Overlays]] /\ table'[c][k] = o
        /\ \A d \in Users, j \in Kinds : <<d, j>> # <<c, k>> => table'[d][j] = table[d][j]
    BY <1>1 DEF CatalogTypeOK
  <1>5. /\ shaken \subseteq shaken' /\ shaken' \subseteq Users \X Kinds
        /\ astray \subseteq astray' /\ astray' \subseteq Kinds
        /\ hot[k] # Absent /\ hot[k].of = c => k \in astray'
        /\ <<c, k>> \notin shaken' => ~Busy(c, k) /\ ~(hot[k] # Absent /\ hot[k].of = c)
    BY <1>1 DEF Shake, CatalogTypeOK
  <1>6. CatalogTypeOK'
    BY <1>2, <1>3, <1>4, <1>5 DEF CatalogTypeOK
  <1>7. Placed'
    BY <1>3 DEF Placed
  <1>8. QueriesFresh'
    <2> SUFFICES ASSUME NEW u \in Readers, At(u, "store")', ~call'[u].late
                 PROVE  call'[u].seen = table'[call'[u].who][call'[u].kind]
      BY DEF QueriesFresh
    <2>1. /\ call[u].stage = "store" /\ ~call[u].late
          /\ <<call[u].who, call[u].kind>> # <<c, k>>
      BY <1>3 DEF At
    <2>2. call[u].who \in Users /\ call[u].kind \in Kinds
      BY <2>1 DEF Placed
    <2> QED
      BY <2>1, <2>2, <1>3, <1>4 DEF QueriesFresh, At
  <1>9. CatalogFresh'
    <2> SUFFICES ASSUME NEW j \in Kinds, j \notin astray', hot'[j] # Absent, ~Pending(j)'
                 PROVE  CacheIsTable(j)'
      BY DEF CatalogFresh
    <2>1. ~Pending(j)
      BY <1>2, <1>3 DEF Pending, At
    <2>2. j \notin astray /\ ~(j = k /\ hot[j].of = c)
      BY <1>2, <1>5
    <2>3. hot[j].of \in Users
      BY <1>2 DEF CatalogTypeOK, Cached
    <2> QED
      BY <2>1, <2>2, <2>3, <1>2, <1>4 DEF CatalogFresh, CacheIsTable
  <1>10. ASSUME NEW d \in Users, NEW j \in Kinds, <<d, j>> \notin shaken'
         PROVE  /\ Alone(d, j)' /\ SeenIsTable(d, j)' /\ HotIsTable(d, j)' /\ Room(d, j)'
                /\ Size(table[d][j])' <= MaxCustom
    <2>1. /\ Alone(d, j) /\ SeenIsTable(d, j) /\ HotIsTable(d, j) /\ Room(d, j)
          /\ Size(table[d][j]) <= MaxCustom
      BY <1>10, <1>5 DEF Counted
    <2>2. \A u \in Readers : OnIt(u, d, j)' <=> OnIt(u, d, j)
      BY <1>3 DEF OnIt
    <2>3. Alone(d, j)'
      BY <2>1, <2>2 DEF Alone
    <2>4. CASE <<d, j>> = <<c, k>>
      <3>1. \A u \in Readers : ~OnIt(u, d, j)'
        BY <2>2, <2>4, <1>5, <1>10 DEF Busy, OnIt
      <3>2. SeenIsTable(d, j)' /\ HotIsTable(d, j)' /\ Room(d, j)'
        BY <3>1, <1>2, <1>5, <1>10, <2>4 DEF SeenIsTable, HotIsTable, Room
      <3> QED
        BY <3>2, <2>3, <2>4, <1>1, <1>4
    <2>5. CASE <<d, j>> # <<c, k>>
      <3>1. table'[d][j] = table[d][j]
        BY <1>4, <2>5
      <3>2. SeenIsTable(d, j)' /\ HotIsTable(d, j)' /\ Room(d, j)'
        BY <3>1, <2>1, <2>2, <1>2, <1>3 DEF SeenIsTable, HotIsTable, Room, At
      <3> QED
        BY <3>1, <3>2, <2>1, <2>3
    <2> QED
      BY <2>4, <2>5
  <1>11. Counted'
    BY <1>10 DEF Counted
  <1> QED
    BY <1>6, <1>7, <1>8, <1>9, <1>11

LEMMA RestartKeeps ==
    ASSUME EntriesInv, RestartHost
    PROVE  EntriesInv'
  <1> USE DEF EntriesInv
  <1>1. /\ \A t \in Readers : call'[t].stage = "idle"
        /\ \A k \in Kinds : hot'[k] = Absent
        /\ table' = table /\ shaken' = shaken
    BY FreeType DEF RestartHost
  <1>2. CatalogTypeOK'
    BY FreeType DEF RestartHost, Slip, CatalogTypeOK
  <1>3. Placed' /\ QueriesFresh' /\ CatalogFresh'
    BY <1>1 DEF Placed, QueriesFresh, CatalogFresh, At
  <1>4. Counted'
    BY <1>1 DEF Counted, Alone, SeenIsTable, HotIsTable, Room, At, OnIt
  <1> QED
    BY <1>2, <1>3, <1>4

------------------------------------------------------------------------------
LEMMA EntriesInit == CatalogInit => EntriesInv
  <1> SUFFICES ASSUME CatalogInit PROVE EntriesInv
    OBVIOUS
  <1>1. /\ \A t \in Readers : call[t].stage = "idle"
        /\ \A k \in Kinds : hot[k] = Absent
        /\ \A c \in Users, k \in Kinds : table[c][k] = Empty
    BY FreeType DEF CatalogInit
  <1>2. CatalogTypeOK
    BY FreeType, SizeEmpty DEF CatalogInit, CatalogTypeOK
  <1>3. Placed /\ QueriesFresh /\ CatalogFresh
    BY <1>1 DEF Placed, QueriesFresh, CatalogFresh, At
  <1>4. Counted
    BY <1>1, SizeEmpty, CatalogAssumption
       DEF Counted, Alone, SeenIsTable, HotIsTable, Room, At, OnIt
  <1> QED
    BY <1>2, <1>3, <1>4 DEF EntriesInv

LEMMA EntriesStep == EntriesInv /\ [CatalogNext]_catalogVars => EntriesInv'
  <1> SUFFICES ASSUME EntriesInv, [CatalogNext]_catalogVars PROVE EntriesInv'
    OBVIOUS
  <1>1. CASE UNCHANGED catalogVars
    BY <1>1 DEF catalogVars, EntriesInv, CatalogTypeOK, Placed, QueriesFresh, CatalogFresh,
                Counted, Pending, CacheIsTable, Alone, SeenIsTable, HotIsTable, Room, At, OnIt
  <1>2. ASSUME NEW t \in Readers,
               \/ \E op \in {"list", "add", "delete"}, c \in Users, k \in Kinds : Ask(t, op, c, k)
               \/ Hit(t) \/ Miss(t) \/ Query(t) \/ QueryFails(t) \/ Store(t)
               \/ \E n \in Entries : Delete(t, n) \/ \E f \in Facts : Add(t, n, f)
               \/ WriteFails(t) \/ Invalidate(t)
        PROVE  EntriesInv'
    BY <1>2, AskKeeps, HitKeeps, MissKeeps, QueryKeeps, QueryFailsKeeps, StoreKeeps,
       DeleteKeeps, AddKeeps, WriteFailsKeeps, InvalidateKeeps
  <1> QED
    BY <1>1, <1>2, ReplaceStoreKeeps, RestartKeeps DEF CatalogNext

\* Every query, write and invalidation keeps tables, caches and calls in their
\* types (bom_catalog.py).
THEOREM CatalogTypeCorrect == CatalogSpec => []CatalogTypeOK
  <1>1. EntriesInv => CatalogTypeOK
    BY DEF EntriesInv
  <1> QED
    BY <1>1, EntriesInit, EntriesStep, PTL DEF CatalogSpec

\* bom_catalog.py: a cached list is its customer's table once every write has
\* emptied the cache, and the cap holds for a customer who works on his own, but
\* for the overlaps that astray and shaken name.
THEOREM EntriesAreSound == CatalogSpec => []EntriesSound
  <1>1. EntriesInv => EntriesSound
    BY DEF EntriesInv, EntriesSound, CapHolds, Counted
  <1> QED
    BY <1>1, EntriesInit, EntriesStep, PTL DEF CatalogSpec

------------------------------------------------------------------------------
(***************************************************************************)
(* The override of a dataset is whole, what the loaders have cached is the *)
(* active file, and the sidecar tells where it came from, for any number   *)
(* of datasets, sources, threads and changes.                              *)
(***************************************************************************)
Changing(e) == job[e].stage # "idle" /\ job[e].op # "read"
Writing(e) == job[e].stage \in {"write", "replace"}
Match(d) ==
    \/ sidecar[d] = OriginOf(dest[d])
    \/ sidecar[d] = "upload" /\ OriginOf(dest[d]) = "url"

\* Which operation is in which stage, and what it has brought along.
Shaped ==
    \A e \in Editors :
        LET j == job[e]
        IN  /\ j.stage = "idle" => j = NoJob
            /\ j.stage # "idle" => j.ds \in Datasets
            /\ j.stage \in {"open", "write", "replace"} => j.op = "save"
            /\ j.stage \in {"exists", "remove"} => j.op = "reset"
            /\ j.stage \in {"load", "meta", "drop"} => j.op # "read"
            /\ j.op = "save" => j.from \in Contents
            /\ j.stage \in {"parse", "fill"} => j.op = "read"

\* Who changes a dataset is alone, or the dataset is doubtful.
Apart ==
    /\ clashed \subseteq doubtful
    /\ \A e, f \in Editors :
          Changing(e) /\ Changing(f) /\ job[e].ds = job[f].ds /\ job[e].ds \notin doubtful => e = f

\* So is who writes its ".tmp" file, or the two clashed: the file is what it wrote.
Written ==
    /\ OverrideWhole
    /\ \A e \in Editors :
          Writing(e) /\ job[e].ds \notin clashed =>
              /\ job[e].handle = "temp"
              /\ temp[job[e].ds] = (IF Doing(e, "write") THEN "half" ELSE job[e].from)
              /\ \A f \in Editors : Writing(f) /\ job[f].ds = job[e].ds => e = f

\* A loader that was not overtaken has found the active file.
Loading ==
    /\ \A e \in Editors :
          Doing(e, "parse") => /\ job[e].got \in {"seed", "none"}
                               /\ ~job[e].late => (job[e].got = "seed") = (dest[job[e].ds] = "none")
    /\ \A e \in Editors :
          Doing(e, "fill") /\ ~job[e].late /\ job[e].ds \notin clashed =>
              /\ job[e].got = Active(job[e].ds)
              /\ job[e].ds \notin Lenient => job[e].got # "nothing"

\* The sidecar of a dataset that is not doubtful agrees with its override until
\* the file changes; then the change carries what the sidecar will say.
Noted ==
    /\ \A d \in Datasets \ doubtful :
          (\A e \in Editors : CatchingUp(e, d) => Doing(e, "drop")) => Match(d)
    /\ \A e \in Editors :
          Changing(e) /\ job[e].ds \notin doubtful =>
              /\ Doing(e, "meta") => job[e].meta[job[e].ds] = sidecar[job[e].ds]
              /\ job[e].stage \in {"load", "meta"} =>
                    /\ job[e].op = "save" => dest[job[e].ds] = job[e].from
                    /\ job[e].op = "reset" => dest[job[e].ds] = "none"

DatasetInv == DatasetTypeOK /\ Shaped /\ Apart /\ Written /\ Loading /\ LoadedIsActive /\ Noted

------------------------------------------------------------------------------
\* The values that say there is no content are none.
LEMMA SourceFacts ==
    /\ Utf8 \subseteq Contents /\ \A c \in Contents : Origin[c] \in Origins
    /\ {"upload", "url", "arm"} = Origins
    /\ {"none", "half", "seed", "nothing"} \cap Contents = {} /\ "none" \notin Datasets
    /\ NoJob \in Job /\ NoJob.stage = "idle" /\ NoJob.op = "read"
    /\ NoJob.ds = "none" /\ NoJob.got = "none" /\ NoJob.late = FALSE
  BY DatasetAssumption DEF NoJob, Job, AllNone, Sidecars, Lists, Origins

LEMMA InitInv == DatasetInit => DatasetInv
  <1> SUFFICES ASSUME DatasetInit PROVE DatasetInv
    OBVIOUS
  <1>1. /\ DatasetTypeOK /\ \A e \in Editors : job[e] = NoJob
        /\ clashed = {} /\ doubtful = {}
        /\ \A d \in Datasets : held[d] = "none" /\ sidecar[d] = dest[d] /\ dest[d] = "none"
    BY SourceFacts, DatasetAssumption
       DEF DatasetInit, DatasetTypeOK, AllNone, Sidecars, Files, Lists
  <1>2. Shaped /\ Apart /\ Written /\ Loading
    BY <1>1, SourceFacts
       DEF Shaped, Apart, Written, OverrideWhole, Loading, Changing, Writing, Doing
  <1>3. LoadedIsActive /\ Noted
    BY <1>1, SourceFacts DEF LoadedIsActive, Noted, Match, OriginOf, Changing
  <1> QED
    BY <1>1, <1>2, <1>3 DEF DatasetInv

------------------------------------------------------------------------------

LEMMA BeginKeeps ==
    ASSUME DatasetInv, NEW e \in Editors, NEW d \in Datasets,
           NEW op \in {"save", "reset", "unlink"},
           NEW from \in Contents \cup {"none"}, NEW stage \in {"open", "exists", "load"},
           (op = "save") = (stage = "open"), (op = "reset") = (stage = "exists"),
           op = "save" => from \in Contents, Begin(e, op, d, from, stage)
    PROVE  DatasetInv'
  <1>1. /\ job[e] = NoJob
        /\ job' = [job EXCEPT ![e] =
                     [NoJob EXCEPT !.stage = stage, !.op = op, !.ds = d, !.from = from]]
        /\ UNCHANGED <<dest, temp, sidecar, held, clashed, overtaken>>
        /\ events' \in Nat
        /\ doubtful' = IF \E f \in Editors : Changes(f, d) THEN doubtful \cup {d} ELSE doubtful
    <2>1. job[e] = NoJob /\ events \in Nat
      BY DEF Begin, Doing, DatasetInv, Shaped, DatasetTypeOK
    <2> QED
      BY <2>1 DEF Begin, Event
  <1>2. PICK q : q = [NoJob EXCEPT !.stage = stage, !.op = op, !.ds = d, !.from = from]
    OBVIOUS
  <1>3. /\ q \in Job /\ q.stage = stage /\ q.op = op /\ q.ds = d /\ q.from = from
    BY <1>2, SourceFacts DEF Job
  <1>4. /\ job'[e] = q /\ \A f \in Editors \ {e} : job'[f] = job[f]
        /\ job' \in [Editors -> Job]
    BY <1>1, <1>2, <1>3 DEF DatasetInv, DatasetTypeOK
  <1>5. /\ doubtful \subseteq doubtful' /\ doubtful' \subseteq Datasets
        /\ \A f \in Editors : Changes(f, d) => d \in doubtful'
    BY <1>1 DEF DatasetInv, DatasetTypeOK
  <1>6. DatasetTypeOK'
    BY <1>1, <1>4, <1>5 DEF DatasetInv, DatasetTypeOK
  <1>7. Shaped'
    BY <1>3, <1>4 DEF DatasetInv, Shaped
  <1>8. Apart'
    BY <1>1, <1>3, <1>4, <1>5 DEF DatasetInv, Shaped, Apart, Changing, Changes
  <1>9. Written' /\ Loading'
    BY <1>1, <1>3, <1>4 DEF DatasetInv, Written, OverrideWhole, Loading, Writing, Doing, Active
  <1>10. LoadedIsActive'
    BY <1>1, <1>3, <1>4, SourceFacts DEF DatasetInv, LoadedIsActive, CatchingUp, Active
  <1>11. Noted'
    BY <1>1, <1>3, <1>4, <1>5, SourceFacts
       DEF DatasetInv, Noted, CatchingUp, Match, Changing, Doing
  <1> QED
    BY <1>6, <1>7, <1>8, <1>9, <1>10, <1>11 DEF DatasetInv

------------------------------------------------------------------------------
\* Each action, at each stage, preserves the invariant.

\* Being overtaken marks the loaders of the dataset and changes nothing else.
LEMMA LoadOvertakeFacts ==
    ASSUME NEW jobs \in [Editors -> Job], NEW d
    PROVE  /\ Overtake(jobs, d) \in [Editors -> Job]
           /\ \A f \in Editors :
                 LET j == jobs[f]  o == Overtake(jobs, d)[f]
                 IN  /\ o.stage = j.stage /\ o.op = j.op /\ o.ds = j.ds /\ o.from = j.from
                     /\ o.handle = j.handle /\ o.meta = j.meta /\ o.got = j.got
                     /\ o.late <=> (j.late \/ (j.ds = d /\ j.stage \in {"parse", "fill"}))
                     /\ j.stage \notin {"parse", "fill"} => o = j
  <1>1. ASSUME NEW j \in Job, NEW l \in BOOLEAN
        PROVE  LET o == [j EXCEPT !.late = l]
               IN  /\ o \in Job
                   /\ o.stage = j.stage /\ o.op = j.op /\ o.ds = j.ds /\ o.from = j.from
                   /\ o.handle = j.handle /\ o.meta = j.meta /\ o.got = j.got /\ o.late = l
                   /\ l = j.late => o = j
    BY DEF Job
  <1>2. \A f \in Editors : jobs[f].late \in BOOLEAN /\ jobs[f] \in Job
    BY DEF Job
  <1>3. \A f \in Editors :
           LET l == jobs[f].late \/ (jobs[f].ds = d /\ jobs[f].stage \in {"parse", "fill"})
           IN  /\ l \in BOOLEAN
               /\ Overtake(jobs, d)[f] = [jobs[f] EXCEPT !.late = l]
               /\ jobs[f].stage \notin {"parse", "fill"} => l = jobs[f].late
    BY <1>2 DEF Overtake
  <1>4. Overtake(jobs, d) = [f \in Editors |-> Overtake(jobs, d)[f]]
    BY DEF Overtake
  <1>5. ASSUME NEW f \in Editors
        PROVE  LET j == jobs[f]  o == Overtake(jobs, d)[f]
               IN  /\ o \in Job
                   /\ o.stage = j.stage /\ o.op = j.op /\ o.ds = j.ds /\ o.from = j.from
                   /\ o.handle = j.handle /\ o.meta = j.meta /\ o.got = j.got
                   /\ o.late <=> (j.late \/ (j.ds = d /\ j.stage \in {"parse", "fill"}))
                   /\ j.stage \notin {"parse", "fill"} => o = j
    <2>1. PICK l \in BOOLEAN :
             /\ l <=> (jobs[f].late \/ (jobs[f].ds = d /\ jobs[f].stage \in {"parse", "fill"}))
             /\ Overtake(jobs, d)[f] = [jobs[f] EXCEPT !.late = l]
             /\ jobs[f].stage \notin {"parse", "fill"} => l = jobs[f].late
      BY <1>3
    <2> QED
      BY <1>1, <1>2, <2>1
  <1> QED
    BY <1>4, <1>5

LEMMA OpenTempKeeps ==
    ASSUME DatasetInv, NEW e \in Editors, OpenTemp(e)
    PROVE  DatasetInv'
  <1> DEFINE d == job[e].ds
             q == [job[e] EXCEPT !.stage = "write", !.handle = "temp"]
  <1>1. /\ job[e].stage = "open" /\ job[e].op = "save" /\ d \in Datasets
        /\ job[e].from \in Contents /\ job[e] \in Job
    BY DEF OpenTemp, Doing, DatasetInv, DatasetTypeOK, Shaped
  <1>2. /\ q \in Job /\ q.stage = "write" /\ q.op = "save" /\ q.ds = d /\ q.from = job[e].from
        /\ q.handle = "temp"
    BY <1>1 DEF Job
  <1>3. /\ job'[e] = q /\ \A f \in Editors \ {e} : job'[f] = job[f]
        /\ job' \in [Editors -> Job]
        /\ UNCHANGED <<dest, sidecar, held, events, doubtful, overtaken>>
    BY <1>2 DEF OpenTemp, DatasetInv, DatasetTypeOK
  <1>4. /\ temp' \in [Datasets -> Files] /\ temp'[d] = "half"
        /\ \A x \in Datasets \ {d} : temp'[x] = temp[x]
    BY <1>1 DEF OpenTemp, DatasetInv, DatasetTypeOK, Files
  <1>5. /\ clashed \subseteq clashed' /\ clashed' \subseteq clashed \cup {d}
        /\ \A f \in Editors \ {e} : Writing(f) /\ job[f].ds = d => d \in clashed'
        /\ d \in clashed' \ clashed => \E f \in Editors \ {e} : Writing(f) /\ job[f].ds = d
    BY DEF OpenTemp, Writing
  <1> HIDE DEF q
  <1>6. DatasetTypeOK'
    BY <1>1, <1>3, <1>4, <1>5 DEF DatasetInv, DatasetTypeOK
  <1>7. Shaped'
    BY <1>1, <1>2, <1>3 DEF DatasetInv, Shaped
  <1>8. Apart'
    <2>1. d \in clashed' \ clashed => d \in doubtful
      BY <1>1, <1>5 DEF DatasetInv, Shaped, Apart, Changing, Writing
    <2> QED
      BY <1>1, <1>2, <1>3, <1>5, <2>1 DEF DatasetInv, Apart, Changing
  <1>9. Written'
    BY <1>1, <1>2, <1>3, <1>4, <1>5 DEF DatasetInv, Shaped, Written, OverrideWhole, Writing, Doing
  <1>10. Loading'
    BY <1>1, <1>2, <1>3, <1>5 DEF DatasetInv, Loading, Doing, Active
  <1>11. LoadedIsActive'
    BY <1>1, <1>2, <1>3, <1>5 DEF DatasetInv, LoadedIsActive, CatchingUp, Active
  <1>12. Noted'
    BY <1>1, <1>2, <1>3 DEF DatasetInv, Noted, CatchingUp, Match, Changing, Doing
  <1> QED
    BY <1>6, <1>7, <1>8, <1>9, <1>10, <1>11, <1>12 DEF DatasetInv

LEMMA WriteBytesKeeps ==
    ASSUME DatasetInv, NEW e \in Editors, WriteBytes(e)
    PROVE  DatasetInv'
  <1> DEFINE d == job[e].ds
  <1>1. /\ job[e].stage = "write" /\ job[e].op = "save" /\ d \in Datasets
        /\ job[e].from \in Contents /\ job[e] \in Job /\ Writing(e)
    BY DEF WriteBytes, Doing, DatasetInv, DatasetTypeOK, Shaped, Writing
  <1>2. UNCHANGED <<sidecar, held, events, clashed, doubtful, overtaken>>
    BY DEF WriteBytes, marks
  <1>3. CASE job[e].handle = "temp"
    <2>1. /\ dest' = dest
          /\ job' = [job EXCEPT ![e].stage = "replace"]
          /\ \E content \in {job[e].from, "half"} :
                /\ temp[d] = "half" => content = job[e].from
                /\ temp' = [temp EXCEPT ![d] = content]
      BY <1>1, <1>3 DEF WriteBytes, Go
    <2>2. PICK content \in {job[e].from, "half"} :
                /\ temp[d] = "half" => content = job[e].from
                /\ temp' = [temp EXCEPT ![d] = content]
      BY <2>1
    <2>3. PICK q : q = [job[e] EXCEPT !.stage = "replace"]
      OBVIOUS
    <2>4. /\ q \in Job /\ q.stage = "replace" /\ q.op = "save" /\ q.ds = d
          /\ q.from = job[e].from /\ q.handle = "temp"
      BY <1>1, <1>3, <2>3 DEF Job
    <2>5. /\ job'[e] = q /\ \A f \in Editors \ {e} : job'[f] = job[f]
          /\ job' \in [Editors -> Job]
      BY <2>1, <2>3, <2>4 DEF DatasetInv, DatasetTypeOK
    <2>6. /\ temp' \in [Datasets -> Files] /\ temp'[d] = content
          /\ \A x \in Datasets \ {d} : temp'[x] = temp[x]
      BY <1>1, <2>2 DEF DatasetInv, DatasetTypeOK, Files
    <2>7. DatasetTypeOK'
      BY <1>2, <2>1, <2>5, <2>6 DEF DatasetInv, DatasetTypeOK
    <2>8. Shaped' /\ Apart'
      BY <1>1, <1>2, <2>4, <2>5 DEF DatasetInv, Shaped, Apart, Changing
    <2>9. Written'
      BY <1>1, <1>2, <2>1, <2>2, <2>4, <2>5, <2>6
         DEF DatasetInv, Shaped, Written, OverrideWhole, Writing, Doing
    <2>10. Loading' /\ LoadedIsActive'
      BY <1>1, <1>2, <2>1, <2>4, <2>5
         DEF DatasetInv, Loading, LoadedIsActive, CatchingUp, Doing, Active
    <2>11. Noted'
      BY <1>1, <1>2, <2>1, <2>4, <2>5 DEF DatasetInv, Noted, CatchingUp, Match, Changing, Doing
    <2> QED
      BY <2>7, <2>8, <2>9, <2>10, <2>11 DEF DatasetInv
  <1>4. CASE job[e].handle = "gone"
    <2>1. UNCHANGED <<dest, temp>> /\ job' = [job EXCEPT ![e].stage = "replace"] /\ d \in clashed
      BY <1>1, <1>4 DEF WriteBytes, Go, DatasetInv, Written
    <2>3. PICK q : q = [job[e] EXCEPT !.stage = "replace"]
      OBVIOUS
    <2>4. /\ q \in Job /\ q.stage = "replace" /\ q.op = "save" /\ q.ds = d
          /\ q.from = job[e].from
      BY <1>1, <2>3 DEF Job
    <2>5. /\ job'[e] = q /\ \A f \in Editors \ {e} : job'[f] = job[f]
          /\ job' \in [Editors -> Job]
      BY <2>1, <2>3, <2>4 DEF DatasetInv, DatasetTypeOK
    <2>7. DatasetTypeOK'
      BY <1>2, <2>1, <2>5 DEF DatasetInv, DatasetTypeOK
    <2>8. Shaped' /\ Apart'
      BY <1>1, <1>2, <2>4, <2>5 DEF DatasetInv, Shaped, Apart, Changing
    <2>9. Written'
      BY <1>1, <1>2, <2>1, <2>4, <2>5
         DEF DatasetInv, Shaped, Written, OverrideWhole, Writing, Doing
    <2>10. Loading' /\ LoadedIsActive'
      BY <1>1, <1>2, <2>1, <2>4, <2>5
         DEF DatasetInv, Loading, LoadedIsActive, CatchingUp, Doing, Active
    <2>11. Noted'
      BY <1>1, <1>2, <2>1, <2>4, <2>5 DEF DatasetInv, Noted, CatchingUp, Match, Changing, Doing
    <2> QED
      BY <2>7, <2>8, <2>9, <2>10, <2>11 DEF DatasetInv
  <1>5. CASE job[e].handle = "dest"
    <2>1. /\ temp' = temp /\ d \in clashed /\ d \in doubtful
          /\ job' = [Overtake(job, d) EXCEPT ![e].stage = "replace"]
          /\ \E content \in {job[e].from, "half"} : dest' = [dest EXCEPT ![d] = content]
      BY <1>1, <1>5 DEF WriteBytes, DatasetInv, Written, Apart
    <2>2. PICK content \in {job[e].from, "half"} : dest' = [dest EXCEPT ![d] = content]
      BY <2>1
    <2>3. PICK over : over = Overtake(job, d)
      OBVIOUS
    <2>4. /\ over \in [Editors -> Job]
          /\ \A f \in Editors :
                LET j == job[f]  o == over[f]
                IN  /\ o.stage = j.stage /\ o.op = j.op /\ o.ds = j.ds /\ o.from = j.from
                    /\ o.handle = j.handle /\ o.meta = j.meta /\ o.got = j.got
                    /\ o.late <=> (j.late \/ (j.ds = d /\ j.stage \in {"parse", "fill"}))
                    /\ j.stage \notin {"parse", "fill"} => o = j
      BY <2>3, LoadOvertakeFacts DEF DatasetInv, DatasetTypeOK
    <2>5. PICK q : q = [over[e] EXCEPT !.stage = "replace"]
      OBVIOUS
    <2>6. /\ q \in Job /\ q.stage = "replace" /\ q.op = "save" /\ q.ds = d
          /\ q.from = job[e].from
      BY <1>1, <2>4, <2>5 DEF Job
    <2>7. /\ job'[e] = q /\ \A f \in Editors \ {e} : job'[f] = over[f]
          /\ job' \in [Editors -> Job]
      BY <2>1, <2>3, <2>4, <2>5, <2>6
    <2>8. /\ dest' \in [Datasets -> Files] /\ \A x \in Datasets \ {d} : dest'[x] = dest[x]
          /\ dest'[d] # "none"
      BY <1>1, <2>2, SourceFacts DEF DatasetInv, DatasetTypeOK, Files
    <2>9. DatasetTypeOK'
      BY <1>2, <2>1, <2>7, <2>8 DEF DatasetInv, DatasetTypeOK
    <2>10. Shaped'
      BY <1>1, <2>4, <2>6, <2>7, SourceFacts DEF DatasetInv, Shaped
    <2>11. Apart'
      BY <1>1, <1>2, <2>4, <2>6, <2>7 DEF DatasetInv, Apart, Changing
    <2> HIDE DEF d
    <2>20. ASSUME NEW f \in Editors, Writing(f)', job'[f].ds \notin clashed
           PROVE  /\ f # e /\ Writing(f) /\ job'[f].ds = job[f].ds /\ job[f].ds # d
                  /\ job'[f].handle = job[f].handle /\ job'[f].from = job[f].from
                  /\ job'[f].stage = job[f].stage
      <3>1. f # e
        BY <2>1, <2>6, <2>7, <2>20
      <3> QED
        BY <2>1, <2>4, <2>7, <2>20, <3>1 DEF Writing
    <2>21. \A f \in Editors : Writing(f)' /\ job'[f].ds # d => Writing(f) /\ job'[f].ds = job[f].ds
      BY <2>4, <2>6, <2>7 DEF Writing
    <2>12. Written'
      BY <1>2, <2>1, <2>8, <2>20, <2>21 DEF DatasetInv, Written, OverrideWhole, Doing
    <2>13. Loading'
      BY <1>2, <2>1, <2>4, <2>6, <2>7, <2>8 DEF DatasetInv, Loading, Doing, Active
    <2>14. LoadedIsActive'
      BY <1>1, <1>2, <2>1, <2>4, <2>6, <2>7, <2>8
         DEF DatasetInv, LoadedIsActive, CatchingUp, Active
    <2>15. Noted'
      BY <1>1, <1>2, <2>1, <2>4, <2>6, <2>7, <2>8
         DEF DatasetInv, Noted, CatchingUp, Match, Changing, Doing
    <2> QED
      BY <2>9, <2>10, <2>11, <2>12, <2>13, <2>14, <2>15 DEF DatasetInv
  <1> QED
    BY <1>1, <1>3, <1>4, <1>5 DEF Job

LEMMA ReplaceKeeps ==
    ASSUME DatasetInv, NEW e \in Editors, Replace(e)
    PROVE  DatasetInv'
  <1> DEFINE d == job[e].ds
  <1>1. /\ job[e].stage = "replace" /\ job[e].op = "save" /\ d \in Datasets
        /\ job[e].from \in Contents /\ job[e] \in Job /\ Writing(e) /\ Changing(e)
        /\ UNCHANGED <<sidecar, held, events, clashed, doubtful, overtaken>>
    BY DEF Replace, Doing, DatasetInv, DatasetTypeOK, Shaped, Writing, Changing, marks
  <1>2. CASE temp[d] = "none"
    <2>1. UNCHANGED <<dest, temp>> /\ job' = [job EXCEPT ![e] = NoJob]
      BY <1>2 DEF Replace, End
    <2>2. /\ job'[e] = NoJob /\ \A f \in Editors \ {e} : job'[f] = job[f]
          /\ job' \in [Editors -> Job]
      BY <2>1, SourceFacts DEF DatasetInv, DatasetTypeOK
    <2>3. DatasetTypeOK' /\ Shaped'
      BY <1>1, <2>1, <2>2, SourceFacts DEF DatasetInv, DatasetTypeOK, Shaped
    <2>4. Apart' /\ Written' /\ Loading'
      BY <1>1, <2>1, <2>2, SourceFacts
         DEF DatasetInv, Apart, Changing, Written, OverrideWhole, Writing, Loading, Doing, Active
    <2>5. LoadedIsActive' /\ Noted'
      BY <1>1, <2>1, <2>2, SourceFacts
         DEF DatasetInv, LoadedIsActive, Noted, CatchingUp, Match, Changing, Doing, Active
    <2> QED
      BY <2>3, <2>4, <2>5 DEF DatasetInv
  <1>3. CASE temp[d] # "none"
    <2>1. /\ dest' = [dest EXCEPT ![d] = temp[d]] /\ temp' = [temp EXCEPT ![d] = "none"]
          /\ job' = [Overtake(Moved(d), d) EXCEPT ![e].stage = "load", ![e].handle = "gone"]
      BY <1>3 DEF Replace
    <2>2. PICK moved : moved = Moved(d)
      OBVIOUS
    <2>3. /\ moved \in [Editors -> Job]
          /\ \A f \in Editors :
                LET j == job[f]  o == moved[f]
                IN  /\ o.stage = j.stage /\ o.op = j.op /\ o.ds = j.ds /\ o.from = j.from
                    /\ o.meta = j.meta /\ o.got = j.got /\ o.late = j.late
                    /\ j.ds # d => o = j
      <3>1. \A f \in Editors : job[f] \in Job
        BY DEF DatasetInv, DatasetTypeOK
      <3>2. ASSUME NEW f \in Editors
            PROVE  /\ moved[f] \in Job
                   /\ LET j == job[f]  o == moved[f]
                      IN  /\ o.stage = j.stage /\ o.op = j.op /\ o.ds = j.ds /\ o.from = j.from
                          /\ o.meta = j.meta /\ o.got = j.got /\ o.late = j.late
                          /\ j.ds # d => o = j
        BY <2>2, <3>1 DEF Moved, Job
      <3>3. moved = [f \in Editors |-> moved[f]]
        BY <2>2 DEF Moved
      <3> QED
        BY <3>2, <3>3
    <2>4. PICK over : over = Overtake(moved, d)
      OBVIOUS
    <2>5. /\ over \in [Editors -> Job]
          /\ \A f \in Editors :
                LET j == job[f]  o == over[f]
                IN  /\ o.stage = j.stage /\ o.op = j.op /\ o.ds = j.ds /\ o.from = j.from
                    /\ o.meta = j.meta /\ o.got = j.got
                    /\ o.late <=> (j.late \/ (j.ds = d /\ j.stage \in {"parse", "fill"}))
                    /\ j.ds # d => o.handle = j.handle
                    /\ j.stage = "idle" /\ j.ds # d => o = j
      BY <2>3, <2>4, LoadOvertakeFacts
    <2>6. PICK q : q = [over[e] EXCEPT !.stage = "load", !.handle = "gone"]
      OBVIOUS
    <2>7. /\ q \in Job /\ q.stage = "load" /\ q.op = "save" /\ q.ds = d
          /\ q.from = job[e].from
      <3>1. /\ over[e] \in Job /\ over[e].op = "save" /\ over[e].ds = d
            /\ over[e].from = job[e].from
        BY <1>1, <2>5
      <3> QED
        BY <2>6, <3>1 DEF Job
    <2>8. /\ job'[e] = q /\ \A f \in Editors \ {e} : job'[f] = over[f]
          /\ job' \in [Editors -> Job]
      BY <2>1, <2>2, <2>4, <2>5, <2>6, <2>7
    <2>9. /\ dest' \in [Datasets -> Files] /\ \A x \in Datasets \ {d} : dest'[x] = dest[x]
          /\ temp' \in [Datasets -> Files] /\ \A x \in Datasets \ {d} : temp'[x] = temp[x]
          /\ dest'[d] = temp[d] /\ dest'[d] # "none"
          /\ d \notin clashed => dest'[d] = job[e].from
      BY <1>1, <1>3, <2>1 DEF DatasetInv, DatasetTypeOK, Files, Written, Doing
    <2>10. DatasetTypeOK'
      BY <1>1, <2>8, <2>9 DEF DatasetInv, DatasetTypeOK
    <2>11. Shaped'
      BY <1>1, <2>5, <2>7, <2>8, SourceFacts DEF DatasetInv, Shaped
    <2>12. Apart'
      BY <1>1, <2>5, <2>7, <2>8 DEF DatasetInv, Apart, Changing
    <2>13. Written'
      BY <1>1, <2>5, <2>7, <2>8, <2>9, SourceFacts
         DEF DatasetInv, Shaped, Written, OverrideWhole, Writing, Doing
    <2>14. Loading'
      BY <1>1, <2>5, <2>7, <2>8, <2>9 DEF DatasetInv, Shaped, Loading, Doing, Active
    <2>15. LoadedIsActive'
      BY <1>1, <2>5, <2>7, <2>8, <2>9
         DEF DatasetInv, LoadedIsActive, CatchingUp, Active
    <2>16. Noted'
      <3>1. ASSUME NEW f \in Editors \ {e}, Changing(f)', job'[f].ds \notin doubtful
            PROVE  /\ Changing(f) /\ job'[f].ds = job[f].ds /\ job[f].ds # d
                   /\ job'[f].stage = job[f].stage /\ job'[f].op = job[f].op
                   /\ job'[f].from = job[f].from /\ job'[f].meta = job[f].meta
                   /\ job[f].ds \in Datasets
        <4>1. Changing(f) /\ job'[f].ds = job[f].ds
          BY <2>5, <2>8, <3>1 DEF Changing
        <4>2. job[f].ds # d
          BY <1>1, <3>1, <4>1 DEF DatasetInv, Apart
        <4> QED
          BY <2>5, <2>8, <3>1, <4>1, <4>2 DEF DatasetInv, Shaped, Changing
      <3>2. \A x \in Datasets \ {d} :
               (\A f \in Editors : CatchingUp(f, x)' => Doing(f, "drop")')
                  => \A f \in Editors : CatchingUp(f, x) => Doing(f, "drop")
        BY <1>1, <2>5, <2>7, <2>8 DEF CatchingUp, Doing
      <3>3. ASSUME NEW x \in Datasets \ doubtful,
                   \A f \in Editors : CatchingUp(f, x)' => Doing(f, "drop")'
            PROVE  Match(x)'
        <4>1. x # d
          BY <1>1, <2>7, <2>8, <3>3 DEF CatchingUp, Doing
        <4>2. Match(x)
          BY <3>2, <3>3, <4>1 DEF DatasetInv, Noted
        <4> QED
          BY <1>1, <2>9, <4>1, <4>2 DEF Match
      <3>4. d \notin doubtful => dest'[d] = job[e].from
        BY <2>9 DEF DatasetInv, Apart
      <3> HIDE DEF d
      <3> QED
        BY <1>1, <2>7, <2>8, <2>9, <3>1, <3>3, <3>4 DEF DatasetInv, Noted, Doing
    <2> QED
      BY <2>10, <2>11, <2>12, <2>13, <2>14, <2>15, <2>16 DEF DatasetInv
  <1> QED
    BY <1>2, <1>3

LEMMA LookForOverrideKeeps ==
    ASSUME DatasetInv, NEW e \in Editors, LookForOverride(e)
    PROVE  DatasetInv'
  <1> DEFINE d == job[e].ds
  <1>1. /\ job[e].stage = "exists" /\ job[e].op = "reset" /\ d \in Datasets /\ job[e] \in Job
        /\ UNCHANGED <<dest, temp, sidecar, held, events, clashed, doubtful, overtaken>>
    BY DEF LookForOverride, Doing, DatasetInv, DatasetTypeOK, Shaped, marks
  <1>2. PICK stage \in {"load", "remove"} :
           /\ stage = IF dest[d] = "none" THEN "load" ELSE "remove"
           /\ job' = [job EXCEPT ![e].stage = stage]
    BY DEF LookForOverride, Go
  <1>3. PICK q : q = [job[e] EXCEPT !.stage = stage]
    OBVIOUS
  <1>4. q \in Job /\ q.stage = stage /\ q.op = "reset" /\ q.ds = d
    BY <1>1, <1>3 DEF Job
  <1>5. /\ job'[e] = q /\ \A f \in Editors \ {e} : job'[f] = job[f]
        /\ job' \in [Editors -> Job]
    BY <1>2, <1>3, <1>4 DEF DatasetInv, DatasetTypeOK
  <1>6. DatasetTypeOK' /\ Shaped'
    BY <1>1, <1>4, <1>5 DEF DatasetInv, DatasetTypeOK, Shaped
  <1>7. Apart' /\ Written' /\ Loading'
    BY <1>1, <1>4, <1>5
       DEF DatasetInv, Apart, Changing, Written, OverrideWhole, Writing, Loading, Doing, Active
  <1>8. LoadedIsActive'
    BY <1>1, <1>2, <1>4, <1>5 DEF DatasetInv, LoadedIsActive, CatchingUp, Active
  <1>9. Noted'
    BY <1>1, <1>2, <1>4, <1>5 DEF DatasetInv, Noted, CatchingUp, Match, Changing, Doing
  <1> QED
    BY <1>6, <1>7, <1>8, <1>9 DEF DatasetInv

LEMMA RemoveKeeps ==
    ASSUME DatasetInv, NEW e \in Editors, Remove(e)
    PROVE  DatasetInv'
  <1> DEFINE d == job[e].ds
  <1>1. /\ job[e].stage = "remove" /\ job[e].op = "reset" /\ d \in Datasets
        /\ job[e] \in Job /\ Changing(e)
        /\ UNCHANGED <<temp, sidecar, held, events, clashed, doubtful, overtaken>>
        /\ dest' = [dest EXCEPT ![d] = "none"]
    BY DEF Remove, Doing, DatasetInv, DatasetTypeOK, Shaped, Changing, marks
  <1>2. CASE dest[d] = "none"
    <2>1. dest' = dest /\ job' = [job EXCEPT ![e] = NoJob]
      BY <1>1, <1>2 DEF Remove, End, DatasetInv, DatasetTypeOK
    <2>2. /\ job'[e] = NoJob /\ \A f \in Editors \ {e} : job'[f] = job[f]
          /\ job' \in [Editors -> Job]
      BY <2>1, SourceFacts DEF DatasetInv, DatasetTypeOK
    <2>3. DatasetTypeOK' /\ Shaped'
      BY <1>1, <2>1, <2>2, SourceFacts DEF DatasetInv, DatasetTypeOK, Shaped
    <2>4. Apart' /\ Written' /\ Loading'
      BY <1>1, <2>1, <2>2, SourceFacts
         DEF DatasetInv, Apart, Changing, Written, OverrideWhole, Writing, Loading, Doing, Active
    <2>5. LoadedIsActive' /\ Noted'
      BY <1>1, <2>1, <2>2, SourceFacts
         DEF DatasetInv, LoadedIsActive, Noted, CatchingUp, Match, Changing, Doing, Active
    <2> QED
      BY <2>3, <2>4, <2>5 DEF DatasetInv
  <1>3. CASE dest[d] # "none"
    <2>1. job' = [Overtake(Detached(job, d), d) EXCEPT ![e].stage = "load"]
      BY <1>3 DEF Remove
    <2>2. PICK detached : detached = Detached(job, d)
      OBVIOUS
    <2>3. /\ detached \in [Editors -> Job]
          /\ \A f \in Editors :
                LET j == job[f]  o == detached[f]
                IN  /\ o.stage = j.stage /\ o.op = j.op /\ o.ds = j.ds /\ o.from = j.from
                    /\ o.meta = j.meta /\ o.got = j.got /\ o.late = j.late
                    /\ j.ds # d => o = j
                    /\ j.handle # "dest" => o = j
      <3>1. \A f \in Editors : job[f] \in Job
        BY DEF DatasetInv, DatasetTypeOK
      <3>2. ASSUME NEW f \in Editors
            PROVE  /\ detached[f] \in Job
                   /\ LET j == job[f]  o == detached[f]
                      IN  /\ o.stage = j.stage /\ o.op = j.op /\ o.ds = j.ds /\ o.from = j.from
                          /\ o.meta = j.meta /\ o.got = j.got /\ o.late = j.late
                          /\ j.ds # d => o = j
                          /\ j.handle # "dest" => o = j
        BY <2>2, <3>1 DEF Detached, Job
      <3>3. detached = [f \in Editors |-> detached[f]]
        BY <2>2 DEF Detached
      <3> QED
        BY <3>2, <3>3
    <2>4. PICK over : over = Overtake(detached, d)
      OBVIOUS
    <2>5. /\ over \in [Editors -> Job]
          /\ \A f \in Editors :
                LET j == job[f]  o == over[f]
                IN  /\ o.stage = j.stage /\ o.op = j.op /\ o.ds = j.ds /\ o.from = j.from
                    /\ o.meta = j.meta /\ o.got = j.got
                    /\ o.late <=> (j.late \/ (j.ds = d /\ j.stage \in {"parse", "fill"}))
                    /\ j.handle = "temp" => o.handle = "temp"
                    /\ j.stage = "idle" /\ j.ds # d => o = j
      BY <2>3, <2>4, LoadOvertakeFacts
    <2>6. PICK q : q = [over[e] EXCEPT !.stage = "load"]
      OBVIOUS
    <2>7. q \in Job /\ q.stage = "load" /\ q.op = "reset" /\ q.ds = d
      <3>1. over[e] \in Job /\ over[e].op = "reset" /\ over[e].ds = d
        BY <1>1, <2>5
      <3> QED
        BY <2>6, <3>1 DEF Job
    <2>8. /\ job'[e] = q /\ \A f \in Editors \ {e} : job'[f] = over[f]
          /\ job' \in [Editors -> Job]
      BY <2>1, <2>2, <2>4, <2>5, <2>6, <2>7
    <2>9. /\ dest' \in [Datasets -> Files] /\ \A x \in Datasets \ {d} : dest'[x] = dest[x]
          /\ dest'[d] = "none"
      BY <1>1 DEF DatasetInv, DatasetTypeOK, Files
    <2>10. DatasetTypeOK'
      BY <1>1, <2>8, <2>9 DEF DatasetInv, DatasetTypeOK
    <2>11. Shaped'
      BY <1>1, <2>5, <2>7, <2>8, SourceFacts DEF DatasetInv, Shaped
    <2>12. Apart'
      BY <1>1, <2>5, <2>7, <2>8 DEF DatasetInv, Apart, Changing
    <2>13. Written'
      BY <1>1, <2>5, <2>7, <2>8, <2>9, SourceFacts
         DEF DatasetInv, Shaped, Written, OverrideWhole, Writing, Doing
    <2>14. Loading'
      BY <1>1, <2>5, <2>7, <2>8, <2>9 DEF DatasetInv, Shaped, Loading, Doing, Active
    <2>15. LoadedIsActive'
      BY <1>1, <2>5, <2>7, <2>8, <2>9
         DEF DatasetInv, LoadedIsActive, CatchingUp, Active
    <2>16. Noted'
      <3>1. ASSUME NEW f \in Editors \ {e}, Changing(f)', job'[f].ds \notin doubtful
            PROVE  /\ Changing(f) /\ job'[f].ds = job[f].ds /\ job[f].ds # d
                   /\ job'[f].stage = job[f].stage /\ job'[f].op = job[f].op
                   /\ job'[f].from = job[f].from /\ job'[f].meta = job[f].meta
                   /\ job[f].ds \in Datasets
        <4>1. Changing(f) /\ job'[f].ds = job[f].ds
          BY <2>5, <2>8, <3>1 DEF Changing
        <4>2. job[f].ds # d
          BY <1>1, <3>1, <4>1 DEF DatasetInv, Apart
        <4> QED
          BY <2>5, <2>8, <3>1, <4>1, <4>2 DEF DatasetInv, Shaped, Changing
      <3>2. \A x \in Datasets \ {d} :
               (\A f \in Editors : CatchingUp(f, x)' => Doing(f, "drop")')
                  => \A f \in Editors : CatchingUp(f, x) => Doing(f, "drop")
        BY <1>1, <2>5, <2>7, <2>8 DEF CatchingUp, Doing
      <3>3. ASSUME NEW x \in Datasets \ doubtful,
                   \A f \in Editors : CatchingUp(f, x)' => Doing(f, "drop")'
            PROVE  Match(x)'
        <4>1. x # d
          BY <1>1, <2>7, <2>8, <3>3 DEF CatchingUp, Doing
        <4>2. Match(x)
          BY <3>2, <3>3, <4>1 DEF DatasetInv, Noted
        <4> QED
          BY <1>1, <2>9, <4>1, <4>2 DEF Match
      <3> HIDE DEF d
      <3> QED
        BY <1>1, <2>7, <2>8, <2>9, <3>1, <3>3 DEF DatasetInv, Noted, Doing
    <2> QED
      BY <2>10, <2>11, <2>12, <2>13, <2>14, <2>15, <2>16 DEF DatasetInv
  <1> QED
    BY <1>2, <1>3

LEMMA LoadMetaKeeps ==
    ASSUME DatasetInv, NEW e \in Editors, LoadMeta(e)
    PROVE  DatasetInv'
  <1> DEFINE d == job[e].ds
  <1>1. /\ job[e].stage = "load" /\ job[e].op # "read" /\ d \in Datasets /\ job[e] \in Job
        /\ UNCHANGED <<dest, temp, sidecar, held, clashed, overtaken>> /\ events' \in Nat
        /\ events \in Nat /\ sidecar \in Sidecars /\ doubtful \subseteq Datasets
    BY DEF LoadMeta, Doing, Event, DatasetInv, DatasetTypeOK, Shaped
  <1>2. /\ doubtful \subseteq doubtful' /\ doubtful' \subseteq Datasets
        /\ \E meta \in Sidecars :
              /\ job' = [job EXCEPT ![e].stage = "meta", ![e].meta = meta]
              /\ meta = sidecar \/ doubtful' = Datasets
    BY <1>1 DEF LoadMeta, AllNone, Sidecars
  <1>3. PICK meta \in Sidecars :
           /\ job' = [job EXCEPT ![e].stage = "meta", ![e].meta = meta]
           /\ meta = sidecar \/ doubtful' = Datasets
    BY <1>2
  <1>4. PICK q : q = [job[e] EXCEPT !.stage = "meta", !.meta = meta]
    OBVIOUS
  <1>5. /\ q \in Job /\ q.stage = "meta" /\ q.op = job[e].op /\ q.ds = d
        /\ q.from = job[e].from /\ q.meta = meta
    BY <1>1, <1>4 DEF Job
  <1>6. /\ job'[e] = q /\ \A f \in Editors \ {e} : job'[f] = job[f]
        /\ job' \in [Editors -> Job]
    BY <1>3, <1>4, <1>5 DEF DatasetInv, DatasetTypeOK
  <1>7. DatasetTypeOK'
    BY <1>1, <1>2, <1>6 DEF DatasetInv, DatasetTypeOK
  <1>8. Shaped'
    BY <1>1, <1>5, <1>6 DEF DatasetInv, Shaped
  <1>9. Apart' /\ Written' /\ Loading'
    BY <1>1, <1>2, <1>5, <1>6
       DEF DatasetInv, Apart, Changing, Written, OverrideWhole, Writing, Loading, Doing, Active
  <1>10. LoadedIsActive'
    BY <1>1, <1>5, <1>6 DEF DatasetInv, LoadedIsActive, CatchingUp, Active
  <1>11. Noted'
    BY <1>1, <1>2, <1>3, <1>5, <1>6 DEF DatasetInv, Noted, CatchingUp, Match, Changing, Doing
  <1> QED
    BY <1>7, <1>8, <1>9, <1>10, <1>11 DEF DatasetInv

\* A sidecar written: what is not doubtful afterwards is as it was, and the entry
\* of the dataset that was changed is what the change was about.
LEMMA WriteMetaKeeps ==
    ASSUME DatasetInv, NEW e \in Editors, WriteMeta(e)
    PROVE  DatasetInv'
  <1>0. PICK d \in Datasets : d = job[e].ds
    BY DEF WriteMeta, Doing, DatasetInv, Shaped
  <1>1. /\ job[e].stage = "meta" /\ job[e].op \in {"save", "reset", "unlink"} /\ d \in Datasets
        /\ job[e] \in Job /\ job[e].meta \in Sidecars /\ Changing(e)
        /\ job[e].op = "save" => job[e].from \in Contents
        /\ UNCHANGED <<dest, temp, held, clashed, overtaken>> /\ events' \in Nat
    BY <1>0 DEF WriteMeta, Doing, Event, DatasetInv, DatasetTypeOK, Shaped, Job, Changing
  <1>2. PICK q : q = IF job[e].op = "unlink" THEN NoJob ELSE [job[e] EXCEPT !.stage = "drop"]
    OBVIOUS
  <1>3. /\ q \in Job
        /\ job[e].op = "unlink" => q = NoJob
        /\ job[e].op # "unlink" => /\ q.stage = "drop" /\ q.op = job[e].op /\ q.ds = d
                                   /\ q.from = job[e].from
    BY <1>0, <1>1, <1>2, SourceFacts DEF Job
  <1>4. /\ job'[e] = q /\ \A f \in Editors \ {e} : job'[f] = job[f]
        /\ job' \in [Editors -> Job]
    <2>1. job' = [job EXCEPT ![e] = q]
      BY <1>2 DEF WriteMeta, End, Go
    <2> QED
      BY <1>3, <2>1 DEF DatasetInv, DatasetTypeOK
  <1>5. Edited(e) \in Sidecars
    BY <1>0, <1>1, SourceFacts DEF Edited, Sidecars
  <1>6. /\ sidecar' \in Sidecars /\ doubtful \subseteq doubtful' /\ doubtful' \subseteq Datasets
    BY <1>0, <1>1, <1>5 DEF WriteMeta, AllNone, Sidecars, DatasetInv, DatasetTypeOK
  <1>7. \A x \in Datasets \ doubtful' : x # d => sidecar'[x] = sidecar[x]
    BY <1>0, <1>1 DEF WriteMeta, Edited, Sidecars, DatasetInv, DatasetTypeOK
  <1>8. ASSUME d \notin doubtful' PROVE Match(d)'
    <2>1. /\ d \notin doubtful /\ job[e].meta[d] = sidecar[d]
          /\ job[e].op = "save" => dest[d] = job[e].from
          /\ job[e].op = "reset" => dest[d] = "none"
      BY <1>0, <1>1, <1>6, <1>8 DEF DatasetInv, Noted, Doing
    <2>2. job[e].op = "unlink" => Match(d)
      <3>1. \A f \in Editors : CatchingUp(f, d) /\ job[e].op = "unlink" => FALSE
        BY <1>0, <1>1, <2>1 DEF CatchingUp, DatasetInv, Apart, Changing
      <3> QED
        BY <1>0, <1>1, <2>1, <3>1 DEF DatasetInv, Noted
    <2>3. CASE sidecar' = sidecar /\ job[e].op # "save" /\ job[e].meta[d] = "none"
      BY <1>0, <1>1, <2>1, <2>2, <2>3, SourceFacts DEF Match, OriginOf
    <2>4. CASE sidecar' = Edited(e)
      <3>1. job[e].op = "save" => sidecar'[d] = Origin[job[e].from]
        BY <1>0, <1>1, <2>4 DEF Edited, Sidecars
      <3>2. job[e].op = "reset" => sidecar'[d] = "none"
        BY <1>0, <1>1, <2>4 DEF Edited, Sidecars
      <3>3. job[e].op = "unlink" =>
               sidecar'[d] = IF sidecar[d] = "url" THEN "upload" ELSE sidecar[d]
        BY <1>0, <1>1, <2>1, <2>4 DEF Edited, Sidecars
      <3> QED
        BY <1>0, <1>1, <2>1, <2>2, <3>1, <3>2, <3>3, SourceFacts DEF Match, OriginOf
    <2> QED
      BY <1>0, <1>1, <1>8, <2>3, <2>4 DEF WriteMeta
  <1>9. DatasetTypeOK'
    BY <1>0, <1>1, <1>4, <1>6 DEF DatasetInv, DatasetTypeOK
  <1>10. Shaped'
    BY <1>0, <1>1, <1>3, <1>4, SourceFacts DEF DatasetInv, Shaped
  <1>11. Apart'
    BY <1>0, <1>1, <1>3, <1>4, <1>6, SourceFacts DEF DatasetInv, Apart, Changing
  <1>12. Written' /\ Loading'
    BY <1>0, <1>1, <1>3, <1>4, SourceFacts
       DEF DatasetInv, Written, OverrideWhole, Writing, Loading, Doing, Active
  <1>13. LoadedIsActive'
    BY <1>0, <1>1, <1>3, <1>4, SourceFacts DEF DatasetInv, LoadedIsActive, CatchingUp, Active
  <1>14. Noted'
    <2>1. ASSUME NEW f \in Editors \ {e}, Changing(f)', job'[f].ds \notin doubtful'
          PROVE  /\ Changing(f) /\ job'[f] = job[f] /\ job[f].ds # d /\ job[f].ds \in Datasets
                 /\ job[f].ds \notin doubtful
      BY <1>0, <1>1, <1>4, <1>6, <2>1 DEF DatasetInv, Apart, Shaped, Changing
    <2>2. ASSUME NEW x \in Datasets \ doubtful', x # d,
                 \A f \in Editors : CatchingUp(f, x)' => Doing(f, "drop")'
          PROVE  Match(x)'
      <3>1. \A f \in Editors : CatchingUp(f, x) => Doing(f, "drop")
        BY <1>0, <1>4, <2>2 DEF CatchingUp, Doing
      <3> QED
        BY <1>0, <1>1, <1>6, <1>7, <2>2, <3>1 DEF DatasetInv, Noted, Match
    <2>3. \A f \in Editors : Changing(f)' /\ job'[f].stage \in {"load", "meta"} => f # e
      BY <1>0, <1>1, <1>3, <1>4, SourceFacts DEF Changing
    <2>4. ASSUME NEW f \in Editors, Changing(f)', job'[f].ds \notin doubtful',
                 job'[f].stage \in {"load", "meta"}
          PROVE  /\ Doing(f, "meta")' => job'[f].meta[job'[f].ds] = sidecar'[job'[f].ds]
                 /\ job'[f].op = "save" => dest'[job'[f].ds] = job'[f].from
                 /\ job'[f].op = "reset" => dest'[job'[f].ds] = "none"
      <3>1. f # e
        BY <2>3, <2>4
      <3>2. /\ Changing(f) /\ job'[f] = job[f] /\ job[f].ds # d /\ job[f].ds \in Datasets
            /\ job[f].ds \notin doubtful
        BY <2>1, <2>4, <3>1
      <3>3. sidecar'[job[f].ds] = sidecar[job[f].ds]
        BY <1>7, <2>4, <3>2
      <3> QED
        BY <1>0, <1>1, <2>4, <3>2, <3>3 DEF DatasetInv, Noted, Doing
    <2> QED
      BY <1>8, <2>2, <2>4 DEF Noted, Doing
  <1> QED
    BY <1>9, <1>10, <1>11, <1>12, <1>13, <1>14 DEF DatasetInv

LEMMA DropKeeps ==
    ASSUME DatasetInv, NEW e \in Editors, Drop(e)
    PROVE  DatasetInv'
  <1> DEFINE d == job[e].ds
  <1>1. /\ job[e].stage = "drop" /\ d \in Datasets
        /\ UNCHANGED <<dest, temp, sidecar, events, clashed, doubtful>>
        /\ overtaken' = overtaken \ {d}
    BY DEF Drop, Doing, DatasetInv, Shaped
  <1>2. /\ job'[e] = NoJob /\ \A f \in Editors \ {e} : job'[f] = job[f]
        /\ job' \in [Editors -> Job]
    BY SourceFacts DEF Drop, End, DatasetInv, DatasetTypeOK
  <1>3. /\ held' \in [Datasets -> Lists] /\ held'[d] = "none"
        /\ \A x \in Datasets \ {d} : held'[x] = held[x]
    BY <1>1 DEF Drop, Lists, DatasetInv, DatasetTypeOK
  <1>4. DatasetTypeOK' /\ Shaped'
    BY <1>1, <1>2, <1>3, SourceFacts DEF DatasetInv, DatasetTypeOK, Shaped
  <1>5. Apart' /\ Written' /\ Loading'
    BY <1>1, <1>2, SourceFacts
       DEF DatasetInv, Apart, Changing, Written, OverrideWhole, Writing, Loading, Doing, Active
  <1>6. LoadedIsActive'
    BY <1>1, <1>2, <1>3, SourceFacts DEF DatasetInv, LoadedIsActive, CatchingUp, Active
  <1>7. Noted'
    BY <1>1, <1>2, SourceFacts DEF DatasetInv, Noted, CatchingUp, Match, Changing, Doing
  <1> QED
    BY <1>4, <1>5, <1>6, <1>7 DEF DatasetInv

LEMMA ReadKeeps ==
    ASSUME DatasetInv, NEW e \in Editors, NEW d \in Datasets, Read(e, d)
    PROVE  DatasetInv'
  <1>1. job[e] = NoJob
    BY DEF Read, Doing, DatasetInv, Shaped
  <1>2. PICK got \in {"seed", "none"} : got = IF dest[d] = "none" THEN "seed" ELSE "none"
    OBVIOUS
  <1>3. PICK q : q = [NoJob EXCEPT !.stage = "parse", !.ds = d, !.got = got]
    OBVIOUS
  <1>4. /\ q \in Job /\ q.stage = "parse" /\ q.op = "read" /\ q.ds = d /\ q.got = got
        /\ q.from = "none"
    BY <1>3 DEF Job, NoJob, Lists, AllNone, Sidecars
  <1>5. /\ job'[e] = q /\ \A f \in Editors \ {e} : job'[f] = job[f]
        /\ job' \in [Editors -> Job]
        /\ UNCHANGED <<dest, temp, sidecar, held, events, clashed, doubtful, overtaken>>
    <2>1. job' = [job EXCEPT ![e] = q]
      BY <1>1, <1>2, <1>3 DEF Read
    <2> QED
      BY <1>4, <2>1 DEF Read, marks, DatasetInv, DatasetTypeOK
  <1>6. DatasetTypeOK' /\ Shaped'
    BY <1>4, <1>5 DEF DatasetInv, DatasetTypeOK, Shaped
  <1>7. Apart' /\ Written' /\ Loading'
    BY <1>2, <1>4, <1>5
       DEF DatasetInv, Apart, Changing, Written, OverrideWhole, Writing, Loading, Doing, Active
  <1>8. LoadedIsActive' /\ Noted'
    BY <1>1, <1>4, <1>5, SourceFacts
       DEF DatasetInv, LoadedIsActive, Noted, CatchingUp, Match, Changing, Doing, Active
  <1> QED
    BY <1>6, <1>7, <1>8 DEF DatasetInv

LEMMA ParseKeeps ==
    ASSUME DatasetInv, NEW e \in Editors, Parse(e)
    PROVE  DatasetInv'
  <1> DEFINE d == job[e].ds
  <1>1. /\ job[e].stage = "parse" /\ job[e].op = "read" /\ d \in Datasets /\ job[e] \in Job
        /\ job[e].got \in {"seed", "none"}
        /\ ~job[e].late => (job[e].got = "seed") = (dest[d] = "none")
        /\ UNCHANGED <<dest, temp, sidecar, held, events, clashed, doubtful, overtaken>>
    BY DEF Parse, Doing, DatasetInv, DatasetTypeOK, Shaped, Loading, marks
  <1>2. CASE job' = [job EXCEPT ![e] = NoJob]
    <2>1. /\ job'[e] = NoJob /\ \A f \in Editors \ {e} : job'[f] = job[f]
          /\ job' \in [Editors -> Job]
      BY <1>2, SourceFacts DEF DatasetInv, DatasetTypeOK
    <2>2. DatasetTypeOK' /\ Shaped'
      BY <1>1, <2>1, SourceFacts DEF DatasetInv, DatasetTypeOK, Shaped
    <2>3. Apart' /\ Written' /\ Loading'
      BY <1>1, <2>1, SourceFacts
         DEF DatasetInv, Apart, Changing, Written, OverrideWhole, Writing, Loading, Doing, Active
    <2>4. LoadedIsActive' /\ Noted'
      BY <1>1, <2>1, SourceFacts
         DEF DatasetInv, LoadedIsActive, Noted, CatchingUp, Match, Changing, Doing, Active
    <2> QED
      BY <2>2, <2>3, <2>4 DEF DatasetInv
  <1>3. ASSUME NEW got \in Lists, job' = [job EXCEPT ![e].stage = "fill", ![e].got = got],
               ~job[e].late /\ d \notin clashed =>
                   got = Active(d) /\ (d \notin Lenient => got # "nothing")
        PROVE  DatasetInv'
    <2>1. PICK q : q = [job[e] EXCEPT !.stage = "fill", !.got = got]
      OBVIOUS
    <2>2. /\ q \in Job /\ q.stage = "fill" /\ q.op = "read" /\ q.ds = d /\ q.got = got
          /\ q.from = job[e].from /\ q.late = job[e].late
      BY <1>1, <2>1 DEF Job
    <2>3. /\ job'[e] = q /\ \A f \in Editors \ {e} : job'[f] = job[f]
          /\ job' \in [Editors -> Job]
      BY <1>3, <2>1, <2>2 DEF DatasetInv, DatasetTypeOK
    <2>4. DatasetTypeOK' /\ Shaped'
      BY <1>1, <2>2, <2>3 DEF DatasetInv, DatasetTypeOK, Shaped
    <2>5. Apart' /\ Written' /\ Loading'
      BY <1>1, <1>3, <2>2, <2>3
         DEF DatasetInv, Apart, Changing, Written, OverrideWhole, Writing, Loading, Doing, Active
    <2>6. LoadedIsActive' /\ Noted'
      BY <1>1, <2>2, <2>3
         DEF DatasetInv, LoadedIsActive, Noted, CatchingUp, Match, Changing, Doing, Active
    <2> QED
      BY <2>4, <2>5, <2>6 DEF DatasetInv
  <1>4. \/ job' = [job EXCEPT ![e] = NoJob]
        \/ \E got \in Lists :
              /\ job' = [job EXCEPT ![e].stage = "fill", ![e].got = got]
              /\ ~job[e].late /\ d \notin clashed =>
                     got = Active(d) /\ (d \notin Lenient => got # "nothing")
    <2>1. CASE job[e].got = "seed" \/ dest[d] \in Utf8
      <3>1. PICK got : got = IF job[e].got = "seed" THEN "seed" ELSE dest[d]
        OBVIOUS
      <3>2. job' = [job EXCEPT ![e].stage = "fill", ![e].got = got]
        BY <1>1, <2>1, <3>1, SourceFacts DEF Parse
      <3>3. got \in Lists /\ (~job[e].late => got = Active(d)) /\ got # "nothing"
        BY <1>1, <2>1, <3>1, SourceFacts DEF Lists, Active
      <3> QED
        BY <3>2, <3>3
    <2>2. CASE ~(job[e].got = "seed" \/ dest[d] \in Utf8)
      <3>1. ~job[e].late => Active(d) = "nothing"
        BY <1>1, <2>2 DEF Active
      <3>2. "nothing" \in Lists
        BY DEF Lists
      <3>3. \/ job' = [job EXCEPT ![e] = NoJob]
            \/ /\ job' = [job EXCEPT ![e].stage = "fill", ![e].got = "nothing"]
               /\ d \in Lenient
        BY <1>1, <2>2 DEF Parse, End
      <3> QED
        BY <3>1, <3>2, <3>3
    <2> QED
      BY <2>1, <2>2
  <1> QED
    BY <1>2, <1>3, <1>4

LEMMA FillKeeps ==
    ASSUME DatasetInv, NEW e \in Editors, Fill(e)
    PROVE  DatasetInv'
  <1> DEFINE d == job[e].ds
  <1>1. /\ job[e].stage = "fill" /\ d \in Datasets /\ job[e].got \in Lists
        /\ ~job[e].late /\ d \notin clashed =>
               job[e].got = Active(d) /\ (d \notin Lenient => job[e].got # "nothing")
        /\ UNCHANGED <<dest, temp, sidecar, events, clashed, doubtful>>
        /\ overtaken' = IF job[e].late THEN overtaken \cup {d} ELSE overtaken \ {d}
    BY DEF Fill, Doing, DatasetInv, DatasetTypeOK, Job, Shaped, Loading
  <1>2. /\ job'[e] = NoJob /\ \A f \in Editors \ {e} : job'[f] = job[f]
        /\ job' \in [Editors -> Job]
    BY SourceFacts DEF Fill, End, DatasetInv, DatasetTypeOK
  <1>3. /\ held' \in [Datasets -> Lists] /\ held'[d] = job[e].got
        /\ \A x \in Datasets \ {d} : held'[x] = held[x]
        /\ overtaken' \subseteq Datasets
    BY <1>1 DEF Fill, DatasetInv, DatasetTypeOK
  <1>4. DatasetTypeOK' /\ Shaped'
    BY <1>1, <1>2, <1>3, SourceFacts DEF DatasetInv, DatasetTypeOK, Shaped
  <1>5. Apart' /\ Written' /\ Loading'
    BY <1>1, <1>2, SourceFacts
       DEF DatasetInv, Apart, Changing, Written, OverrideWhole, Writing, Loading, Doing, Active
  <1>6. LoadedIsActive'
    BY <1>1, <1>2, <1>3, SourceFacts DEF DatasetInv, LoadedIsActive, CatchingUp, Active
  <1>7. Noted'
    BY <1>1, <1>2, SourceFacts DEF DatasetInv, Noted, CatchingUp, Match, Changing, Doing
  <1> QED
    BY <1>4, <1>5, <1>6, <1>7 DEF DatasetInv

LEMMA RebootKeeps == DatasetInv /\ Reboot => DatasetInv'
  <1> SUFFICES ASSUME DatasetInv, Reboot PROVE DatasetInv'
    OBVIOUS
  <1>1. /\ UNCHANGED <<dest, temp, sidecar, clashed>> /\ overtaken' = {} /\ events' \in Nat
        /\ job' \in [Editors -> Job] /\ \A e \in Editors : job'[e] = NoJob
        /\ held' \in [Datasets -> Lists] /\ \A d \in Datasets : held'[d] = "none"
    BY SourceFacts DEF Reboot, Event, AllNone, Lists, DatasetInv, DatasetTypeOK
  <1>2. /\ doubtful \subseteq doubtful' /\ doubtful' \subseteq Datasets
        /\ \A d \in Datasets \ doubtful' : \A e \in Editors :
              CatchingUp(e, d) => Doing(e, "drop")
    BY DEF Reboot, DatasetInv, DatasetTypeOK
  <1>3. DatasetTypeOK' /\ Shaped'
    BY <1>1, <1>2, SourceFacts DEF DatasetInv, DatasetTypeOK, Shaped
  <1>4. Apart' /\ Written' /\ Loading'
    BY <1>1, <1>2, SourceFacts
       DEF DatasetInv, Apart, Changing, Written, OverrideWhole, Writing, Loading, Doing
  <1>5. LoadedIsActive'
    BY <1>1, SourceFacts DEF LoadedIsActive
  <1>6. Noted'
    BY <1>1, <1>2, SourceFacts DEF DatasetInv, Noted, Match, Changing
  <1> QED
    BY <1>3, <1>4, <1>5, <1>6 DEF DatasetInv

LEMMA DatasetStep == DatasetInv /\ [DatasetNext]_datasetVars => DatasetInv'
  <1> SUFFICES ASSUME DatasetInv, [DatasetNext]_datasetVars PROVE DatasetInv'
    OBVIOUS
  <1>1. CASE UNCHANGED datasetVars
    BY <1>1 DEF datasetVars, DatasetInv, DatasetTypeOK, Shaped, Apart, Changing, Written,
                OverrideWhole, Writing, Loading, LoadedIsActive, CatchingUp, Noted, Match,
                Doing, Active
  <1>2. ASSUME NEW e \in Editors, NEW d \in Datasets, NEW from \in Contents, Save(e, d, from)
        PROVE  DatasetInv'
    BY <1>2, BeginKeeps DEF Save
  <1>3. ASSUME NEW e \in Editors, NEW d \in Datasets, Refetch(e, d) PROVE DatasetInv'
    BY <1>2, <1>3, SourceFacts DEF Refetch
  <1>4. ASSUME NEW e \in Editors, NEW d \in Datasets, Reset(e, d) PROVE DatasetInv'
    BY <1>4, BeginKeeps DEF Reset
  <1>5. ASSUME NEW e \in Editors, NEW d \in Datasets, Unlink(e, d) PROVE DatasetInv'
    BY <1>5, BeginKeeps DEF Unlink
  <1> QED
    BY <1>1, <1>2, <1>3, <1>4, <1>5, ReadKeeps, OpenTempKeeps, WriteBytesKeeps, ReplaceKeeps,
       LookForOverrideKeeps, RemoveKeeps, LoadMetaKeeps, WriteMetaKeeps, DropKeeps, ParseKeeps,
       FillKeeps, RebootKeeps DEF DatasetNext

\* The files, the sidecar, the caches and the jobs of the threads are of their types.
THEOREM DatasetTypeCorrect == DatasetSpec => []DatasetTypeOK
  <1>1. DatasetSpec => []DatasetInv
    BY InitInv, DatasetStep, PTL DEF DatasetSpec
  <1>2. DatasetInv => DatasetTypeOK
    BY DEF DatasetInv
  <1> QED
    BY <1>1, <1>2, PTL

\* Uploads, refreshes, resets, loads and restarts in any order: unless two saves of a
\* dataset share its ".tmp" file, a loader opens whole files, and what it has cached
\* is the active one once every change has emptied the cache.
THEOREM WholeFiles == DatasetSpec => []LoadersSeeWholeFiles
  <1>1. DatasetSpec => []DatasetInv
    BY InitInv, DatasetStep, PTL DEF DatasetSpec
  <1>2. DatasetInv => LoadersSeeWholeFiles
    BY DEF DatasetInv, Written, LoadersSeeWholeFiles
  <1> QED
    BY <1>1, <1>2, PTL

\* Unless two changes overlap or one does not end, the sidecar says where the active
\* override came from.
THEOREM ProvenanceHolds == DatasetSpec => []ProvenanceTrue
  <1>1. DatasetSpec => []DatasetInv
    BY InitInv, DatasetStep, PTL DEF DatasetSpec
  <1>2. DatasetInv => ProvenanceTrue
    BY DEF DatasetInv, Noted, ProvenanceTrue, Match, Changes, CatchingUp
  <1> QED
    BY <1>1, <1>2, PTL
------------------------------------------------------------------------------
(***************************************************************************)
(* What a list is that is defined by ranks: Dedup and Sorted give the n-th *)
(* place to the member that n - 1 others come before.                      *)
(***************************************************************************)
\* The members of S that come before c in the relation R.
Prior(S, R, c) == {d \in S : <<d, c>> \in R}

\* R is a strict total order of S, and rank the place of each member in it.
StrictOrder(S, R) ==
    /\ \A a \in S : <<a, a>> \notin R
    /\ \A a, b, c \in S : <<a, b>> \in R /\ <<b, c>> \in R => <<a, c>> \in R
    /\ \A a, b \in S : a = b \/ <<a, b>> \in R \/ <<b, a>> \in R
Ranking(S, R, rank) ==
    rank \in [S -> Nat] /\ \A c \in S : rank[c] = Cardinality(Prior(S, R, c))

\* The ranks of a finite set are the numbers below its size, each of them once.
LEMMA Ranks ==
    ASSUME NEW S, IsFiniteSet(S), NEW R, StrictOrder(S, R), NEW rank, Ranking(S, R, rank)
    PROVE  /\ Cardinality(S) \in Nat
           /\ \A c \in S : rank[c] \in 0 .. Cardinality(S) - 1
           /\ \A a, b \in S : <<a, b>> \in R => rank[a] < rank[b]
           /\ \A n \in 0 .. Cardinality(S) - 1 : \E c \in S : rank[c] = n
  <1> USE DEF StrictOrder, Ranking
  <1>1. Cardinality(S) \in Nat
    BY FS_CardinalityType
  <1>2. ASSUME NEW c \in S
        PROVE  /\ IsFiniteSet(Prior(S, R, c)) /\ Cardinality(Prior(S, R, c)) \in Nat
               /\ Cardinality(Prior(S, R, c)) <= Cardinality(S) - 1
    <2>1. Prior(S, R, c) \in SUBSET (S \ {c})
      BY DEF Prior
    <2>2. IsFiniteSet(S \ {c}) /\ Cardinality(S \ {c}) = Cardinality(S) - 1
      BY FS_RemoveElement
    <2>3. IsFiniteSet(Prior(S, R, c)) /\ Cardinality(Prior(S, R, c)) <= Cardinality(S \ {c})
      BY <2>1, <2>2, FS_Subset
    <2>4. Cardinality(Prior(S, R, c)) \in Nat
      BY <2>3, FS_CardinalityType
    <2> QED
      BY <2>2, <2>3, <2>4
  <1>3. \A c \in S : rank[c] = Cardinality(Prior(S, R, c))
    OBVIOUS
  <1>4. ASSUME NEW c \in S PROVE rank[c] \in 0 .. Cardinality(S) - 1
    <2> QED
      BY <1>1, <1>2, <1>3
  <1>5. ASSUME NEW a \in S, NEW b \in S, <<a, b>> \in R PROVE rank[a] < rank[b]
    <2>1. Prior(S, R, a) \in SUBSET Prior(S, R, b) /\ Prior(S, R, a) # Prior(S, R, b)
      BY <1>5 DEF Prior
    <2>2. IsFiniteSet(Prior(S, R, b))
      BY <1>2
    <2>3. Cardinality(Prior(S, R, a)) <= Cardinality(Prior(S, R, b)) /\ Cardinality(Prior(S, R, b)) # Cardinality(Prior(S, R, a))
      BY <2>1, <2>2, FS_Subset
    <2>4. Cardinality(Prior(S, R, a)) \in Nat /\ Cardinality(Prior(S, R, b)) \in Nat
      BY <1>2
    <2>5. Cardinality(Prior(S, R, a)) < Cardinality(Prior(S, R, b))
      BY <2>3, <2>4
    <2> QED
      BY <1>3, <2>5
  <1>6. rank \in [S -> 0 .. Cardinality(S) - 1]
    BY <1>4
  <1>7. \A a, b \in S : rank[a] = rank[b] => a = b
    <2>1. \A c \in S : rank[c] \in Int
      BY <1>1, <1>4
    <2>2. SUFFICES ASSUME NEW a \in S, NEW b \in S, rank[a] = rank[b], a # b PROVE FALSE
      OBVIOUS
    <2>3. rank[a] < rank[b] \/ rank[b] < rank[a]
      BY <1>5, <2>2
    <2> QED
      BY <2>1, <2>2, <2>3
  <1>8. IsFiniteSet(0 .. Cardinality(S) - 1)
        /\ Cardinality(0 .. Cardinality(S) - 1) = Cardinality(S)
    <2>1. 0 \in Int /\ Cardinality(S) - 1 \in Int
      BY <1>1
    <2>2. IsFiniteSet(0 .. Cardinality(S) - 1)
          /\ Cardinality(0 .. Cardinality(S) - 1)
                = IF 0 > Cardinality(S) - 1 THEN 0 ELSE Cardinality(S) - 1 - 0 + 1
      BY <2>1, FS_Interval
    <2> QED
      BY <1>1, <2>2
  <1>9. rank \in Injection(S, 0 .. Cardinality(S) - 1)
    BY <1>6, <1>7 DEF Injection, IsInjective
  <1> DEFINE T == 0 .. Cardinality(S) - 1
  <1>10. rank \in Surjection(S, T)
    <2>1. rank \in Injection(S, T) /\ IsFiniteSet(T) /\ Cardinality(S) = Cardinality(T)
      BY <1>8, <1>9
    <2> HIDE DEF T
    <2> QED
      BY <2>1, FS_Injection
  <1> QED
    BY <1>1, <1>4, <1>5, <1>10 DEF Surjection

------------------------------------------------------------------------------
(***************************************************************************)
(* Proofs about the BOMs, for any BOMs, subscriptions, services and        *)
(* threads that save, and any number of writes and failures.               *)
(*                                                                         *)
(* SavesAsRead and ImportRestores are not inductive. The invariant adds    *)
(* that every list of subscriptions that is kept, in a row, a draft, a     *)
(* snapshot or an archive, is without repetition (Plain), so that          *)
(* normalising it again changes nothing; and for each stage of an import   *)
(* what it has put back already (ImportSound), unless the write failed or  *)
(* somebody touched the BOM since.                                         *)
(***************************************************************************)
\* A list of subscriptions as the table has it: not empty, every one once, and three
\* of them only when the operator's own one was appended.
Plain(ids) ==
    /\ ids \in IdLists /\ ids # <<>>
    /\ \A m, n \in DOMAIN ids : ids[m] = ids[n] => m = n
    /\ Len(ids) <= 2 \/ Operator \in Range(ids)

\* A row of whatever release, kept under b.
Sound(b, row) ==
    /\ row \in BomRow
    /\ IF row.ids = <<>> THEN row.sub = Gone => b \in Guids
       ELSE Plain(row.ids) /\ row.sub = row.ids[1]

SoundMeta(meta) ==
    /\ meta \in Meta
    /\ Plain(meta.ids) /\ Plain(meta.targets)
    /\ meta.ids \in {meta.targets, Append(meta.targets, Operator)}

RowsSound == \A b \in Boms : boms[b] # Gone => Sound(b, boms[b])
DraftsSound == \A w \in Authors : draft[w] # Gone => Sound(draft[w].bom, draft[w].row)
RunsSound == \A b \in Boms : runs[b] # Gone => SoundMeta(runs[b])
ArchiveSound ==
    archive # Gone => \A b \in Boms :
        /\ archive.boms[b] # Gone => Sound(b, archive.boms[b])
        /\ archive.runs[b] # Gone => SoundMeta(archive.runs[b])

\* The catalogs are whole until something happens.
CatalogWhole == offered = Services \cup BomRegions \/ troubles > 0

\* What an import has done so far.
AsArchived(b) == boms[b] = archive.boms[b]
AsAnalysed(b) ==
    LET meta == archive.runs[b]
    IN  /\ boms[b] # Gone
        /\ boms[b].ids \in {meta.targets, Append(meta.targets, Operator)}
        /\ \/ boms[b].skus /\ boms[b].services = meta.services
           \/ troubles > 0 /\ boms[b].services = {}
Left == restore.todo \cup unwritten \cup touched
ImportSound ==
    Importing =>
        /\ archive # Gone
        /\ restore.stage \in {"rows", "end"} =>
              /\ restore.restored \/ Archived("boms") \subseteq restore.todo \cup unwritten
              /\ restore.todo \subseteq Archived("boms")
              /\ restore.restored => Archived("boms") # {}
              /\ \A b \in Archived("boms") \ Left : AsArchived(b)
        /\ restore.stage = "end" => restore.restored /\ restore.todo = {}
        /\ restore.stage = "rebuild" =>
              /\ Archived("boms") \subseteq unwritten
              /\ restore.todo \subseteq Archived("runs")
              /\ Archived("boms") = {} => \A b \in Archived("runs") \ Left : AsAnalysed(b)

BomInv ==
    /\ BomTypeOK
    /\ RowsSound
    /\ DraftsSound
    /\ RunsSound
    /\ ArchiveSound
    /\ CatalogWhole
    /\ ImportSound

------------------------------------------------------------------------------
\* A list of subscriptions is a sequence of at most three.
LEMMA IdListFacts ==
    ASSUME NEW ids
    PROVE  ids \in IdLists <=> ids \in Seq(Guids) /\ Len(ids) \in 0 .. 3
  <1>1. ASSUME ids \in IdLists PROVE ids \in Seq(Guids) /\ Len(ids) \in 0 .. 3
    <2>1. PICK n \in 0 .. 3 : ids \in [1 .. n -> Guids]
      BY <1>1 DEF IdLists
    <2>2. ids \in Seq(Guids) /\ Len(ids) = n
      BY <2>1
    <2> QED
      BY <2>2
  <1>2. ASSUME ids \in Seq(Guids), Len(ids) \in 0 .. 3 PROVE ids \in IdLists
    <2>1. ids \in [1 .. Len(ids) -> Guids]
      BY <1>2
    <2> QED
      BY <1>2, <2>1 DEF IdLists
  <1> QED
    BY <1>1, <1>2

\* Deduplication keeps the ids that are no repetition, and a list without any.
LEMMA DedupFacts ==
    ASSUME NEW S, NEW ids \in Seq(S)
    PROVE  /\ Dedup(ids) \in Seq(S)
           /\ Len(Dedup(ids)) \in Nat /\ Len(Dedup(ids)) <= Len(ids)
           /\ ids # <<>> => Dedup(ids) # <<>>
           /\ \A m, n \in DOMAIN Dedup(ids) : Dedup(ids)[m] = Dedup(ids)[n] => m = n
           /\ (\A m, n \in DOMAIN ids : ids[m] = ids[n] => m = n) => Dedup(ids) = ids
  <1> DEFINE firsts == {n \in DOMAIN ids : \A m \in 1 .. n - 1 : ids[m] # ids[n]}
             before == [n \in firsts |-> Cardinality({m \in firsts : m < n})]
             R == {p \in firsts \X firsts : p[1] < p[2]}
             size == Cardinality(firsts)
             len == Len(ids)
  <1>1. DOMAIN ids = 1 .. len /\ len \in Nat
    OBVIOUS
  <1>2. IsFiniteSet(1 .. len) /\ Cardinality(1 .. len) = len
    <2>1. 1 \in Int /\ len \in Int
      BY <1>1
    <2>2. IsFiniteSet(1 .. len) /\ Cardinality(1 .. len) = IF 1 > len THEN 0 ELSE len - 1 + 1
      BY <2>1, FS_Interval
    <2> QED
      BY <1>1, <2>2
  <1>3. firsts \in SUBSET (1 .. len)
    BY <1>1
  <1>4. /\ IsFiniteSet(firsts) /\ size \in Nat /\ size <= len
        /\ size = len => firsts = 1 .. len
    BY <1>2, <1>3, FS_Subset, FS_CardinalityType
  <1>5. Dedup(ids) = [k \in 1 .. size |-> ids[CHOOSE n \in firsts : before[n] = k - 1]]
    BY DEF Dedup
  <1>6. /\ \A n \in firsts : before[n] \in 0 .. size - 1
        /\ \A m, n \in firsts : m < n => before[m] < before[n]
        /\ \A k \in 0 .. size - 1 : \E n \in firsts : before[n] = k
    <2>1. \A m, n \in firsts : <<m, n>> \in R <=> m < n
      OBVIOUS
    <2>2. \A n \in firsts : n \in Int
      BY <1>3
    <2>3. \A n \in firsts : before[n] = Cardinality(Prior(firsts, R, n))
      <3>1. \A n \in firsts : Prior(firsts, R, n) = {m \in firsts : m < n}
        BY DEF Prior
      <3> QED
        BY <3>1
    <2>4. before \in [firsts -> Nat]
      <3>1. \A n \in firsts : {m \in firsts : m < n} \in SUBSET firsts
        OBVIOUS
      <3> QED
        BY <1>4, <3>1, FS_Subset, FS_CardinalityType
    <2>5. size = Cardinality(firsts)
      OBVIOUS
    <2> HIDE DEF firsts, before, R, size
    <2>6. StrictOrder(firsts, R)
      BY <2>1, <2>2 DEF StrictOrder
    <2>7. Ranking(firsts, R, before)
      BY <2>3, <2>4 DEF Ranking
    <2>8. /\ \A n \in firsts : before[n] \in 0 .. Cardinality(firsts) - 1
          /\ \A m, n \in firsts : <<m, n>> \in R => before[m] < before[n]
          /\ \A k \in 0 .. Cardinality(firsts) - 1 : \E n \in firsts : before[n] = k
      BY <1>4, <2>6, <2>7, Ranks
    <2> QED
      BY <2>1, <2>5, <2>8
  <1>7. \A m, n \in firsts : ids[m] = ids[n] => m = n
    <2> SUFFICES ASSUME NEW m \in firsts, NEW n \in firsts, ids[m] = ids[n], m < n PROVE FALSE
      BY <1>3
    <2>1. m \in 1 .. n - 1
      BY <1>3
    <2> QED
      BY <2>1
  <1>8. ids # <<>> => 1 \in firsts
    BY <1>1
  <1>9. \A n \in firsts : ids[n] \in S
    BY <1>1, <1>3
  <1>10. (\A m, n \in DOMAIN ids : ids[m] = ids[n] => m = n) => firsts = 1 .. len
    BY <1>1
  <1> HIDE DEF firsts, before, R, size, len
  <1> DEFINE at == [k \in 1 .. size |-> CHOOSE n \in firsts : before[n] = k - 1]
  <1>11. \A k \in 1 .. size : at[k] \in firsts /\ before[at[k]] = k - 1
    <2> SUFFICES ASSUME NEW k \in 1 .. size PROVE at[k] \in firsts /\ before[at[k]] = k - 1
      OBVIOUS
    <2>1. k - 1 \in 0 .. size - 1
      BY <1>4
    <2>2. \E n \in firsts : before[n] = k - 1
      BY <1>6, <2>1
    <2> QED
      BY <2>2
  <1>12. Dedup(ids) = [k \in 1 .. size |-> ids[at[k]]]
    BY <1>5
  <1> HIDE DEF at
  <1>13. Dedup(ids) \in [1 .. size -> S]
    BY <1>9, <1>11, <1>12
  <1>14. Dedup(ids) \in Seq(S) /\ Len(Dedup(ids)) = size /\ DOMAIN Dedup(ids) = 1 .. size
    BY <1>4, <1>13
  <1>15. \A m, n \in 1 .. size : Dedup(ids)[m] = Dedup(ids)[n] => m = n
    <2> SUFFICES ASSUME NEW m \in 1 .. size, NEW n \in 1 .. size, Dedup(ids)[m] = Dedup(ids)[n]
                 PROVE  m = n
      OBVIOUS
    <2>1. at[m] = at[n]
      BY <1>7, <1>11, <1>12
    <2>2. m - 1 = n - 1
      BY <1>11, <2>1
    <2> QED
      BY <1>4, <2>2
  <1>16. ids # <<>> => Dedup(ids) # <<>>
    <2> SUFFICES ASSUME ids # <<>> PROVE size >= 1
      BY <1>14
    <2>1. before[1] \in 0 .. size - 1
      BY <1>6, <1>8
    <2> QED
      BY <1>4, <2>1
  <1>17. ASSUME firsts = 1 .. len PROVE Dedup(ids) = ids
    <2>1. size = len
      BY <1>2, <1>17 DEF size
    <2>2. \A k \in 1 .. size : at[k] = k
      <3>1. \A k \in 0 .. len : IsFiniteSet(1 .. k) /\ Cardinality(1 .. k) = k
        <4> SUFFICES ASSUME NEW k \in 0 .. len PROVE IsFiniteSet(1 .. k) /\ Cardinality(1 .. k) = k
          OBVIOUS
        <4>1. 1 \in Int /\ k \in Int
          BY <1>1
        <4>2. Cardinality(1 .. k) = (IF 1 > k THEN 0 ELSE k - 1 + 1) /\ IsFiniteSet(1 .. k)
          BY <4>1, FS_Interval
        <4> QED
          BY <1>1, <4>1, <4>2
      <3>2. \A n \in firsts : before[n] = n - 1
        <4> SUFFICES ASSUME NEW n \in firsts PROVE before[n] = n - 1
          OBVIOUS
        <4>1. n \in 1 .. len /\ n - 1 \in 0 .. len
          BY <1>1, <1>17
        <4>2. {m \in firsts : m < n} = 1 .. n - 1
          BY <1>1, <1>17, <4>1
        <4> QED
          BY <3>1, <4>1, <4>2 DEF before
      <3> QED
        BY <1>1, <1>11, <1>17, <3>2
    <2> QED
      BY <1>1, <1>12, <2>1, <2>2
  <1> QED
    BY <1>4, <1>10, <1>14, <1>15, <1>16, <1>17 DEF len

\* What is targeted is plain, when it is anything, and what is plain is targeted.
LEMMA TargetFacts ==
    ASSUME NEW sub \in Guids \cup {Gone}, NEW ids \in IdLists
    PROVE  /\ ids \in Picked /\ TargetIds(sub, ids) # <<>> => Plain(TargetIds(sub, ids))
           /\ Plain(ids) => TargetIds(sub, ids) = ids
  <1>1. ids \in Seq(Guids) /\ Len(ids) \in 0 .. 3
    BY IdListFacts
  <1>2. ASSUME ids \in Picked, TargetIds(sub, ids) # <<>> PROVE Plain(TargetIds(sub, ids))
    <2> DEFINE listed == IF ids # <<>> THEN ids ELSE IF sub # Gone THEN <<sub>> ELSE <<>>
    <2>1. listed \in Seq(Guids) /\ Len(listed) <= 2
      BY <1>1, <1>2 DEF Picked
    <2>2. TargetIds(sub, ids) = Dedup(listed)
      BY <1>2 DEF TargetIds
    <2> HIDE DEF listed
    <2>3. /\ Dedup(listed) \in Seq(Guids) /\ Len(Dedup(listed)) \in Nat
          /\ Len(Dedup(listed)) <= Len(listed)
          /\ \A m, n \in DOMAIN Dedup(listed) : Dedup(listed)[m] = Dedup(listed)[n] => m = n
      BY <2>1, DedupFacts
    <2>4. Len(listed) \in Nat
      BY <2>1
    <2>5. Len(Dedup(listed)) \in 0 .. 3 /\ Len(Dedup(listed)) <= 2
      <3> DEFINE m == Len(Dedup(listed))
                 n == Len(listed)
      <3>1. m \in Nat /\ n \in Nat /\ m <= n /\ n <= 2
        BY <2>1, <2>3, <2>4
      <3> HIDE DEF m, n
      <3>2. m \in 0 .. 3 /\ m <= 2
        BY <3>1
      <3> QED
        BY <3>2 DEF m
    <2>6. Dedup(listed) \in IdLists
      BY <2>3, <2>5, IdListFacts
    <2> QED
      BY <1>2, <2>2, <2>3, <2>5, <2>6 DEF Plain
  <1>3. ASSUME Plain(ids) PROVE TargetIds(sub, ids) = ids
    <2>1. Range(ids) \subseteq Guids
      BY <1>1 DEF Range
    <2>2. Dedup(ids) = ids
      BY <1>1, <1>3, DedupFacts DEF Plain
    <2> QED
      BY <1>3, <2>1, <2>2 DEF TargetIds, Plain
  <1> QED
    BY <1>2, <1>3

\* The first of a plain list is a subscription.
LEMMA PlainFacts ==
    ASSUME NEW ids, Plain(ids)
    PROVE  /\ ids \in Seq(Guids) /\ ids \in IdLists /\ ids # <<>>
           /\ Head(ids) = ids[1] /\ ids[1] \in Guids
  <1>1. ids \in IdLists /\ ids # <<>>
    BY DEF Plain
  <1>2. ids \in Seq(Guids)
    BY <1>1, IdListFacts
  <1> QED
    BY <1>1, <1>2

\* A single subscription is a plain list.
LEMMA SinglePlain == ASSUME NEW g \in Guids PROVE Plain(<<g>>)
  <1> DEFINE one == <<g>>
  <1>1. /\ one \in Seq(Guids) /\ Len(one) \in 0 .. 3 /\ Len(one) <= 2 /\ one # <<>>
        /\ \A m, n \in DOMAIN one : m = n
    OBVIOUS
  <1> HIDE DEF one
  <1>2. one \in IdLists
    BY <1>1, IdListFacts
  <1>3. Plain(one)
    BY <1>1, <1>2 DEF Plain
  <1> QED
    BY <1>3 DEF one

\* What a GET tells of a sound row: a plain list with its first as the primary one.
LEMMA RecordFacts ==
    ASSUME NEW b, NEW row, Sound(b, row)
    PROVE  /\ Plain(BomRecord(b, row).ids)
           /\ BomRecord(b, row).sub = BomRecord(b, row).ids[1]
           /\ BomRecord(b, row) \in BomRow
           /\ BomRecord(b, row).skus = row.skus
           /\ BomRecord(b, row).services = row.services
           /\ BomRecord(b, row).regions = row.regions
           /\ BomRecord(b, row).details = row.details
  <1> DEFINE ids == CASE row.ids # <<>> -> row.ids
                      [] row.ids = <<>> /\ row.sub # Gone -> <<row.sub>>
                      [] OTHER -> <<b>>
  <1>1. row \in BomRow
    BY DEF Sound
  <1>2. \A g \in Guids : Plain(<<g>>)
    BY SinglePlain
  <1>3. Plain(ids)
    <2>1. CASE row.ids # <<>>
      BY <2>1 DEF Sound
    <2>2. CASE row.ids = <<>> /\ row.sub # Gone
      <3>1. row.sub \in Guids
        BY <1>1, <2>2 DEF BomRow
      <3> QED
        BY <1>2, <2>2, <3>1
    <2>3. CASE row.ids = <<>> /\ row.sub = Gone
      <3>1. b \in Guids
        BY <2>3 DEF Sound
      <3> QED
        BY <1>2, <2>3, <3>1
    <2> QED
      BY <2>1, <2>2, <2>3
  <1>4. ids \in IdLists /\ ids \in Seq(Guids) /\ ids # <<>>
    BY <1>3, IdListFacts DEF Plain
  <1>5. Head(ids) = ids[1] /\ ids[1] \in Guids
    BY <1>4
  <1>6. BomRecord(b, row) = [row EXCEPT !.ids = ids, !.sub = Head(ids)]
    BY DEF BomRecord
  <1> HIDE DEF ids
  <1> QED
    BY <1>1, <1>3, <1>4, <1>5, <1>6 DEF BomRow

\* A sound row can be saved as it was read.
LEMMA ReadThenSaved ==
    ASSUME NEW b, NEW row, Sound(b, row), row.services \cup row.regions \subseteq offered
    PROVE  LET r == BomRecord(b, row)
           IN  /\ r.ids # <<>>
               /\ Accepted(r.sub, r.ids, r.services, r.regions)
               /\ BomRecord(b, PutBody(b, r)) = r
  <1> DEFINE r == BomRecord(b, row)
             q == PutBody(b, r)
             again == BomRecord(b, q)
  <1>1. /\ Plain(r.ids) /\ r.sub = r.ids[1] /\ r \in BomRow /\ r.services = row.services
        /\ r.regions = row.regions
    BY RecordFacts
  <1> HIDE DEF r
  <1>2. r.ids \in Seq(Guids) /\ r.ids \in IdLists /\ r.ids # <<>> /\ r.sub \in Guids
    BY <1>1, IdListFacts DEF Plain
  <1>3. TargetIds(r.sub, r.ids) = r.ids
    BY <1>1, <1>2, TargetFacts
  <1>4. r.sub # Gone
    BY <1>2, BomAssumption
  <1>5. q = Normalized(r.sub, r.ids, r.skus, r.services, r.regions, r.details)
    BY <1>4 DEF PutBody
  <1>6. Head(r.ids) = r.sub
    BY <1>1, <1>2
  <1>7. q = [sub |-> r.sub, ids |-> r.ids, skus |-> r.skus, services |-> r.services,
             regions |-> r.regions, details |-> r.details]
    BY <1>3, <1>5, <1>6 DEF Normalized
  <1> HIDE DEF q
  <1>8. q = r
    BY <1>1, <1>7 DEF BomRow
  <1>9. BomRecord(b, r) = [r EXCEPT !.ids = r.ids, !.sub = r.sub]
    BY <1>2, <1>6 DEF BomRecord
  <1>10. again = r
    BY <1>1, <1>8, <1>9 DEF BomRow
  <1>11. Accepted(r.sub, r.ids, r.services, r.regions)
    BY <1>1, <1>2, <1>3 DEF Accepted
  <1> QED
    BY <1>2, <1>10, <1>11 DEF r, q

\* Every sound table can be edited and saved again.
LEMMA SoundRowsSave == RowsSound => SavesAsRead
  BY ReadThenSaved DEF RowsSound, SavesAsRead

------------------------------------------------------------------------------
\* Whoever changes BOMs during an import leaves them touched.
LEMMA OthersTouch ==
    ASSUME BomTypeOK, ImportSound, archive' = archive, restore' = restore,
           unwritten' = unwritten, troubles' \in {troubles, troubles + 1},
           Importing => /\ touched \subseteq touched'
                        /\ \A b \in Boms \ touched' : boms'[b] = boms[b]
    PROVE  ImportSound'
  <1>1. troubles \in Nat /\ troubles' \in Nat /\ troubles' >= troubles
    BY BomAssumption DEF BomTypeOK
  <1>2. Importing' <=> Importing
    BY DEF Importing
  <1>3. \A what : Archived(what)' = Archived(what)
    BY DEF Archived
  <1>4. Archived("boms") \subseteq Boms /\ Archived("runs") \subseteq Boms
    BY DEF Archived
  <1> SUFFICES ASSUME Importing
               PROVE  ImportSound'
    BY <1>2 DEF ImportSound
  <1>5. Left \subseteq Left'
    BY DEF Left
  <1>6. \A b \in Boms \ Left' : boms'[b] = boms[b]
    BY DEF Left
  <1>7. \A b \in Archived("boms") \ Left' : AsArchived(b) => AsArchived(b)'
    BY <1>4, <1>6 DEF AsArchived
  <1>8. \A b \in Archived("runs") \ Left' : AsAnalysed(b) => AsAnalysed(b)'
    BY <1>1, <1>4, <1>6 DEF AsAnalysed
  <1> QED
    BY <1>2, <1>3, <1>5, <1>7, <1>8 DEF ImportSound

\* A save checks the whole row and writes nothing yet.
LEMMA SaveBomKeeps ==
    ASSUME BomInv, NEW w \in Authors, NEW b \in Boms, NEW ids \in Picked, NEW known \in BOOLEAN,
           NEW services \in Asked, NEW regions \in SUBSET BomRegions,
           SaveBom(w, b, ids, known, services, regions)
    PROVE  BomInv'
  <1> USE DEF BomInv
  <1> DEFINE sub == IF b \in Guids THEN b ELSE Gone
             row == Normalized(sub, ids, known, services, regions, TRUE)
  <1>1. ids \in IdLists /\ sub \in Guids \cup {Gone} /\ services \in SUBSET Services
    BY BomAssumption DEF Picked
  <1>2. Plain(TargetIds(sub, ids))
    BY <1>1, TargetFacts DEF SaveBom, Accepted
  <1>3. Sound(b, row) /\ row \in BomRow
    <2> DEFINE listed == TargetIds(sub, ids)
    <2>1. row = [sub |-> Head(listed), ids |-> listed, skus |-> known, services |-> services,
                 regions |-> regions, details |-> TRUE]
      BY DEF Normalized
    <2> HIDE DEF listed, row
    <2>2. listed \in IdLists /\ listed # <<>> /\ Head(listed) = listed[1] /\ listed[1] \in Guids
      BY <1>2, PlainFacts DEF listed
    <2>3. row \in BomRow /\ row.ids = listed /\ row.sub = listed[1]
      BY <1>1, <2>1, <2>2 DEF BomRow
    <2> QED
      BY <1>2, <2>2, <2>3 DEF Sound, listed
  <1>4. draft' = [draft EXCEPT ![w] = [bom |-> b, row |-> row]]
    BY DEF SaveBom
  <1> HIDE DEF row, sub
  <1>5. /\ boms' = boms /\ offered' = offered /\ runs' = runs /\ archive' = archive
        /\ restore' = restore /\ troubles' = troubles /\ unwritten' = unwritten
        /\ touched' = touched /\ writes' \in 0 .. MaxWrites
    BY BomAssumption DEF SaveBom, WriteCount, BomTypeOK
  <1>6. BomTypeOK'
    BY <1>3, <1>4, <1>5 DEF BomTypeOK
  <1>7. DraftsSound'
    BY <1>3, <1>4, <1>5 DEF DraftsSound, BomTypeOK
  <1>8. RowsSound' /\ RunsSound' /\ CatalogWhole'
    BY <1>5 DEF RowsSound, RunsSound, CatalogWhole
  <1>9. ArchiveSound'
    BY <1>5 DEF ArchiveSound
  <1>10. ImportSound'
    BY <1>5, OthersTouch
  <1> QED
    BY <1>6, <1>7, <1>8, <1>9, <1>10

\* A checked row is written, or its write fails.
LEMMA WriteBomKeeps ==
    ASSUME BomInv, NEW w \in Authors, WriteBom(w)
    PROVE  BomInv'
  <1> USE DEF BomInv
  <1>1. /\ draft[w].bom \in Boms /\ draft[w].row \in BomRow
        /\ Sound(draft[w].bom, draft[w].row)
    BY DEF WriteBom, BomTypeOK, DraftsSound
  <1>2. /\ draft' = [draft EXCEPT ![w] = Gone] /\ offered' = offered /\ runs' = runs
        /\ archive' = archive /\ restore' = restore /\ unwritten' = unwritten /\ writes' = writes
    BY DEF WriteBom
  <1>3. /\ troubles' \in {troubles, troubles + 1} /\ troubles' \in 0 .. MaxTroubles
        /\ touched' \subseteq Boms
        /\ Importing => /\ touched \subseteq touched'
                        /\ \A b \in Boms \ touched' : boms'[b] = boms[b]
        /\ boms' \in {boms, [boms EXCEPT ![draft[w].bom] = draft[w].row]}
    <2>1. CASE /\ boms' = [boms EXCEPT ![draft[w].bom] = draft[w].row]
               /\ Touch({draft[w].bom}) /\ UNCHANGED troubles
      BY <1>1, <2>1 DEF Touch, BomTypeOK
    <2>2. CASE Trouble /\ UNCHANGED <<boms, touched>>
      BY <2>2, BomAssumption DEF Trouble, BomTypeOK
    <2> QED
      BY <2>1, <2>2 DEF WriteBom
  <1>4. BomTypeOK'
    BY <1>1, <1>2, <1>3 DEF BomTypeOK
  <1>5. RowsSound'
    BY <1>1, <1>3 DEF RowsSound, BomTypeOK
  <1>6. DraftsSound'
    BY <1>2 DEF DraftsSound, BomTypeOK
  <1>7. RunsSound' /\ ArchiveSound'
    BY <1>2 DEF RunsSound, ArchiveSound
  <1>8. CatalogWhole'
    BY <1>2, <1>3, BomAssumption DEF CatalogWhole, BomTypeOK
  <1>9. ImportSound'
    BY <1>2, <1>3, OthersTouch
  <1> QED
    BY <1>4, <1>5, <1>6, <1>7, <1>8, <1>9

LEMMA DeleteBomKeeps ==
    ASSUME BomInv, NEW b \in Boms, DeleteBom(b)
    PROVE  BomInv'
  <1> USE DEF BomInv
  <1>1. /\ boms' = [boms EXCEPT ![b] = Gone] /\ draft' = draft /\ offered' = offered
        /\ runs' = runs /\ archive' = archive /\ restore' = restore /\ unwritten' = unwritten
        /\ troubles' = troubles /\ writes' \in 0 .. MaxWrites
    BY BomAssumption DEF DeleteBom, WriteCount, BomTypeOK
  <1>2. /\ touched' \subseteq Boms
        /\ Importing => /\ touched \subseteq touched'
                        /\ \A c \in Boms \ touched' : boms'[c] = boms[c]
    BY <1>1 DEF DeleteBom, Touch, BomTypeOK
  <1>3. BomTypeOK'
    BY <1>1, <1>2 DEF BomTypeOK
  <1>4. RowsSound'
    BY <1>1 DEF RowsSound, BomTypeOK
  <1>5. DraftsSound' /\ RunsSound' /\ ArchiveSound' /\ CatalogWhole'
    BY <1>1 DEF DraftsSound, RunsSound, ArchiveSound, CatalogWhole
  <1>6. ImportSound'
    BY <1>1, <1>2, OthersTouch
  <1> QED
    BY <1>3, <1>4, <1>5, <1>6

LEMMA CatalogChangesKeeps ==
    ASSUME BomInv, CatalogChanges
    PROVE  BomInv'
  <1> USE DEF BomInv
  <1>1. /\ boms' = boms /\ draft' = draft /\ runs' = runs /\ archive' = archive
        /\ restore' = restore /\ unwritten' = unwritten /\ touched' = touched /\ writes' = writes
        /\ troubles' = troubles + 1 /\ troubles' \in 0 .. MaxTroubles /\ offered' \in Catalogs
    BY BomAssumption DEF CatalogChanges, Trouble, BomTypeOK
  <1>2. BomTypeOK'
    BY <1>1 DEF BomTypeOK
  <1>3. RowsSound' /\ DraftsSound' /\ RunsSound' /\ ArchiveSound'
    BY <1>1 DEF RowsSound, DraftsSound, RunsSound, ArchiveSound
  <1>4. CatalogWhole'
    BY <1>1, BomAssumption DEF CatalogWhole, BomTypeOK
  <1>5. ImportSound'
    BY <1>1, OthersTouch
  <1> QED
    BY <1>2, <1>3, <1>4, <1>5

\* What is analysed is told by the snapshot, with the operator's subscription when
\* it is queried too.
LEMMA AnalysedFacts ==
    ASSUME NEW ids, Plain(ids), NEW services \in SUBSET Services,
           NEW meta \in Analysed(ids, services)
    PROVE  SoundMeta(meta)
  <1>1. ids \in Seq(Guids) /\ Len(ids) \in 0 .. 3 /\ ids \in IdLists /\ ids # <<>>
    BY IdListFacts DEF Plain
  <1>2. CASE meta = [ids |-> ids, services |-> services, targets |-> ids]
    BY <1>1, <1>2 DEF SoundMeta, Meta
  <1>3. CASE /\ Operator \notin Range(ids)
             /\ meta = [ids |-> Append(ids, Operator), services |-> services, targets |-> ids]
    <2> DEFINE more == Append(ids, Operator)
    <2>1. Len(ids) <= 2
      BY <1>3 DEF Plain
    <2>2. /\ more \in Seq(Guids) /\ Len(more) = Len(ids) + 1 /\ more # <<>>
          /\ \A n \in 1 .. Len(ids) : more[n] = ids[n]
          /\ more[Len(ids) + 1] = Operator
          /\ DOMAIN more = 1 .. Len(ids) + 1
      BY <1>1, BomAssumption
    <2>3. \A n \in 1 .. Len(ids) : ids[n] # Operator
      BY <1>1, <1>3 DEF Range
    <2> HIDE DEF more
    <2>4. more \in IdLists
      <3>1. Len(more) \in 0 .. 3
        BY <1>1, <2>1, <2>2
      <3> QED
        BY <2>2, <3>1, IdListFacts
    <2>5. \A m, n \in DOMAIN more : more[m] = more[n] => m = n
      <3> SUFFICES ASSUME NEW m \in DOMAIN more, NEW n \in DOMAIN more, more[m] = more[n]
                   PROVE  m = n
        OBVIOUS
      <3>1. /\ m \in 1 .. Len(ids) \/ m = Len(ids) + 1
            /\ n \in 1 .. Len(ids) \/ n = Len(ids) + 1
        BY <1>1, <2>2
      <3>2. \A i, j \in 1 .. Len(ids) : ids[i] = ids[j] => i = j
        BY <1>1 DEF Plain
      <3> QED
        BY <2>2, <2>3, <3>1, <3>2
    <2>6. Operator \in Range(more)
      BY <1>1, <2>2 DEF Range
    <2>7. Plain(more)
      BY <2>2, <2>4, <2>5, <2>6 DEF Plain
    <2> QED
      BY <1>1, <1>3, <2>4, <2>7 DEF SoundMeta, Meta, more
  <1> QED
    BY <1>2, <1>3 DEF Analysed

\* An analysis, of a BOM or of a workbook, changes the newest one only.
LEMMA AnalysisKeeps ==
    ASSUME BomInv, NEW b \in Boms, NEW ids, Plain(ids), NEW services \in SUBSET Services,
           NEW meta \in Analysed(ids, services), runs' = [runs EXCEPT ![b] = meta], WriteCount,
           UNCHANGED <<boms, offered, draft, archive, restore, troubles, unwritten, touched>>
    PROVE  BomInv'
  <1> USE DEF BomInv
  <1>1. SoundMeta(meta) /\ meta \in Meta
    BY AnalysedFacts DEF SoundMeta
  <1>2. writes' \in 0 .. MaxWrites
    BY BomAssumption DEF WriteCount, BomTypeOK
  <1>3. BomTypeOK'
    BY <1>1, <1>2 DEF BomTypeOK
  <1>4. RunsSound'
    BY <1>1 DEF RunsSound, BomTypeOK
  <1>5. RowsSound' /\ DraftsSound' /\ ArchiveSound' /\ CatalogWhole'
    BY DEF RowsSound, DraftsSound, ArchiveSound, CatalogWhole
  <1>6. ImportSound'
    BY OthersTouch
  <1> QED
    BY <1>3, <1>4, <1>5, <1>6

LEMMA AnalyseKeeps ==
    ASSUME BomInv, NEW b \in Boms, Analyse(b)
    PROVE  BomInv'
  <1>1. Sound(b, boms[b]) /\ boms[b].services \in SUBSET Services
    BY DEF BomInv, RowsSound, Analyse, Sound, BomRow
  <1>2. Plain(BomRecord(b, boms[b]).ids)
    BY <1>1, RecordFacts
  <1> QED
    BY <1>1, <1>2, AnalysisKeeps DEF Analyse

LEMMA AnalyseUploadKeeps ==
    ASSUME BomInv, NEW b \in Boms, AnalyseUpload(b)
    PROVE  BomInv'
  <1>1. b \in Guids
    BY DEF AnalyseUpload
  <1>2. Plain(<<b>>)
    BY <1>1, SinglePlain
  <1> QED
    BY <1>2, AnalysisKeeps DEF AnalyseUpload

LEMMA WipeBomsKeeps ==
    ASSUME BomInv, WipeBoms
    PROVE  BomInv'
  <1> USE DEF BomInv
  <1>1. /\ boms' = [b \in Boms |-> Gone] /\ runs' = [b \in Boms |-> Gone] /\ draft' = draft
        /\ offered' = offered /\ archive' = archive /\ restore' = restore
        /\ unwritten' = unwritten /\ writes' = writes
        /\ troubles' = troubles + 1 /\ troubles' \in 0 .. MaxTroubles
        /\ touched' = IF Importing THEN touched \cup Boms ELSE touched
    BY BomAssumption DEF WipeBoms, Trouble, BomTypeOK, Touch
  <1>2. BomTypeOK'
    BY <1>1 DEF BomTypeOK
  <1>3. RowsSound' /\ DraftsSound' /\ RunsSound' /\ ArchiveSound'
    BY <1>1 DEF RowsSound, DraftsSound, RunsSound, ArchiveSound
  <1>4. CatalogWhole'
    BY <1>1, BomAssumption DEF CatalogWhole, BomTypeOK
  <1>5. ImportSound'
    BY <1>1, OthersTouch
  <1> QED
    BY <1>2, <1>3, <1>4, <1>5

LEMMA ExportKeeps ==
    ASSUME BomInv, Export
    PROVE  BomInv'
  <1> USE DEF BomInv
  <1>1. PICK listed \in {boms, [b \in Boms |-> Gone]} :
            archive' = [boms |-> listed, runs |-> runs]
    BY DEF Export
  <1>2. /\ ~Importing /\ boms' = boms /\ offered' = offered /\ draft' = draft /\ runs' = runs
        /\ restore' = restore /\ writes' = writes /\ troubles' = troubles
        /\ unwritten' = unwritten /\ touched' = touched
    BY DEF Export
  <1>3. listed \in [Boms -> BomRow \cup {Gone}]
    BY DEF BomTypeOK
  <1>4. BomTypeOK'
    BY <1>1, <1>2, <1>3 DEF BomTypeOK
  <1>5. RowsSound' /\ DraftsSound' /\ RunsSound' /\ CatalogWhole'
    BY <1>2 DEF RowsSound, DraftsSound, RunsSound, CatalogWhole
  <1>6. \A b \in Boms : listed[b] # Gone => Sound(b, listed[b])
    BY DEF RowsSound
  <1>7. ArchiveSound'
    BY <1>1, <1>6 DEF ArchiveSound, RunsSound
  <1>8. ImportSound'
    BY <1>2 DEF ImportSound, Importing
  <1> QED
    BY <1>4, <1>5, <1>7, <1>8

LEMMA BeginImportKeeps ==
    ASSUME BomInv, BeginImport
    PROVE  BomInv'
  <1> USE DEF BomInv
  <1>1. /\ archive # Gone /\ boms' = boms /\ offered' = offered /\ draft' = draft
        /\ archive' = archive /\ writes' = writes /\ troubles' = troubles
        /\ unwritten' = {} /\ touched' = {}
        /\ restore' = [stage |-> "rows", todo |-> Archived("boms"), restored |-> FALSE]
        /\ runs' = [b \in Boms |-> IF b \in Archived("runs") THEN archive.runs[b] ELSE runs[b]]
    BY DEF BeginImport
  <1>2. \A b \in Archived("runs") : archive.runs[b] \in Meta /\ SoundMeta(archive.runs[b])
    BY <1>1 DEF Archived, ArchiveSound, SoundMeta
  <1>3. Archived("boms") \subseteq Boms /\ Archived("boms")' = Archived("boms")
    BY <1>1 DEF Archived
  <1>4. BomTypeOK'
    BY <1>1, <1>2, <1>3 DEF BomTypeOK
  <1>5. RowsSound' /\ DraftsSound' /\ ArchiveSound' /\ CatalogWhole'
    BY <1>1 DEF RowsSound, DraftsSound, ArchiveSound, CatalogWhole
  <1>6. RunsSound'
    BY <1>1, <1>2 DEF RunsSound
  <1>7. ImportSound'
    BY <1>1, <1>3 DEF ImportSound, Left
  <1> QED
    BY <1>4, <1>5, <1>6, <1>7

\* One write of an import: the row is there, or the BOM is unwritten.
LEMMA PutBackFacts ==
    ASSUME BomInv, NEW b \in restore.todo, NEW row, Sound(b, row), PutBack(b, row)
    PROVE  /\ BomTypeOK' /\ RowsSound' /\ DraftsSound' /\ RunsSound' /\ ArchiveSound'
           /\ CatalogWhole'
           /\ archive' = archive /\ b \in Boms /\ restore'.todo = restore.todo \ {b}
           /\ restore'.stage = restore.stage
           /\ \/ /\ boms' = [boms EXCEPT ![b] = row] /\ restore'.restored
                 /\ touched' = touched \ {b} /\ unwritten' = unwritten /\ troubles' = troubles
              \/ /\ boms' = boms /\ restore'.restored = restore.restored
                 /\ touched' = touched /\ unwritten' = unwritten \cup {b}
                 /\ troubles' = troubles + 1 /\ troubles \in Nat
  <1> USE DEF BomInv
  <1>1. /\ offered' = offered /\ draft' = draft /\ runs' = runs /\ archive' = archive
        /\ writes' = writes
    BY DEF PutBack
  <1>2. b \in Boms /\ restore.todo \subseteq Boms /\ row \in BomRow
    BY DEF BomTypeOK, Sound
  <1>3. \/ /\ boms' = [boms EXCEPT ![b] = row]
           /\ restore' = [restore EXCEPT !.todo = @ \ {b}, !.restored = TRUE]
           /\ touched' = touched \ {b} /\ unwritten' = unwritten /\ troubles' = troubles
        \/ /\ boms' = boms /\ restore' = [restore EXCEPT !.todo = @ \ {b}]
           /\ touched' = touched /\ unwritten' = unwritten \cup {b}
           /\ troubles' = troubles + 1 /\ troubles \in Nat /\ troubles' \in 0 .. MaxTroubles
    BY BomAssumption DEF PutBack, Trouble, BomTypeOK
  <1>4. BomTypeOK'
    <2>1. boms' \in [Boms -> BomRow \cup {Gone}]
      BY <1>2, <1>3 DEF BomTypeOK
    <2>2. restore' \in [stage : {"idle", "rows", "rebuild", "end"}, todo : SUBSET Boms,
                        restored : BOOLEAN]
      BY <1>3 DEF BomTypeOK
    <2>3. troubles' \in 0 .. MaxTroubles /\ unwritten' \subseteq Boms /\ touched' \subseteq Boms
      BY <1>2, <1>3 DEF BomTypeOK
    <2> QED
      BY <1>1, <2>1, <2>2, <2>3 DEF BomTypeOK
  <1>5. RowsSound'
    BY <1>2, <1>3 DEF RowsSound, BomTypeOK
  <1>6. DraftsSound' /\ RunsSound' /\ ArchiveSound'
    BY <1>1 DEF DraftsSound, RunsSound, ArchiveSound
  <1>7. CatalogWhole'
    BY <1>1, <1>3, BomAssumption DEF CatalogWhole, BomTypeOK
  <1>8. /\ restore'.todo = restore.todo \ {b} /\ restore'.stage = restore.stage
        /\ \/ /\ boms' = [boms EXCEPT ![b] = row] /\ restore'.restored
              /\ touched' = touched \ {b} /\ unwritten' = unwritten /\ troubles' = troubles
           \/ /\ boms' = boms /\ restore'.restored = restore.restored
              /\ touched' = touched /\ unwritten' = unwritten \cup {b}
              /\ troubles' = troubles + 1 /\ troubles \in Nat
    BY <1>3 DEF BomTypeOK
  <1> HIDE DEF BomInv
  <1> QED
    BY <1>1, <1>2, <1>4, <1>5, <1>6, <1>7, <1>8

LEMMA RestoreBomKeeps ==
    ASSUME BomInv, NEW b \in Boms, RestoreBom(b)
    PROVE  BomInv'
  <1>1. /\ restore.stage = "rows" /\ b \in restore.todo /\ PutBack(b, archive.boms[b])
    BY DEF RestoreBom
  <1>2. Importing /\ archive # Gone
    BY <1>1 DEF Importing, BomInv, ImportSound
  <1>3. b \in Archived("boms") /\ Sound(b, archive.boms[b])
    BY <1>1, <1>2 DEF BomInv, ImportSound, ArchiveSound, Archived
  <1> DEFINE row == archive.boms[b]
  <1>4. /\ BomTypeOK' /\ RowsSound' /\ DraftsSound' /\ RunsSound' /\ ArchiveSound'
        /\ CatalogWhole'
        /\ archive' = archive /\ restore'.todo = restore.todo \ {b} /\ restore'.stage = "rows"
        /\ \/ /\ boms' = [boms EXCEPT ![b] = row] /\ restore'.restored
              /\ touched' = touched \ {b} /\ unwritten' = unwritten
           \/ /\ boms' = boms /\ restore'.restored = restore.restored
              /\ touched' = touched /\ unwritten' = unwritten \cup {b}
    BY <1>1, <1>3, PutBackFacts
  <1>5. Archived("boms")' = Archived("boms") /\ Archived("boms") \subseteq Boms
    BY <1>4 DEF Archived
  <1>6. /\ restore.restored \/ Archived("boms") \subseteq restore.todo \cup unwritten
        /\ restore.todo \subseteq Archived("boms")
        /\ \A c \in Archived("boms") \ Left : AsArchived(c)
    BY <1>1, <1>2 DEF BomInv, ImportSound
  <1>7. \A c \in Archived("boms") \ Left' : AsArchived(c)'
    <2> SUFFICES ASSUME NEW c \in Archived("boms") \ Left' PROVE boms'[c] = archive.boms[c]
      BY <1>4 DEF AsArchived
    <2>1. boms \in [Boms -> BomRow \cup {Gone}] /\ c \in Boms
      BY <1>5 DEF BomInv, BomTypeOK
    <2>2. CASE c = b
      BY <1>4, <2>1, <2>2 DEF Left
    <2>3. CASE c # b
      <3>1. c \notin Left
        BY <1>4, <2>3 DEF Left
      <3>2. boms'[c] = boms[c]
        BY <1>4, <2>1, <2>3
      <3> QED
        BY <1>6, <3>1, <3>2 DEF AsArchived
    <2> QED
      BY <2>2, <2>3
  <1>8. /\ restore'.restored \/ Archived("boms") \subseteq restore'.todo \cup unwritten'
        /\ restore'.todo \subseteq Archived("boms")
    BY <1>4, <1>6
  <1>9. ImportSound'
    BY <1>2, <1>3, <1>4, <1>5, <1>7, <1>8 DEF ImportSound
  <1> QED
    BY <1>4, <1>9 DEF BomInv

LEMMA RestoredRowsKeeps ==
    ASSUME BomInv, RestoredRows
    PROVE  BomInv'
  <1> USE DEF BomInv
  <1>1. /\ restore.stage = "rows" /\ restore.todo = {} /\ boms' = boms /\ offered' = offered
        /\ draft' = draft /\ runs' = runs /\ archive' = archive /\ writes' = writes
        /\ troubles' = troubles /\ unwritten' = unwritten /\ touched' = touched
    BY DEF RestoredRows
  <1>2. /\ Archived("boms")' = Archived("boms") /\ Archived("runs")' = Archived("runs")
        /\ Archived("runs") \subseteq Boms
    BY <1>1 DEF Archived
  <1>3. /\ restore.restored => /\ restore'.stage = "end" /\ restore'.todo = {} /\ restore'.restored
        /\ ~restore.restored => /\ restore'.stage = "rebuild" /\ restore'.todo = Archived("runs")
        /\ restore' \in [stage : {"idle", "rows", "rebuild", "end"}, todo : SUBSET Boms,
                         restored : BOOLEAN]
    BY <1>1, <1>2 DEF RestoredRows, BomTypeOK
  <1>4. BomTypeOK'
    BY <1>1, <1>3 DEF BomTypeOK
  <1>5. RowsSound' /\ DraftsSound' /\ RunsSound' /\ ArchiveSound' /\ CatalogWhole'
    BY <1>1 DEF RowsSound, DraftsSound, RunsSound, ArchiveSound, CatalogWhole
  <1>6. /\ archive # Gone
        /\ restore.restored \/ Archived("boms") \subseteq unwritten
        /\ restore.restored => Archived("boms") # {}
        /\ \A b \in Archived("boms") \ (unwritten \cup touched) : AsArchived(b)
    BY <1>1 DEF ImportSound, Importing, Left
  <1> HIDE DEF BomInv
  <1>7. ASSUME restore.restored PROVE ImportSound'
    <2>1. restore'.stage = "end" /\ restore'.todo = {} /\ restore'.restored
      BY <1>3, <1>7
    <2>2. Left' = unwritten \cup touched
      BY <1>1, <2>1 DEF Left
    <2>3. \A b \in Archived("boms")' \ Left' : AsArchived(b)'
      BY <1>1, <1>2, <1>6, <2>2 DEF AsArchived
    <2>4. archive' # Gone /\ Archived("boms")' # {}
      BY <1>1, <1>2, <1>6, <1>7
    <2> QED
      BY <2>1, <2>3, <2>4 DEF ImportSound
  <1>8. ASSUME ~restore.restored PROVE ImportSound'
    <2>1. restore'.stage = "rebuild" /\ restore'.todo = Archived("runs")
      BY <1>3, <1>8
    <2>2. Archived("runs") \subseteq Left'
      BY <2>1 DEF Left
    <2>3. Archived("boms")' \subseteq unwritten' /\ archive' # Gone
      BY <1>1, <1>2, <1>6, <1>8
    <2>4. Archived("runs")' \ Left' = {} /\ restore'.todo \subseteq Archived("runs")'
      BY <1>2, <2>1, <2>2
    <2> QED
      BY <2>1, <2>3, <2>4 DEF ImportSound
  <1> QED
    BY <1>4, <1>5, <1>7, <1>8 DEF BomInv

LEMMA RebuildBomKeeps ==
    ASSUME BomInv, NEW b \in Boms, RebuildBom(b)
    PROVE  BomInv'
  <1> DEFINE meta == archive.runs[b]
             known == Accepted(Gone, meta.ids, meta.services, {})
             row == Normalized(Gone, meta.ids, known, IF known THEN meta.services ELSE {}, {}, FALSE)
  <1>1. restore.stage = "rebuild" /\ b \in restore.todo /\ PutBack(b, row)
    BY DEF RebuildBom
  <1>2. Importing /\ archive # Gone
    BY <1>1 DEF Importing, BomInv, ImportSound
  <1>3. SoundMeta(meta)
    BY <1>1, <1>2 DEF BomInv, ImportSound, ArchiveSound, Archived
  <1>4. /\ meta.ids \in IdLists /\ meta.ids # <<>> /\ Plain(meta.ids)
        /\ Head(meta.ids) = meta.ids[1] /\ meta.ids[1] \in Guids
        /\ meta.ids \in {meta.targets, Append(meta.targets, Operator)}
        /\ meta.services \in SUBSET Services
    BY <1>3, PlainFacts DEF SoundMeta, Meta
  <1> HIDE DEF meta
  <1>5. TargetIds(Gone, meta.ids) = meta.ids
    BY <1>4, TargetFacts
  <1>6. known \in BOOLEAN /\ (known <=> meta.services \subseteq offered)
    BY <1>4, <1>5 DEF Accepted
  <1>7. known \/ troubles > 0
    BY <1>4, <1>6 DEF BomInv, CatalogWhole
  <1>8. row = [sub |-> meta.ids[1], ids |-> meta.ids, skus |-> known,
               services |-> IF known THEN meta.services ELSE {}, regions |-> {},
               details |-> FALSE]
    BY <1>4, <1>5 DEF Normalized
  <1> HIDE DEF row, known
  <1>9. /\ row \in BomRow /\ row.ids = meta.ids /\ row.sub = meta.ids[1]
        /\ known => row.skus /\ row.services = meta.services
        /\ ~known => row.services = {}
    BY <1>4, <1>6, <1>8 DEF BomRow
  <1>10. Sound(b, row) /\ row # Gone
    <2>1. Sound(b, row)
      BY <1>4, <1>9 DEF Sound
    <2> QED
      BY <1>9, <2>1, BomMark
  <1>11. /\ BomTypeOK' /\ RowsSound' /\ DraftsSound' /\ RunsSound' /\ ArchiveSound'
         /\ CatalogWhole'
         /\ archive' = archive /\ restore'.todo = restore.todo \ {b} /\ restore'.stage = "rebuild"
         /\ \/ /\ boms' = [boms EXCEPT ![b] = row]
               /\ touched' = touched \ {b} /\ unwritten' = unwritten /\ troubles' = troubles
            \/ /\ boms' = boms
               /\ touched' = touched /\ unwritten' = unwritten \cup {b}
               /\ troubles' = troubles + 1 /\ troubles \in Nat
    BY <1>1, <1>10, PutBackFacts
  <1>12. /\ Archived("boms")' = Archived("boms") /\ Archived("runs")' = Archived("runs")
         /\ Archived("runs") \subseteq Boms
    BY <1>11 DEF Archived
  <1>13. /\ Archived("boms") \subseteq unwritten
         /\ restore.todo \subseteq Archived("runs")
         /\ Archived("boms") = {} => \A c \in Archived("runs") \ Left : AsAnalysed(c)
    BY <1>1, <1>2 DEF BomInv, ImportSound
  <1>14. Archived("boms") = {} => \A c \in Archived("runs") \ Left' : AsAnalysed(c)'
    <2> SUFFICES ASSUME Archived("boms") = {}, NEW c \in Archived("runs") \ Left'
                 PROVE  AsAnalysed(c)'
      OBVIOUS
    <2>1. boms \in [Boms -> BomRow \cup {Gone}] /\ c \in Boms
      BY <1>12 DEF BomInv, BomTypeOK
    <2>2. CASE c = b
      <3>1. boms'[b] = row /\ troubles' = troubles
        BY <1>11, <2>1, <2>2 DEF Left
      <3> QED
        BY <1>4, <1>7, <1>9, <1>10, <1>11, <2>2, <3>1 DEF AsAnalysed, meta
    <2>3. CASE c # b
      <3>1. c \notin Left
        BY <1>11, <2>3 DEF Left
      <3>2. boms'[c] = boms[c] /\ (troubles > 0 => troubles' > 0)
        BY <1>11, <2>1, <2>3
      <3> QED
        BY <1>11, <1>13, <3>1, <3>2 DEF AsAnalysed
    <2> QED
      BY <2>2, <2>3
  <1>15. ImportSound'
    BY <1>2, <1>11, <1>12, <1>13, <1>14 DEF ImportSound
  <1> QED
    BY <1>11, <1>15 DEF BomInv

LEMMA EndImportKeeps ==
    ASSUME BomInv, EndImport
    PROVE  BomInv'
  <1> USE DEF BomInv
  <1>1. /\ restore' = NoImport /\ boms' = boms /\ offered' = offered
        /\ draft' = draft /\ runs' = runs /\ archive' = archive /\ writes' = writes
        /\ troubles' = troubles /\ unwritten' = unwritten /\ touched' = touched
    BY DEF EndImport
  <1>2. BomTypeOK'
    BY <1>1 DEF BomTypeOK, NoImport
  <1>3. RowsSound' /\ DraftsSound' /\ RunsSound' /\ ArchiveSound' /\ CatalogWhole'
    BY <1>1 DEF RowsSound, DraftsSound, RunsSound, ArchiveSound, CatalogWhole
  <1>4. ImportSound'
    BY <1>1 DEF ImportSound, Importing, NoImport
  <1> QED
    BY <1>2, <1>3, <1>4

LEMMA BomStutterKeeps == ASSUME BomInv, UNCHANGED bomVars PROVE BomInv'
  BY DEF BomInv, bomVars, BomTypeOK, RowsSound, DraftsSound, RunsSound, ArchiveSound,
         CatalogWhole, ImportSound, Importing, Archived, AsArchived, AsAnalysed, Left

------------------------------------------------------------------------------
\* The rows of all releases are sound.
LEMMA BomStarts == BomInit => BomInv
  <1> SUFFICES ASSUME BomInit PROVE BomInv
    OBVIOUS
  <1>1. ASSUME NEW row \in Newer, NEW b \in Boms PROVE Sound(b, row) /\ row \in BomRow
    <2>1. PICK asked \in Asked, ids \in Picked \ {<<>>} :
                  row = Normalized(Gone, ids, TRUE, asked, BomRegions, TRUE)
      BY <1>1 DEF Newer
    <2> DEFINE listed == TargetIds(Gone, ids)
    <2>2. ids \in IdLists /\ ids \in Seq(Guids)
      BY IdListFacts DEF Picked
    <2>3. Plain(listed)
      <3>1. Range(ids) \subseteq Guids
        BY <2>2 DEF Range
      <3>2. Dedup(ids) # <<>> /\ listed = Dedup(ids)
        BY <2>2, <3>1, DedupFacts DEF TargetIds
      <3> QED
        BY <2>2, <3>2, TargetFacts
    <2>4. row = [sub |-> Head(listed), ids |-> listed, skus |-> TRUE, services |-> asked,
                 regions |-> BomRegions, details |-> TRUE]
      BY <2>1 DEF Normalized
    <2> HIDE DEF listed
    <2>5. listed \in IdLists /\ listed # <<>> /\ Head(listed) = listed[1] /\ listed[1] \in Guids
      BY <2>3, PlainFacts
    <2>6. row \in BomRow /\ row.ids = listed /\ row.sub = listed[1]
      BY <2>4, <2>5, BomAssumption DEF BomRow
    <2> QED
      BY <2>3, <2>5, <2>6 DEF Sound
  <1>2. ASSUME NEW b \in Boms, NEW row \in Older(b) PROVE Sound(b, row) /\ row \in BomRow
    <2>1. <<>> \in IdLists
      <3>1. <<>> \in Seq(Guids) /\ Len(<<>>) \in 0 .. 3
        OBVIOUS
      <3> QED
        BY <3>1, IdListFacts
    <2>2. /\ row.sub \in Guids \cup {Gone} /\ row.ids = <<>> /\ row.skus = TRUE
          /\ row.services \in SUBSET Services /\ row.regions = BomRegions /\ row.details = TRUE
          /\ row.sub = Gone => b \in Guids
      BY BomAssumption DEF Older
    <2>3. row \in BomRow
      <3>1. row = [sub |-> row.sub, ids |-> row.ids, skus |-> row.skus, services |-> row.services,
                   regions |-> row.regions, details |-> row.details]
        BY DEF Older
      <3> QED
        BY <2>1, <2>2, <3>1 DEF BomRow
    <2> QED
      BY <2>2, <2>3 DEF Sound
  <1>3. boms \in [Boms -> BomRow \cup {Gone}] /\ RowsSound
    <2>1. \A b \in Boms : boms[b] \in BomRow \cup {Gone} /\ (boms[b] # Gone => Sound(b, boms[b]))
      BY <1>1, <1>2 DEF BomInit
    <2>2. boms = [b \in Boms |-> boms[b]]
      BY DEF BomInit
    <2> QED
      BY <2>1, <2>2 DEF RowsSound
  <1>4. BomTypeOK
    <2>1. offered \in Catalogs
      BY BomAssumption DEF Catalogs, BomInit
    <2> QED
      BY <1>3, <2>1, BomAssumption DEF BomTypeOK, BomInit, NoImport
  <1> QED
    BY <1>3, <1>4 DEF BomInv, BomInit, DraftsSound, RunsSound, ArchiveSound, CatalogWhole,
                      ImportSound, Importing, NoImport

LEMMA BomSteps == BomInv /\ [BomNext]_bomVars => BomInv'
  <1> SUFFICES ASSUME BomInv, [BomNext]_bomVars PROVE BomInv'
    OBVIOUS
  <1>1. ASSUME NEW w \in Authors, NEW b \in Boms, NEW ids \in Picked, NEW known \in BOOLEAN,
               NEW services \in Asked, NEW regions \in SUBSET BomRegions,
               SaveBom(w, b, ids, known, services, regions)
        PROVE  BomInv'
    BY <1>1, SaveBomKeeps
  <1>2. ASSUME NEW w \in Authors, WriteBom(w) PROVE BomInv'
    BY <1>2, WriteBomKeeps
  <1>3. ASSUME NEW b \in Boms, DeleteBom(b) PROVE BomInv'
    BY <1>3, DeleteBomKeeps
  <1>4. ASSUME NEW b \in Boms, Analyse(b) PROVE BomInv'
    BY <1>4, AnalyseKeeps
  <1>5. ASSUME NEW b \in Boms, AnalyseUpload(b) PROVE BomInv'
    BY <1>5, AnalyseUploadKeeps
  <1>6. ASSUME NEW b \in Boms, RestoreBom(b) PROVE BomInv'
    BY <1>6, RestoreBomKeeps
  <1>7. ASSUME NEW b \in Boms, RebuildBom(b) PROVE BomInv'
    BY <1>7, RebuildBomKeeps
  <1>8. CASE CatalogChanges
    BY <1>8, CatalogChangesKeeps
  <1>9. CASE WipeBoms
    BY <1>9, WipeBomsKeeps
  <1>10. CASE Export
    BY <1>10, ExportKeeps
  <1>11. CASE BeginImport
    BY <1>11, BeginImportKeeps
  <1>12. CASE RestoredRows
    BY <1>12, RestoredRowsKeeps
  <1>13. CASE EndImport
    BY <1>13, EndImportKeeps
  <1>14. CASE UNCHANGED bomVars
    BY <1>14, BomStutterKeeps
  <1> QED
    BY <1>1, <1>2, <1>3, <1>4, <1>5, <1>6, <1>7, <1>8, <1>9, <1>10, <1>11, <1>12, <1>13, <1>14
       DEF BomNext

LEMMA BomInvariant == BomSpec => []BomInv
  BY BomStarts, BomSteps, PTL DEF BomSpec

\* For any BOMs, subscriptions, services and threads: every step keeps rows, drafts,
\* analyses, the archive and the import in their types.
THEOREM BomTypeCorrect == BomSpec => []BomTypeOK
  <1>1. BomInv => BomTypeOK
    BY DEF BomInv
  <1> QED
    BY <1>1, BomInvariant, PTL

\* For any BOMs, subscriptions, services and threads: a BOM of whatever release, or
\* rebuilt from an analysis, can be saved again as it was read.
THEOREM SavedAsRead == BomSpec => []SavesAsRead
  <1>1. BomInv => SavesAsRead
    BY SoundRowsSave DEF BomInv
  <1> QED
    BY <1>1, BomInvariant, PTL

\* For any BOMs, subscriptions, services, threads, failing writes and interleaved
\* saves: an import that answers has put back what the archive has.
THEOREM ImportPutsBack == BomSpec => ImportRestores
  <1> DEFINE Restored ==
               Importing /\ restore'.stage = "idle" =>
                  \A b \in Boms \ (unwritten \cup touched) :
                      IF Archived("boms") # {}
                      THEN b \in Archived("boms") => boms[b] = archive.boms[b]
                      ELSE b \in Archived("runs") => LET targets == archive.runs[b].targets IN
                             /\ boms[b] # Gone
                             /\ boms[b].ids \in {targets, Append(targets, Operator)}
                             /\ \/ boms[b].skus /\ boms[b].services = archive.runs[b].services
                                \/ troubles > 0 /\ boms[b].services = {}
  <1>1. BomInv /\ [BomNext]_bomVars => [Restored]_bomVars
    <2> SUFFICES ASSUME BomInv, BomNext, Importing, restore'.stage = "idle" PROVE Restored
      BY DEF BomNext
    <2>1. EndImport
      <3>1. restore.stage # "idle"
        BY DEF Importing
      <3>2. restore' # restore
        BY <3>1
      <3>3. restore \in [stage : {"idle", "rows", "rebuild", "end"}, todo : SUBSET Boms,
                         restored : BOOLEAN]
        BY DEF BomInv, BomTypeOK
      <3>4. \A b, row : PutBack(b, row) => restore'.stage = restore.stage
        BY <3>3 DEF PutBack
      <3>5. ~RestoredRows
        BY <3>3 DEF RestoredRows
      <3>6. ~BeginImport
        BY DEF BeginImport
      <3>7. \A b \in Boms : ~RestoreBom(b) /\ ~RebuildBom(b)
        BY <3>1, <3>4 DEF RestoreBom, RebuildBom
      <3> QED
        BY <3>2, <3>5, <3>6, <3>7
           DEF BomNext, SaveBom, WriteBom, DeleteBom, Analyse, AnalyseUpload, CatalogChanges,
               WipeBoms, Export
    <2>2. ImportSound
      BY DEF BomInv
    <2>3. CASE restore.stage = "end"
      BY <2>2, <2>3 DEF ImportSound, AsArchived, Left
    <2>4. CASE restore.stage = "rebuild" /\ restore.todo = {}
      BY <2>2, <2>4 DEF ImportSound, AsAnalysed, Left
    <2> QED
      BY <2>1, <2>3, <2>4 DEF EndImport
  <1> QED
    BY <1>1, BomInvariant, PTL DEF BomSpec, ImportRestores

------------------------------------------------------------------------------
(***************************************************************************)
(* Proofs about the table of regions, for any regions, requirements, rows, *)
(* latencies, distances and hand-made lists. What it advises is a function *)
(* of the state, so that the types are the whole invariant.                *)
(***************************************************************************)
\* A list of places sorted by a key has only candidates, is empty only when there is
\* none, and no candidate it leaves out comes before one that it has.
LEMMA SortedFacts ==
    ASSUME NEW key, IsFiniteSet(DOMAIN key), DOMAIN key \subseteq Nat,
           \A a \in DOMAIN key : key[a] \in Nat \X Nat \X Nat
    PROVE  LET kept == Range(Sorted(key))
           IN  /\ kept \subseteq DOMAIN key
               /\ kept = {} => DOMAIN key = {}
               /\ \A a \in DOMAIN key \ kept, b \in kept : Before(key, b, a)
  <1> DEFINE S == DOMAIN key
             R == {p \in S \X S : Before(key, p[1], p[2])}
             rank == [c \in S |-> Cardinality({d \in S : Before(key, d, c)})]
             size == Cardinality(S)
             top == IF size < TopN THEN size ELSE TopN
             kept == Range(Sorted(key))
  <1>1. TopN \in Nat \ {0}
    BY RegionAssumption
  <1>2. \A a, b \in S : <<a, b>> \in R <=>
            \/ key[a][1] < key[b][1]
            \/ key[a][1] = key[b][1] /\ key[a][2] < key[b][2]
            \/ key[a][1] = key[b][1] /\ key[a][2] = key[b][2] /\ key[a][3] < key[b][3]
            \/ key[a] = key[b] /\ a < b
    BY DEF Before
  <1>3. \A a \in S : /\ key[a][1] \in Nat /\ key[a][2] \in Nat /\ key[a][3] \in Nat /\ a \in Nat
                     /\ key[a] = <<key[a][1], key[a][2], key[a][3]>>
    OBVIOUS
  <1>4. /\ \A a \in S : <<a, a>> \notin R
        /\ \A a, b, c \in S : <<a, b>> \in R /\ <<b, c>> \in R => <<a, c>> \in R
        /\ \A a, b \in S : a = b \/ <<a, b>> \in R \/ <<b, a>> \in R
    <2> HIDE DEF S, R
    <2>1. ASSUME NEW a \in S PROVE <<a, a>> \notin R
      BY <1>2, <1>3
    <2>2. ASSUME NEW a \in S, NEW b \in S, NEW c \in S, <<a, b>> \in R, <<b, c>> \in R
          PROVE  <<a, c>> \in R
      BY <1>2, <1>3, <2>2
    <2>3. ASSUME NEW a \in S, NEW b \in S PROVE a = b \/ <<a, b>> \in R \/ <<b, a>> \in R
      BY <1>2, <1>3
    <2> QED
      BY <2>1, <2>2, <2>3
  <1>5. /\ size \in Nat
        /\ \A c \in S : rank[c] \in 0 .. size - 1
        /\ \A a, b \in S : <<a, b>> \in R => rank[a] < rank[b]
        /\ \A n \in 0 .. size - 1 : \E c \in S : rank[c] = n
    <2> HIDE DEF R
    <2>1. \A c \in S : rank[c] = Cardinality(Prior(S, R, c))
      <3>1. \A c \in S : Prior(S, R, c) = {d \in S : Before(key, d, c)}
        BY DEF R, Prior
      <3> QED
        BY <3>1
    <2>5. rank \in [S -> Nat]
      <3>1. \A c \in S : {d \in S : Before(key, d, c)} \in SUBSET S
        OBVIOUS
      <3> QED
        BY <3>1, FS_Subset, FS_CardinalityType
    <2>2. IsFiniteSet(S)
      OBVIOUS
    <2>3. size = Cardinality(S)
      OBVIOUS
    <2> HIDE DEF S, rank, size
    <2>4. /\ Cardinality(S) \in Nat
          /\ \A c \in S : rank[c] \in 0 .. Cardinality(S) - 1
          /\ \A a, b \in S : <<a, b>> \in R => rank[a] < rank[b]
          /\ \A n \in 0 .. Cardinality(S) - 1 : \E c \in S : rank[c] = n
      <3>1. StrictOrder(S, R) /\ Ranking(S, R, rank)
        BY <1>4, <2>1, <2>5 DEF StrictOrder, Ranking
      <3> QED
        BY <2>2, <3>1, Ranks
    <2> QED
      BY <2>3, <2>4
  <1>6. Sorted(key) = [n \in 1 .. top |-> CHOOSE c \in S : rank[c] = n - 1]
    BY DEF Sorted
  <1> HIDE DEF rank, R, S, size
  <1>7. \A n \in 1 .. top : Sorted(key)[n] \in S /\ rank[Sorted(key)[n]] = n - 1
    <2> SUFFICES ASSUME NEW n \in 1 .. top
                 PROVE  Sorted(key)[n] \in S /\ rank[Sorted(key)[n]] = n - 1
      OBVIOUS
    <2>1. n - 1 \in 0 .. size - 1
      BY <1>1, <1>5
    <2>2. PICK c \in S : rank[c] = n - 1
      BY <1>5, <2>1
    <2>3. Sorted(key)[n] = CHOOSE d \in S : rank[d] = n - 1
      BY <1>6
    <2> QED
      BY <2>2, <2>3
  <1>8. DOMAIN Sorted(key) = 1 .. top /\ kept = {Sorted(key)[n] : n \in 1 .. top}
    BY <1>6 DEF Range
  <1> HIDE DEF kept
  <1>9. top \in Nat
    BY <1>1, <1>5
  <1>10. \A c \in S : (\A n \in 1 .. top : c # Sorted(key)[n]) => rank[c] >= top
    <2> SUFFICES ASSUME NEW c \in S, rank[c] < top
                 PROVE  \E n \in 1 .. top : c = Sorted(key)[n]
      BY <1>5, <1>9 DEF top
    <2> DEFINE m == rank[c] + 1
    <2>1. m \in 1 .. top /\ rank[c] \in Int
      BY <1>5, <1>9
    <2> HIDE DEF m
    <2>2. Sorted(key)[m] \in S /\ rank[Sorted(key)[m]] = rank[c]
      BY <1>7, <2>1 DEF m
    <2>3. ~(<<Sorted(key)[m], c>> \in R) /\ ~(<<c, Sorted(key)[m]>> \in R)
      BY <1>5, <2>1, <2>2
    <2> QED
      BY <1>4, <2>1, <2>2, <2>3
  <1>11. kept \subseteq S
    BY <1>7, <1>8
  <1>12. kept = {} => S = {}
    <2> SUFFICES ASSUME NEW c \in S PROVE kept # {}
      OBVIOUS
    <2>1. size - 1 >= 0
      BY <1>5
    <2>2. 1 \in 1 .. top
      BY <1>1, <1>5, <2>1
    <2> QED
      BY <1>8, <2>2
  <1>13. ASSUME NEW a \in S \ kept, NEW b \in kept PROVE <<b, a>> \in R
    <2>1. PICK n \in 1 .. top : b = Sorted(key)[n]
      BY <1>8
    <2>2. b \in S /\ rank[b] = n - 1
      BY <1>7, <2>1
    <2>3. rank[a] >= top
      BY <1>8, <1>10
    <2>4. a # b
      OBVIOUS
    <2>5. <<a, b>> \notin R
      <3>1. rank[a] \in Int /\ n \in Int
        BY <1>5, <1>9
      <3>2. ~(rank[a] < rank[b])
        BY <1>9, <2>2, <2>3, <3>1
      <3> QED
        BY <1>5, <2>2, <3>2
    <2> QED
      BY <1>4, <2>2, <2>4, <2>5
  <1> QED
    BY <1>11, <1>12, <1>13 DEF S, R, kept

------------------------------------------------------------------------------
\* The rows of a region stay in their types.
THEOREM RegionTypeCorrect == RegionSpec => []RegionTypeOK
  <1>1. RegionInit => RegionTypeOK
    BY DEF RegionInit, RegionTypeOK
  <1>2. RegionTypeOK /\ [RegionNext]_regionVars => RegionTypeOK'
    BY DEF RegionTypeOK, RegionNext, RegionChanges, regionVars
  <1> QED
    BY <1>1, <1>2, PTL DEF RegionSpec

\* A region has at most three closed zones and a number of gaps.
LEMMA ScoreFacts ==
    ASSUME RegionTypeOK, NEW p \in Places
    PROVE  /\ Uncovered(p) \subseteq Requirements /\ IsFiniteSet(Uncovered(p))
           /\ SkuBlockers(p) \in Nat
           /\ HardGaps(p) \in Nat
           /\ ClosedZones(p) \in 0 .. 3
           /\ GapScore(p) \in Nat
  <1>1. DOMAIN skus[p] \subseteq Requirements
    BY DEF RegionTypeOK, NoData
  <1>2. Uncovered(p) \in SUBSET Requirements
    BY <1>1 DEF Uncovered
  <1>3. IsFiniteSet(Uncovered(p)) /\ Cardinality(Uncovered(p)) \in Nat
    BY <1>2, RegionAssumption, FS_Subset, FS_CardinalityType
  <1>4. SkuBlockers(p) \in Nat
    BY <1>3 DEF SkuBlockers
  <1>5. HardGaps(p) \in Nat
    BY <1>4 DEF HardGaps, RegionTypeOK
  <1>6. ClosedZones(p) \in 0 .. 3
    <2>1. IsFiniteSet(Zones) /\ Cardinality(Zones) = 3
      <3>1. IsFiniteSet(1 .. 3) /\ Cardinality(1 .. 3) = IF 1 > 3 THEN 0 ELSE 3 - 1 + 1
        <4>1. 1 \in Int /\ 3 \in Int
          OBVIOUS
        <4> QED
          BY <4>1, FS_Interval
      <3> QED
        BY <3>1 DEF Zones
    <2>2. Zones \ ZoneOk(p) \in SUBSET Zones
      OBVIOUS
    <2>3. Cardinality(Zones \ ZoneOk(p)) <= 3 /\ IsFiniteSet(Zones \ ZoneOk(p))
      BY <2>1, <2>2, FS_Subset
    <2>4. Cardinality(Zones \ ZoneOk(p)) \in Nat
      BY <2>3, FS_CardinalityType
    <2> QED
      BY <2>3, <2>4 DEF ClosedZones
  <1> QED
    BY <1>2, <1>3, <1>4, <1>5, <1>6 DEF GapScore

\* A hard gap outweighs all zones.
Worse(p, a) ==
    HardGaps(a) < HardGaps(p) \/ (HardGaps(a) = HardGaps(p) /\ ClosedZones(a) < ClosedZones(p))

LEMMA ScoreOrders ==
    ASSUME RegionTypeOK, NEW p \in Places, NEW a \in Places
    PROVE  /\ GapScore(a) < GapScore(p) <=> Worse(p, a)
           /\ GapScore(a) <= GapScore(p) => HardGaps(a) <= HardGaps(p)
  <1>1. /\ HardGaps(p) \in Nat /\ HardGaps(a) \in Nat
        /\ ClosedZones(p) \in 0 .. 3 /\ ClosedZones(a) \in 0 .. 3
    BY ScoreFacts
  <1> QED
    BY <1>1 DEF GapScore, Worse

\* A healthy region lacks no service, and each of its requirements has a family in
\* all three zones.
LEMMA HealthyFacts ==
    ASSUME RegionTypeOK, NEW p \in Places
    PROVE  /\ p \in Healthy <=> Status(p) = "OK"
           /\ p \in Healthy =>
                /\ missing[p] = 0
                /\ Recommended(p)
                /\ \A q \in Requirements : Zones \in {In(skus[p][q].primary), In(skus[p][q].alt)}
  <1>1. p \in Healthy <=> Status(p) = "OK"
    BY DEF Healthy, Status
  <1>2. ASSUME p \in Healthy
        PROVE  /\ missing[p] = 0
               /\ Recommended(p)
               /\ \A q \in Requirements : Zones \in {In(skus[p][q].primary), In(skus[p][q].alt)}
    <2>1. missing[p] \in Nat /\ ~(missing[p] > 0) /\ ~(SkuBlockers(p) > 0)
      BY <1>2 DEF Healthy, HasIssue, ComputeRed, RegionTypeOK
    <2>2. skus[p] # NoData /\ Cardinality(Uncovered(p)) = 0
      BY <2>1, ScoreFacts DEF SkuBlockers
    <2>3. Uncovered(p) = {}
      BY <2>2, ScoreFacts, FS_EmptySet
    <2>4. DOMAIN skus[p] = Requirements
      BY <2>2 DEF RegionTypeOK
    <2>5. \A q \in Requirements : Chosen(p, q) # "none"
      BY <2>3, <2>4 DEF Uncovered
    <2>6. Recommended(p)
      BY <2>2, <2>5 DEF Recommended
    <2>7. \A q \in Requirements : Zones \in {In(skus[p][q].primary), In(skus[p][q].alt)}
      BY <2>5 DEF Chosen
    <2> QED
      BY <2>1, <2>6, <2>7
  <1> QED
    BY <1>1, <1>2

\* The places of an order of places.
LEMMA KeyFacts ==
    ASSUME NEW key, DOMAIN key \subseteq Places
    PROVE  IsFiniteSet(DOMAIN key) /\ DOMAIN key \subseteq Nat
  <1>1. DOMAIN key \in SUBSET Places
    OBVIOUS
  <1> QED
    BY <1>1, RegionAssumption, FS_Subset

\* While there are healthy regions the alternatives are some of them.
LEMMA HealthyOnes ==
    ASSUME RegionTypeOK, NEW p \in Places, p \notin Healthy
    PROVE  /\ Range(HealthyAlternatives(p)) \subseteq Healthy
           /\ \/ Range(HealthyAlternatives(p)) # {}
              \/ \A h \in Healthy : Latency[p][h] = Unknown /\ Distance[p][h] = Unknown
  <1>1. Healthy \subseteq Places
    BY DEF Healthy
  <1>2. CASE Measured(p) # {}
    <2> DEFINE key == [h \in Measured(p) |-> <<0, 0, Latency[p][h]>>]
    <2>1. HealthyAlternatives(p) = Sorted(key)
      BY <1>2 DEF HealthyAlternatives
    <2>2. DOMAIN key = Measured(p) /\ Measured(p) \subseteq Healthy
      BY DEF Measured
    <2>3. \A a \in DOMAIN key : key[a] \in Nat \X Nat \X Nat
      BY <1>1, <2>2, RegionAssumption DEF Measured
    <2> HIDE DEF key
    <2>4. Range(Sorted(key)) \subseteq DOMAIN key /\ (Range(Sorted(key)) = {} => DOMAIN key = {})
      BY <1>1, <2>2, <2>3, KeyFacts, SortedFacts DEF Range
    <2> QED
      BY <1>2, <2>1, <2>2, <2>4
  <1>3. CASE Measured(p) = {} /\ Listed(p) # {}
    <2> DEFINE Place(h) == CHOOSE n \in DOMAIN Curated[p] : Curated[p][n] = h
               key == [h \in Listed(p) |-> <<0, 0, Place(h)>>]
    <2>1. HealthyAlternatives(p) = Sorted(key)
      BY <1>3 DEF HealthyAlternatives
    <2>2. DOMAIN key = Listed(p) /\ Listed(p) \subseteq Healthy
      BY DEF Listed
    <2>3. \A a \in DOMAIN key : key[a] \in Nat \X Nat \X Nat
      <3>1. DOMAIN Curated[p] \subseteq Nat
        BY RegionAssumption
      <3>2. \A h \in Listed(p) : Place(h) \in DOMAIN Curated[p]
        BY DEF Listed, Range
      <3> HIDE DEF Place
      <3>3. \A h \in Listed(p) : Place(h) \in Nat
        BY <3>1, <3>2
      <3> QED
        BY <3>3
    <2> HIDE DEF key
    <2>4. Range(Sorted(key)) \subseteq DOMAIN key /\ (Range(Sorted(key)) = {} => DOMAIN key = {})
      BY <1>1, <2>2, <2>3, KeyFacts, SortedFacts DEF Range
    <2> QED
      BY <1>3, <2>1, <2>2, <2>4
  <1>4. CASE Measured(p) = {} /\ Listed(p) = {}
    <2> DEFINE Abroad(h) == IF Continent[h] = Continent[p] /\ Continent[p] # Unknown THEN 0 ELSE 1
               key == [h \in Located(p) |-> <<0, Abroad(h), Distance[p][h]>>]
    <2>1. HealthyAlternatives(p) = Sorted(key)
      BY <1>4 DEF HealthyAlternatives
    <2>2. DOMAIN key = Located(p) /\ Located(p) \subseteq Healthy
      BY DEF Located
    <2>3. \A a \in DOMAIN key : key[a] \in Nat \X Nat \X Nat
      BY <1>1, <2>2, RegionAssumption DEF Located
    <2> HIDE DEF key
    <2>4. Range(Sorted(key)) \subseteq DOMAIN key /\ (Range(Sorted(key)) = {} => DOMAIN key = {})
      BY <1>1, <2>2, <2>3, KeyFacts, SortedFacts DEF Range
    <2>5. Located(p) = {} => \A h \in Healthy : Latency[p][h] = Unknown /\ Distance[p][h] = Unknown
      BY <1>4 DEF Located, Measured
    <2> QED
      BY <2>1, <2>2, <2>4, <2>5
  <1> QED
    BY <1>2, <1>3, <1>4

\* The least bad regions have a smaller score, and no better one is left out.
LEMMA LeastBadOnes ==
    ASSUME RegionTypeOK, NEW p \in Places
    PROVE  LET alts == Range(LeastBadAlternatives(p))
           IN  /\ alts \subseteq LessBad(p)
               /\ alts = {} => LessBad(p) = {}
               /\ \A a \in LessBad(p) \ alts, b \in alts : GapScore(b) <= GapScore(a)
  <1> DEFINE key == [a \in LessBad(p) |->
                CASE Latency[p][a] # Unknown -> <<GapScore(a), 0, Latency[p][a]>>
                  [] Latency[p][a] = Unknown /\ Distance[p][a] # Unknown ->
                        <<GapScore(a), 1, Distance[p][a]>>
                  [] OTHER -> <<GapScore(a), 1, 1000000000>>]
  <1>1. LeastBadAlternatives(p) = Sorted(key)
    BY DEF LeastBadAlternatives
  <1>2. DOMAIN key = LessBad(p) /\ LessBad(p) \subseteq Places
    BY DEF LessBad
  <1>3. ASSUME NEW a \in LessBad(p)
        PROVE  key[a] \in Nat \X Nat \X Nat /\ key[a][1] = GapScore(a)
    <2>1. a \in Places /\ GapScore(a) \in Nat
      BY <1>2, ScoreFacts
    <2>2. Latency[p][a] \in Nat \cup {Unknown} /\ Distance[p][a] \in Nat \cup {Unknown}
      BY <2>1, RegionAssumption
    <2>3. CASE Latency[p][a] # Unknown
      <3>1. key[a] = <<GapScore(a), 0, Latency[p][a]>>
        BY <2>3
      <3> QED
        BY <2>1, <2>2, <2>3, <3>1
    <2>4. CASE Latency[p][a] = Unknown /\ Distance[p][a] # Unknown
      <3>1. key[a] = <<GapScore(a), 1, Distance[p][a]>>
        BY <2>4
      <3> QED
        BY <2>1, <2>2, <2>4, <3>1
    <2>5. CASE Latency[p][a] = Unknown /\ Distance[p][a] = Unknown
      <3>1. key[a] = <<GapScore(a), 1, 1000000000>>
        BY <2>5
      <3> QED
        BY <2>1, <3>1
    <2> QED
      BY <2>3, <2>4, <2>5
  <1> HIDE DEF key
  <1>4. /\ Range(Sorted(key)) \subseteq DOMAIN key
        /\ Range(Sorted(key)) = {} => DOMAIN key = {}
        /\ \A a \in DOMAIN key \ Range(Sorted(key)), b \in Range(Sorted(key)) : Before(key, b, a)
    BY <1>2, <1>3, KeyFacts, SortedFacts DEF Range
  <1>5. ASSUME NEW a \in LessBad(p), NEW b \in LessBad(p), Before(key, b, a)
        PROVE  GapScore(b) <= GapScore(a)
    <2>1. GapScore(a) \in Nat /\ GapScore(b) \in Nat
      BY <1>2, ScoreFacts
    <2> QED
      BY <1>3, <1>5, <2>1 DEF Before
  <1> QED
    BY <1>1, <1>2, <1>4, <1>5

\* What the table advises helps, in every situation of every table.
LEMMA AdviceHelps == RegionTypeOK => AlternativesHelp
  <1> SUFFICES ASSUME RegionTypeOK, NEW p \in Places
               PROVE  LET alts == Range(AltRegions(p))
                          Better(a) ==
                              \/ HardGaps(a) < HardGaps(p)
                              \/ HardGaps(a) = HardGaps(p) /\ ClosedZones(a) < ClosedZones(p)
                      IN  /\ p \in Healthy <=> Status(p) = "OK"
                          /\ p \in Healthy =>
                                /\ missing[p] = 0
                                /\ Recommended(p)
                                /\ \A q \in Requirements :
                                      Zones \in {In(skus[p][q].primary), In(skus[p][q].alt)}
                                /\ alts = {}
                          /\ p \notin Healthy /\ Healthy # {} =>
                                /\ alts \subseteq Healthy
                                /\ alts # {} \/ \A h \in Healthy : {Latency[p][h], Distance[p][h]} = {Unknown}
                          /\ Healthy = {} =>
                                /\ \A a \in alts : Better(a)
                                /\ alts # {} \/ \A a \in Places : ~Better(a)
                                /\ \A a \in Places \ alts : Better(a) =>
                                      \A b \in alts : HardGaps(b) <= HardGaps(a)
    BY DEF AlternativesHelp, Range
  <1> DEFINE alts == Range(AltRegions(p))
  <1>1. p \in Healthy => alts = {}
    BY DEF AltRegions, Range
  <1>2. p \notin Healthy /\ Healthy # {} =>
            /\ alts \subseteq Healthy
            /\ alts # {} \/ \A h \in Healthy : {Latency[p][h], Distance[p][h]} = {Unknown}
    <2> SUFFICES ASSUME p \notin Healthy, Healthy # {}
                 PROVE  /\ alts \subseteq Healthy
                        /\ alts # {} \/ \A h \in Healthy : {Latency[p][h], Distance[p][h]} = {Unknown}
      OBVIOUS
    <2>1. AltRegions(p) = HealthyAlternatives(p)
      BY DEF AltRegions
    <2> QED
      BY <2>1, HealthyOnes
  <1>3. ASSUME Healthy = {}
        PROVE  /\ \A a \in alts : Worse(p, a)
               /\ alts # {} \/ \A a \in Places : ~Worse(p, a)
               /\ \A a \in Places \ alts : Worse(p, a) =>
                     \A b \in alts : HardGaps(b) <= HardGaps(a)
    <2>1. AltRegions(p) = LeastBadAlternatives(p)
      BY <1>3 DEF AltRegions
    <2>2. /\ alts \subseteq LessBad(p)
          /\ alts = {} => LessBad(p) = {}
          /\ \A a \in LessBad(p) \ alts, b \in alts : GapScore(b) <= GapScore(a)
      BY <2>1, LeastBadOnes
    <2> HIDE DEF alts
    <2>3. LessBad(p) = {a \in Places : Worse(p, a)}
      BY ScoreOrders DEF LessBad
    <2> QED
      BY <2>2, <2>3, ScoreOrders
  <1> HIDE DEF alts
  <1>4. /\ Healthy = {} =>
              /\ \A a \in alts : Worse(p, a)
              /\ alts # {} \/ \A a \in Places : ~Worse(p, a)
              /\ \A a \in Places \ alts : Worse(p, a) =>
                    \A b \in alts : HardGaps(b) <= HardGaps(a)
    BY <1>3
  <1> QED
    BY <1>1, <1>2, <1>4, HealthyFacts DEF Worse, alts

\* For any number of regions, requirements and rows, and for any latencies,
\* distances and hand-made lists: what the table advises helps.
THEOREM AlternativesAreBetter == RegionSpec => []AlternativesHelp
  BY RegionTypeCorrect, AdviceHelps, PTL
==============================================================================
