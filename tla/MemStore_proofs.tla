---------------------------- MODULE MemStore_proofs ----------------------------
(***************************************************************************)
(* Proofs about the in-memory backend, for any customers, runs, cap, idle  *)
(* timeout and throttle.                                                   *)
(*                                                                         *)
(* What a handler holds between two calls is what makes StoresSound hold:  *)
(* OwnerInv says that the dict it holds belongs to a store that is there,  *)
(* unless it was detached, and UnharmedInv that a run nothing happened to  *)
(* finds its snapshot where it left it.                                    *)
(***************************************************************************)
EXTENDS MemStore, FiniteSetTheorems, TLAPS

------------------------------------------------------------------------------
\* What one call leaves, once the customers in gone are dropped.
Served(u, R, B, D, reset, gone) ==
    /\ gone \subseteq Users \ {u}
    /\ rows' = [k \in Users |-> IF k \in gone THEN None ELSE R[k]]
    /\ blobs' = [k \in Users |-> IF k \in gone THEN None ELSE B[k]]
    /\ seen' = [k \in Users |-> IF k = u THEN now
                                ELSE IF rows'[k] = None THEN None ELSE seen[k]]
    /\ swept' \in {swept, now}
    /\ Detach(D, gone \cup reset)

\* They had been idle for longer than the timeout, or were seen no later than
\* those who keep their connection.
Rightly(u, R, gone) ==
    \A k \in gone :
        \/ Ttl > 0 /\ now - seen[k] > Ttl
        \/ /\ Cap > 0
           /\ \A w \in Users \ (gone \cup {u}) : R[w] # None => seen[k] <= seen[w]

\* The customers dropped for the cap are others, suffice, and are the least
\* recently seen.
LEMMA VictimsBring ==
    ASSUME NEW u \in Users, NEW R, NEW V \in Victims(u, R)
    PROVE  /\ V \subseteq Users \ {u}
           /\ Cap > 0 => Cardinality({k \in Users : R[k] # None} \ V) <= Cap
           /\ \A k \in V : /\ Cap > 0
                           /\ \A w \in Users \ (V \cup {u}) : R[w] # None => seen[k] <= seen[w]
<1> DEFINE all == {k \in Users : R[k] # None}
           others == {k \in Users \ {u} : R[k] # None}
           excess == Cardinality(all) - Cap
<1>1. /\ all \in SUBSET Users /\ others = all \ {u} /\ others \subseteq all
      /\ Cap \in Nat
  BY MemStoreAssumption
<1>2. Victims(u, R) = IF Cap = 0 \/ excess <= 0 THEN {{}}
                      ELSE {S \in SUBSET others :
                              /\ Cardinality(S) = IF excess <= Cardinality(others)
                                                  THEN excess ELSE Cardinality(others)
                              /\ \A v \in S, w \in others \ S : seen[v] <= seen[w]}
  BY DEF Victims
<1>3. others \subseteq Users \ {u} /\ \A w \in Users \ {u} : R[w] # None => w \in others
  OBVIOUS
<1> HIDE DEF all, others
<1>4. IsFiniteSet(all) /\ IsFiniteSet(others)
  BY <1>1, FS_Subset, MemStoreAssumption
<1>5. /\ Cardinality(all) \in Nat /\ Cardinality(others) \in Nat
      /\ Cardinality(all) <= Cardinality(others) + 1
  BY <1>1, <1>4, FS_CardinalityType, FS_RemoveElement
<1>6. CASE Cap = 0 \/ excess <= 0
  <2>1. V = {}
    BY <1>2, <1>6
  <2>2. all \ V = all
    BY <2>1
  <2> QED
    BY <1>1, <1>5, <1>6, <2>1, <2>2 DEF all
<1>7. CASE Cap > 0 /\ excess > 0
  <2>1. /\ V \in SUBSET others
        /\ Cardinality(V) = IF excess <= Cardinality(others) THEN excess ELSE Cardinality(others)
        /\ \A v \in V, w \in others \ V : seen[v] <= seen[w]
    <3>1. ~ (Cap = 0 \/ excess <= 0)
      BY <1>1, <1>5, <1>7
    <3> HIDE DEF excess
    <3> QED
      BY <1>2, <3>1
  <2>2. excess <= Cardinality(others)
    BY <1>1, <1>5, <1>7
  <2>3. IsFiniteSet(V) /\ all \cap V = V
    BY <1>1, <1>4, <2>1, FS_Subset
  <2>4. Cardinality(all \ V) = Cardinality(all) - Cardinality(V)
    BY <1>4, <2>3, FS_Difference
  <2>5. Cardinality(all \ V) = Cap
    BY <1>1, <1>5, <2>1, <2>2, <2>4
  <2>6. Cardinality(all \ V) <= Cap
    BY <1>1, <2>5
  <2> QED
    BY <1>3, <1>7, <2>1, <2>6 DEF all
<1> QED
  BY <1>1, <1>5, <1>6, <1>7

LEMMA ServeBrings ==
    ASSUME TypeOK, NEW u \in Users, NEW R, NEW B, NEW D, NEW reset, Serve(u, R, B, D, reset)
    PROVE  \E gone : /\ Served(u, R, B, D, reset, gone)
                     /\ Rightly(u, R, gone)
                     /\ ConnectionsCapped'
<1>1. PICK V \in Victims(u, R) :
        /\ rows' = [k \in Users |-> IF k \in V \cup Idle(u) THEN None ELSE R[k]]
        /\ blobs' = [k \in Users |-> IF k \in V \cup Idle(u) THEN None ELSE B[k]]
        /\ seen' = [k \in Users |-> IF k = u THEN now
                                    ELSE IF rows'[k] = None THEN None ELSE seen[k]]
        /\ swept' = IF Due THEN now ELSE swept
        /\ Detach(D, V \cup Idle(u) \cup reset)
  BY DEF Serve
<1> DEFINE gone == V \cup Idle(u)
           all == {k \in Users : R[k] # None}
<1>2. /\ V \subseteq Users \ {u}
      /\ Cap > 0 => Cardinality(all \ V) <= Cap
      /\ \A k \in V : /\ Cap > 0
                      /\ \A w \in Users \ (V \cup {u}) : R[w] # None => seen[k] <= seen[w]
  BY VictimsBring
<1>3. Idle(u) \subseteq Users \ {u} /\ \A k \in Idle(u) : Ttl > 0 /\ now - seen[k] > Ttl
  BY DEF Idle, Due
<1>4. Served(u, R, B, D, reset, gone)
  BY <1>1, <1>2, <1>3 DEF Served
<1>5. Rightly(u, R, gone)
  BY <1>2, <1>3 DEF Rightly
<1>6. ConnectionsCapped'
  <2> SUFFICES ASSUME Cap > 0 PROVE Cardinality(Held') <= Cap
    BY DEF ConnectionsCapped
  <2>1. Held' \subseteq all \ V /\ all \subseteq Users
    BY <1>1 DEF Held
  <2>2. Cardinality(all \ V) <= Cap /\ Cap \in Nat
    BY <1>2, MemStoreAssumption
  <2> HIDE DEF all
  <2>3. IsFiniteSet(all \ V)
    BY <2>1, FS_Subset, MemStoreAssumption
  <2>4. IsFiniteSet(Held') /\ Cardinality(Held') <= Cardinality(all \ V)
    BY <2>1, <2>3, FS_Subset
  <2>5. Cardinality(Held') \in Nat /\ Cardinality(all \ V) \in Nat
    BY <2>3, <2>4, FS_CardinalityType
  <2> QED
    BY <2>2, <2>4, <2>5
<1> QED
  BY <1>4, <1>5, <1>6

------------------------------------------------------------------------------
\* A run belongs to nobody until it is accepted; the dict its handler holds is in
\* the store only as long as the customer has a store.
OwnerInv ==
    \A r \in Runs : /\ pc[r] = "idle" <=> user[r] = None
                    /\ dict[r] = "stored" => pc[r] = "holding" /\ blobs[user[r]] # None

UnharmedInv ==
    \A r \in Runs \ interrupted :
        /\ pc[r] = "holding" => dict[r] = "stored"
        /\ pc[r] = "written" => blobs[user[r]] # None /\ r \in blobs[user[r]]

SeenInv ==
    \A u \in Users : rows[u] # None => seen[u] \in Nat /\ seen[u] <= now

MemInv ==
    /\ TypeOK /\ OwnerInv /\ UnharmedInv /\ SeenInv
    /\ ConnectionsCapped /\ RunsKeptApart /\ LatestRestorable

\* The stores as a call hands them to _touch_and_evict(), for customer u: typed,
\* and changed for u only.
Handed(u, R, B) ==
    /\ R \in [Users -> MaybeRuns] /\ B \in [Users -> MaybeRuns]
    /\ \A k \in Users \ {u} : R[k] = rows[k] /\ B[k] = blobs[k]

LEMMA ConnectedHanded ==
    ASSUME TypeOK, NEW u \in Users
    PROVE  /\ Connected(u) \in [Users -> MaybeRuns] /\ WithBlobs(u) \in [Users -> MaybeRuns]
           /\ \A k \in Users \ {u} : Connected(u)[k] = rows[k] /\ WithBlobs(u)[k] = blobs[k]
           /\ Connected(u)[u] = IF rows[u] = None THEN {} ELSE rows[u]
           /\ WithBlobs(u)[u] = IF blobs[u] = None THEN {} ELSE blobs[u]
           /\ Connected(u)[u] \in SUBSET Runs /\ WithBlobs(u)[u] \in SUBSET Runs
           /\ Connected(u)[u] # None /\ WithBlobs(u)[u] # None
  BY MemStoreAssumption DEF TypeOK, Connected, WithBlobs, MaybeRuns

LEMMA ServedType ==
    ASSUME TypeOK, NEW u \in Users, NEW R, NEW B, Handed(u, R, B),
           NEW D \in [Runs -> {"none", "stored", "detached"}], NEW reset, NEW gone,
           Served(u, R, B, D, reset, gone)
    PROVE  /\ rows' \in [Users -> MaybeRuns] /\ blobs' \in [Users -> MaybeRuns]
           /\ seen' \in [Users -> {None} \cup Nat] /\ swept' \in Nat
           /\ dict' \in [Runs -> {"none", "stored", "detached"}]
           /\ interrupted' \in SUBSET Runs
<1>1. rows' \in [Users -> MaybeRuns] /\ blobs' \in [Users -> MaybeRuns]
  BY DEF Served, Handed, MaybeRuns
<1>2. seen' \in [Users -> {None} \cup Nat] /\ swept' \in Nat
  BY DEF Served, TypeOK
<1>3. dict' \in [Runs -> {"none", "stored", "detached"}] /\ interrupted' \in SUBSET Runs
  BY DEF Served, Detach, TypeOK
<1> QED
  BY <1>1, <1>2, <1>3

\* u is seen now; the others are as they were, if they keep their connection.
LEMMA ServedSeen ==
    ASSUME TypeOK, SeenInv, NEW u \in Users, NEW R, NEW B, Handed(u, R, B), NEW D, NEW reset,
           NEW gone, Served(u, R, B, D, reset, gone), now' = now
    PROVE  SeenInv'
<1> SUFFICES ASSUME NEW k \in Users
             PROVE  rows'[k] # None => seen'[k] \in Nat /\ seen'[k] <= now'
  BY DEF SeenInv
<1>1. now \in Nat
  BY DEF TypeOK
<1>2. seen'[k] = IF k = u THEN now ELSE IF rows'[k] = None THEN None ELSE seen[k]
  BY DEF Served
<1>3. k # u /\ rows'[k] # None => rows[k] # None
  BY DEF Served, Handed
<1> QED
  BY <1>1, <1>2, <1>3 DEF SeenInv

\* If every store holds its customer's runs before the drop, so it does after.
LEMMA ServedApart ==
    ASSUME NEW u \in Users, NEW R, NEW B, NEW D, NEW reset, NEW gone,
           Served(u, R, B, D, reset, gone),
           \A k \in Users : /\ R[k] # None => \A r \in R[k] : user'[r] = k
                            /\ B[k] # None => \A r \in B[k] : user'[r] = k,
           \A k \in Users : copy'[k] # None =>
               \A r \in copy'[k].rows \cup copy'[k].blobs : user'[r] = k
    PROVE  RunsKeptApart'
  BY DEF Served, RunsKeptApart

\* If the newest run of every store has its snapshot before, so it has after.
LEMMA ServedRestorable ==
    ASSUME NEW u \in Users, NEW R, NEW B, NEW D, NEW reset, NEW gone,
           Served(u, R, B, D, reset, gone),
           \A k \in Users : R[k] # None =>
               \A r \in Newest(R[k]) \ interrupted' : B[k] # None /\ r \in B[k],
           \A k \in Users : copy'[k] # None =>
               \A r \in Newest(copy'[k].rows) \ interrupted' : r \in copy'[k].blobs
    PROVE  LatestRestorable'
<1>1. ASSUME NEW k \in Users, rows'[k] # None, NEW r \in Newest(rows'[k]) \ interrupted'
      PROVE  blobs'[k] # None /\ r \in blobs'[k]
  <2>1. rows'[k] = R[k] /\ blobs'[k] = B[k] /\ R[k] # None
    BY <1>1 DEF Served
  <2> QED
    BY <1>1, <2>1
<1> QED
  BY <1>1 DEF LatestRestorable, Newest

\* What the handlers hold, and what their runs find.
LEMMA ServedHandlers ==
    ASSUME TypeOK, NEW u \in Users, NEW R, NEW B, Handed(u, R, B), NEW D, NEW reset, NEW gone,
           Served(u, R, B, D, reset, gone),
           \A r \in Runs : pc'[r] = "idle" <=> user'[r] = None,
           \A r \in Runs : D[r] = "stored" =>
               pc'[r] = "holding" /\ user'[r] = user[r] /\ B[user[r]] # None,
           \A r \in Runs \ interrupted :
               /\ pc'[r] = "holding" => D[r] = "stored" /\ InFlight(r)
               /\ pc'[r] = "written" =>
                     /\ InFlight(r) /\ user'[r] = user[r]
                     /\ user[r] \in reset \/ (B[user[r]] # None /\ r \in B[user[r]]),
           \A r \in Runs : pc'[r] \in {"holding", "written"} => user[r] \in Users
    PROVE  OwnerInv' /\ UnharmedInv'
<1>1. /\ \A r \in Runs : dict'[r] = IF user[r] \in gone \cup reset /\ D[r] = "stored"
                                    THEN "detached" ELSE D[r]
      /\ interrupted' = interrupted \cup {r \in Runs : user[r] \in gone \cup reset /\ InFlight(r)}
      /\ \A k \in Users \ gone : blobs'[k] = B[k]
  BY DEF Served, Detach
<1>2. ASSUME NEW r \in Runs, dict'[r] = "stored"
      PROVE  pc'[r] = "holding" /\ blobs'[user'[r]] # None
  <2>1. D[r] = "stored" /\ user[r] \notin gone \cup reset
    BY <1>1, <1>2
  <2>2. pc'[r] = "holding" /\ user'[r] = user[r] /\ B[user[r]] # None /\ user[r] \in Users
    BY <2>1
  <2> QED
    BY <1>1, <2>1, <2>2
<1>3. ASSUME NEW r \in Runs \ interrupted'
      PROVE  /\ pc'[r] = "holding" => dict'[r] = "stored"
             /\ pc'[r] = "written" => blobs'[user'[r]] # None /\ r \in blobs'[user'[r]]
  <2>1. r \in Runs \ interrupted
    BY <1>1, <1>3
  <2>2. InFlight(r) => user[r] \notin gone \cup reset
    BY <1>1, <1>3
  <2>3. pc'[r] = "holding" => dict'[r] = "stored"
    BY <1>1, <2>1, <2>2
  <2>4. ASSUME pc'[r] = "written" PROVE blobs'[user'[r]] # None /\ r \in blobs'[user'[r]]
    <3>1. /\ user'[r] = user[r] /\ user[r] \in Users /\ user[r] \notin gone \cup reset
          /\ B[user[r]] # None /\ r \in B[user[r]]
      BY <2>1, <2>2, <2>4
    <3> QED
      BY <1>1, <3>1
  <2> QED
    BY <2>3, <2>4
<1> QED
  BY <1>2, <1>3 DEF OwnerInv, UnharmedInv

\* Creating what is missing keeps the stores sound.
LEMMA HandedSound ==
    ASSUME MemInv, NEW u \in Users, NEW R \in {rows, Connected(u)}, NEW B \in {blobs, WithBlobs(u)}
    PROVE  /\ Handed(u, R, B)
           /\ \A k \in Users : /\ R[k] # None => \A r \in R[k] : user[r] = k
                               /\ B[k] # None => \A r \in B[k] : user[r] = k
                               /\ blobs[k] # None => B[k] = blobs[k]
                               /\ R[k] # None => \A r \in Newest(R[k]) \ interrupted :
                                                    B[k] # None /\ r \in B[k]
<1>t. TypeOK
  BY DEF MemInv
<1>1. Handed(u, R, B)
  BY <1>t, ConnectedHanded DEF Handed, TypeOK
<1>2. \A k \in Users : /\ R[k] = rows[k] \/ R[k] = {}
                       /\ B[k] = blobs[k] \/ (blobs[k] = None /\ B[k] = {})
  BY <1>t, ConnectedHanded
<1> QED
  BY <1>1, <1>2 DEF MemInv, RunsKeptApart, LatestRestorable, Newest

LEMMA Grown ==
    ASSUME NEW D, NEW gone, Detach(D, gone)
    PROVE  interrupted \subseteq interrupted'
  BY DEF Detach

\* A call that only creates what is missing.
LEMMA MemCall ==
    ASSUME MemInv, NEW u \in Users, NEW R \in {rows, Connected(u)}, NEW B \in {blobs, WithBlobs(u)},
           Serve(u, R, B, dict, {}), UNCHANGED <<now, copy, user, pc>>
    PROVE  MemInv'
<1>t. TypeOK /\ SeenInv
  BY DEF MemInv
<1>1. PICK gone : Served(u, R, B, dict, {}, gone) /\ ConnectionsCapped'
  BY <1>t, ServeBrings
<1>2. Handed(u, R, B)
  BY HandedSound
<1>3. \A r \in Runs : /\ dict[r] = "stored" => pc[r] = "holding" /\ B[user[r]] # None
                      /\ pc[r] \in {"holding", "written"} => user[r] \in Users
  BY <1>t, HandedSound DEF MemInv, OwnerInv, TypeOK
<1>4. \A r \in Runs \ interrupted :
            /\ pc[r] = "holding" => dict[r] = "stored"
            /\ pc[r] = "written" => B[user[r]] # None /\ r \in B[user[r]]
  BY <1>3, HandedSound DEF MemInv, UnharmedInv
<1>5. TypeOK'
  <2>1. dict \in [Runs -> {"none", "stored", "detached"}]
    BY <1>t DEF TypeOK
  <2> QED
    BY <1>t, <1>1, <1>2, <2>1, ServedType DEF TypeOK
<1>6. OwnerInv' /\ UnharmedInv'
  <2>1. \A r \in Runs : pc'[r] = "idle" <=> user'[r] = None
    BY DEF MemInv, OwnerInv
  <2> QED
    BY <1>t, <1>1, <1>2, <1>3, <1>4, <2>1, ServedHandlers DEF InFlight
<1>7. SeenInv'
  BY <1>t, <1>1, <1>2, ServedSeen
<1>8. RunsKeptApart'
  <2>1. \A k \in Users : copy'[k] # None =>
            \A r \in copy'[k].rows \cup copy'[k].blobs : user'[r] = k
    BY DEF MemInv, RunsKeptApart
  <2> QED
    BY <1>1, <2>1, HandedSound, ServedApart
<1>9. LatestRestorable'
  <2>1. interrupted \subseteq interrupted'
    BY <1>1, Grown DEF Served
  <2>2. \A k \in Users : R[k] # None =>
            \A r \in Newest(R[k]) \ interrupted' : B[k] # None /\ r \in B[k]
    BY <2>1, HandedSound
  <2>3. \A k \in Users : copy'[k] # None =>
            \A r \in Newest(copy'[k].rows) \ interrupted' : r \in copy'[k].blobs
    BY <2>1 DEF MemInv, LatestRestorable
  <2> QED
    BY <1>1, <2>2, <2>3, ServedRestorable
<1> QED
  BY <1>1, <1>5, <1>6, <1>7, <1>8, <1>9 DEF MemInv

\* A run nobody had is in no store: its customer is who it says.
LEMMA MemStartRun ==
    ASSUME MemInv, NEW r \in Runs, NEW u \in Users, StartRun(r, u)
    PROVE  MemInv'
<1> DEFINE R == Connected(u)
<1>t. TypeOK /\ SeenInv
  BY DEF MemInv
<1>a. /\ pc[r] = "idle" /\ pc' = [pc EXCEPT ![r] = "running"] /\ user' = [user EXCEPT ![r] = u]
      /\ Serve(u, R, blobs, dict, {}) /\ UNCHANGED <<now, copy>>
  BY DEF StartRun
<1>b. user[r] = None /\ None \notin Users
  BY <1>a, MemStoreAssumption DEF MemInv, OwnerInv
<1>1. PICK gone : Served(u, R, blobs, dict, {}, gone) /\ ConnectionsCapped'
  BY <1>a, <1>t, ServeBrings
<1>2. Handed(u, R, blobs)
  BY HandedSound
<1>3. \A s \in Runs : s # r => user'[s] = user[s] /\ pc'[s] = pc[s]
  BY <1>a, <1>t DEF TypeOK
<1>4. user'[r] = u /\ pc'[r] = "running"
  BY <1>a, <1>t DEF TypeOK
<1>5. TypeOK'
  <2>1. dict \in [Runs -> {"none", "stored", "detached"}]
    BY <1>t DEF TypeOK
  <2>2. user' \in [Runs -> {None} \cup Users] /\ pc' \in [Runs -> Steps]
    BY <1>a, <1>t DEF TypeOK, Steps
  <2> QED
    BY <1>t, <1>a, <1>1, <1>2, <2>1, <2>2, ServedType DEF TypeOK
<1>6. OwnerInv' /\ UnharmedInv'
  <2>1. \A s \in Runs : pc'[s] = "idle" <=> user'[s] = None
    BY <1>b, <1>3, <1>4 DEF MemInv, OwnerInv
  <2>2. \A s \in Runs : dict[s] = "stored" =>
            pc'[s] = "holding" /\ user'[s] = user[s] /\ blobs[user[s]] # None
    BY <1>a, <1>3 DEF MemInv, OwnerInv
  <2>3. \A s \in Runs : pc'[s] \in {"holding", "written"} => user[s] \in Users
    BY <1>t, <1>3, <1>4 DEF MemInv, OwnerInv, TypeOK
  <2>4. \A s \in Runs \ interrupted :
            /\ pc'[s] = "holding" => dict[s] = "stored" /\ InFlight(s)
            /\ pc'[s] = "written" => /\ InFlight(s) /\ user'[s] = user[s]
                                     /\ blobs[user[s]] # None /\ s \in blobs[user[s]]
    BY <1>3, <1>4 DEF MemInv, UnharmedInv, InFlight
  <2> QED
    BY <1>t, <1>1, <1>2, <2>1, <2>2, <2>3, <2>4, ServedHandlers
<1>7. SeenInv'
  BY <1>a, <1>t, <1>1, <1>2, ServedSeen
<1>8. RunsKeptApart'
  <2>1. ASSUME NEW k \in Users, NEW s \in Runs, user[s] = k PROVE user'[s] = k
    BY <1>b, <1>3, <2>1
  <2>2. ASSUME NEW k \in Users
        PROVE  /\ R[k] # None => R[k] \subseteq Runs /\ \A s \in R[k] : user[s] = k
               /\ blobs[k] # None => blobs[k] \subseteq Runs /\ \A s \in blobs[k] : user[s] = k
    BY <1>2, HandedSound DEF Handed, MaybeRuns
  <2>3. ASSUME NEW k \in Users, copy[k] # None
        PROVE  /\ copy[k].rows \cup copy[k].blobs \subseteq Runs
               /\ \A s \in copy[k].rows \cup copy[k].blobs : user[s] = k
    BY <1>t, <2>3 DEF MemInv, RunsKeptApart, TypeOK
  <2>4. \A k \in Users : /\ R[k] # None => \A s \in R[k] : user'[s] = k
                         /\ blobs[k] # None => \A s \in blobs[k] : user'[s] = k
    BY <2>1, <2>2
  <2>5. \A k \in Users : copy'[k] # None =>
            \A s \in copy'[k].rows \cup copy'[k].blobs : user'[s] = k
    BY <1>a, <2>1, <2>3
  <2> QED
    BY <1>1, <2>4, <2>5, ServedApart
<1>9. LatestRestorable'
  <2>1. interrupted \subseteq interrupted'
    BY <1>1, Grown DEF Served
  <2>2. \A k \in Users : R[k] # None =>
            \A s \in Newest(R[k]) \ interrupted' : blobs[k] # None /\ s \in blobs[k]
    BY <2>1, HandedSound
  <2>3. \A k \in Users : copy'[k] # None =>
            \A s \in Newest(copy'[k].rows) \ interrupted' : s \in copy'[k].blobs
    BY <1>a, <2>1 DEF MemInv, LatestRestorable
  <2> QED
    BY <1>1, <2>2, <2>3, ServedRestorable
<1> QED
  BY <1>1, <1>5, <1>6, <1>7, <1>8, <1>9 DEF MemInv

\* The dict a handler is given is in the store.
LEMMA MemLookUp ==
    ASSUME MemInv, NEW r \in Runs, LookUp(r)
    PROVE  MemInv'
<1> DEFINE u == user[r]
           B == WithBlobs(u)
           D == [dict EXCEPT ![r] = "stored"]
<1>t. TypeOK /\ SeenInv
  BY DEF MemInv
<1>a. /\ pc[r] = "running" /\ pc' = [pc EXCEPT ![r] = "holding"]
      /\ Serve(u, rows, B, D, {}) /\ UNCHANGED <<now, copy, user>>
  BY DEF LookUp
<1>b. u \in Users
  BY <1>a, <1>t DEF MemInv, OwnerInv, TypeOK
<1>c. B[u] # None
  BY <1>b, <1>t, ConnectedHanded
<1>d. D \in [Runs -> {"none", "stored", "detached"}] /\ D[r] = "stored"
      /\ \A s \in Runs : s # r => D[s] = dict[s] /\ pc'[s] = pc[s]
  BY <1>a, <1>t DEF TypeOK
<1>e. pc'[r] = "holding"
  BY <1>a, <1>t DEF TypeOK
<1> HIDE DEF D
<1>1. PICK gone : Served(u, rows, B, D, {}, gone) /\ ConnectionsCapped'
  BY <1>a, <1>b, <1>t, ServeBrings
<1>2. Handed(u, rows, B)
  BY <1>b, HandedSound
<1>5. TypeOK'
  <2>1. pc' \in [Runs -> Steps]
    BY <1>a, <1>t DEF TypeOK, Steps
  <2> QED
    BY <1>t, <1>a, <1>b, <1>d, <1>1, <1>2, <2>1, ServedType DEF TypeOK
<1>6. OwnerInv' /\ UnharmedInv'
  <2>1. \A s \in Runs : pc'[s] = "idle" <=> user'[s] = None
    BY <1>a, <1>d, <1>e DEF MemInv, OwnerInv
  <2>2. \A s \in Runs : D[s] = "stored" =>
            pc'[s] = "holding" /\ user'[s] = user[s] /\ B[user[s]] # None
    <3>1. \A s \in Runs : s # r /\ dict[s] = "stored" => B[user[s]] # None
      <4>1. \A s \in Runs : pc[s] = "holding" => user[s] \in Users
        BY <1>t DEF MemInv, OwnerInv, TypeOK
      <4> QED
        BY <4>1, <1>b, HandedSound DEF MemInv, OwnerInv
    <3> QED
      BY <1>a, <1>c, <1>d, <1>e, <3>1 DEF MemInv, OwnerInv
  <2>3. \A s \in Runs : pc'[s] \in {"holding", "written"} => user[s] \in Users
    BY <1>b, <1>d, <1>t DEF MemInv, OwnerInv, TypeOK
  <2>4. \A s \in Runs \ interrupted :
            /\ pc'[s] = "holding" => D[s] = "stored" /\ InFlight(s)
            /\ pc'[s] = "written" => /\ InFlight(s) /\ user'[s] = user[s]
                                     /\ B[user[s]] # None /\ s \in B[user[s]]
    <3>1. ASSUME NEW s \in Runs \ interrupted, pc[s] = "written"
          PROVE  B[user[s]] # None /\ s \in B[user[s]]
      <4>1. user[s] \in Users /\ blobs[user[s]] # None /\ s \in blobs[user[s]]
        BY <3>1, <1>t DEF MemInv, OwnerInv, UnharmedInv, TypeOK
      <4> QED
        BY <4>1, <1>b, HandedSound
    <3> QED
      BY <1>a, <1>d, <1>e, <3>1 DEF MemInv, UnharmedInv, InFlight
  <2> QED
    BY <1>t, <1>b, <1>1, <1>2, <2>1, <2>2, <2>3, <2>4, ServedHandlers
<1>7. SeenInv'
  BY <1>a, <1>b, <1>t, <1>1, <1>2, ServedSeen
<1>8. RunsKeptApart'
  <2>1. \A k \in Users : copy'[k] # None =>
            \A s \in copy'[k].rows \cup copy'[k].blobs : user'[s] = k
    BY <1>a DEF MemInv, RunsKeptApart
  <2> QED
    BY <1>a, <1>b, <1>1, <2>1, HandedSound, ServedApart
<1>9. LatestRestorable'
  <2>1. interrupted \subseteq interrupted'
    BY <1>1, Grown DEF Served
  <2>2. \A k \in Users : rows[k] # None =>
            \A s \in Newest(rows[k]) \ interrupted' : B[k] # None /\ s \in B[k]
    BY <1>b, <2>1, HandedSound
  <2>3. \A k \in Users : copy'[k] # None =>
            \A s \in Newest(copy'[k].rows) \ interrupted' : s \in copy'[k].blobs
    BY <1>a, <2>1 DEF MemInv, LatestRestorable
  <2> QED
    BY <1>b, <1>1, <2>2, <2>3, ServedRestorable
<1> QED
  BY <1>1, <1>5, <1>6, <1>7, <1>8, <1>9 DEF MemInv

\* The row appears after the snapshot, which is there unless the store went.
LEMMA MemListRun ==
    ASSUME MemInv, NEW r \in Runs, ListRun(r)
    PROVE  MemInv'
<1> DEFINE u == user[r]
           C == Connected(u)
           R == [C EXCEPT ![u] = @ \cup {r}]
<1>t. TypeOK /\ SeenInv
  BY DEF MemInv
<1>a. /\ pc[r] = "written" /\ pc' = [pc EXCEPT ![r] = "done"]
      /\ Serve(u, R, blobs, dict, {}) /\ UNCHANGED <<now, copy, user>>
  BY DEF ListRun
<1>b. u \in Users
  BY <1>a, <1>t DEF MemInv, OwnerInv, TypeOK
<1>c. /\ R \in [Users -> MaybeRuns] /\ R[u] = C[u] \cup {r}
      /\ \A k \in Users : k # u => R[k] = C[k]
      /\ C[u] # None /\ C[u] \in SUBSET Runs
  BY <1>b, <1>t, ConnectedHanded DEF MaybeRuns
<1>d. pc'[r] = "done" /\ \A s \in Runs : s # r => pc'[s] = pc[s]
  BY <1>a, <1>t DEF TypeOK
<1>e. /\ Handed(u, C, blobs)
      /\ \A k \in Users : /\ C[k] # None => \A s \in C[k] : user[s] = k
                          /\ blobs[k] # None => \A s \in blobs[k] : user[s] = k
                          /\ C[k] # None => \A s \in Newest(C[k]) \ interrupted :
                                                blobs[k] # None /\ s \in blobs[k]
  BY <1>b, HandedSound
<1>2. Handed(u, R, blobs)
  BY <1>c, <1>e DEF Handed
<1> HIDE DEF R, C
<1>1. PICK gone : Served(u, R, blobs, dict, {}, gone) /\ ConnectionsCapped'
  BY <1>a, <1>b, <1>t, ServeBrings
<1>5. TypeOK'
  <2>1. pc' \in [Runs -> Steps] /\ dict \in [Runs -> {"none", "stored", "detached"}]
    BY <1>a, <1>t DEF TypeOK, Steps
  <2> QED
    BY <1>t, <1>a, <1>b, <1>1, <1>2, <2>1, ServedType DEF TypeOK
<1>6. OwnerInv' /\ UnharmedInv'
  <2>1. \A s \in Runs : pc'[s] = "idle" <=> user'[s] = None
    BY <1>a, <1>d DEF MemInv, OwnerInv
  <2>2. \A s \in Runs : dict[s] = "stored" =>
            pc'[s] = "holding" /\ user'[s] = user[s] /\ blobs[user[s]] # None
    BY <1>a, <1>d DEF MemInv, OwnerInv
  <2>3. \A s \in Runs : pc'[s] \in {"holding", "written"} => user[s] \in Users
    BY <1>d, <1>t DEF MemInv, OwnerInv, TypeOK
  <2>4. \A s \in Runs \ interrupted :
            /\ pc'[s] = "holding" => dict[s] = "stored" /\ InFlight(s)
            /\ pc'[s] = "written" => /\ InFlight(s) /\ user'[s] = user[s]
                                     /\ blobs[user[s]] # None /\ s \in blobs[user[s]]
    BY <1>a, <1>d DEF MemInv, UnharmedInv, InFlight
  <2> QED
    BY <1>t, <1>b, <1>1, <1>2, <2>1, <2>2, <2>3, <2>4, ServedHandlers
<1>7. SeenInv'
  BY <1>a, <1>b, <1>t, <1>1, <1>2, ServedSeen
<1>8. RunsKeptApart'
  <2>1. \A k \in Users : copy'[k] # None =>
            \A s \in copy'[k].rows \cup copy'[k].blobs : user'[s] = k
    BY <1>a DEF MemInv, RunsKeptApart
  <2>2. \A k \in Users : /\ R[k] # None => \A s \in R[k] : user'[s] = k
                         /\ blobs[k] # None => \A s \in blobs[k] : user'[s] = k
    BY <1>a, <1>c, <1>e
  <2> QED
    BY <1>b, <1>1, <2>1, <2>2, ServedApart
<1>9. LatestRestorable'
  <2>1. interrupted \subseteq interrupted'
    BY <1>1, Grown DEF Served
  <2>2. ASSUME NEW k \in Users, R[k] # None, NEW s \in Newest(R[k]) \ interrupted'
        PROVE  blobs[k] # None /\ s \in blobs[k]
    <3>1. CASE k # u \/ s # r
      <4>1. C[k] # None /\ s \in Newest(C[k])
        BY <1>c, <2>2, <3>1 DEF Newest
      <4> QED
        BY <1>e, <2>1, <2>2, <4>1
    <3>2. CASE k = u /\ s = r
      BY <1>a, <2>1, <2>2, <3>2 DEF MemInv, UnharmedInv
    <3> QED
      BY <3>1, <3>2
  <2>3. \A k \in Users : copy'[k] # None =>
            \A s \in Newest(copy'[k].rows) \ interrupted' : s \in copy'[k].blobs
    BY <1>a, <2>1 DEF MemInv, LatestRestorable
  <2> QED
    BY <1>b, <1>1, <2>2, <2>3, ServedRestorable
<1> QED
  BY <1>1, <1>5, <1>6, <1>7, <1>8, <1>9 DEF MemInv

\* The browser gets what the store holds.
LEMMA MemExport ==
    ASSUME MemInv, NEW u \in Users, Export(u)
    PROVE  MemInv'
<1> DEFINE R == Connected(u)
           B == WithBlobs(u)
<1>t. TypeOK /\ SeenInv
  BY DEF MemInv
<1>a. /\ Serve(u, R, B, dict, {}) /\ UNCHANGED <<now, user, pc>>
      /\ copy' = [copy EXCEPT ![u] = [rows |-> rows'[u], blobs |-> blobs'[u] \cap Newest(rows'[u])]]
  BY DEF Export
<1>1. PICK gone : Served(u, R, B, dict, {}, gone) /\ ConnectionsCapped'
  BY <1>a, <1>t, ServeBrings
<1>2. /\ Handed(u, R, B)
      /\ \A k \in Users : /\ R[k] # None => \A s \in R[k] : user[s] = k
                          /\ B[k] # None => \A s \in B[k] : user[s] = k
                          /\ blobs[k] # None => B[k] = blobs[k]
                          /\ R[k] # None => \A s \in Newest(R[k]) \ interrupted :
                                                B[k] # None /\ s \in B[k]
  BY HandedSound
<1>3. /\ rows'[u] = R[u] /\ blobs'[u] = B[u]
      /\ R[u] \in SUBSET Runs /\ B[u] \in SUBSET Runs /\ R[u] # None /\ B[u] # None
  BY <1>1, <1>t, ConnectedHanded DEF Served
<1> HIDE DEF R, B
<1>4. /\ copy'[u] = [rows |-> R[u], blobs |-> B[u] \cap Newest(R[u])]
      /\ \A k \in Users : k # u => copy'[k] = copy[k]
  BY <1>a, <1>t, <1>3 DEF TypeOK
<1>5. TypeOK'
  <2>1. copy'[u] \in [rows : SUBSET Runs, blobs : SUBSET Runs]
    BY <1>3, <1>4
  <2>2. copy' \in [Users -> {None} \cup [rows : SUBSET Runs, blobs : SUBSET Runs]]
    BY <1>a, <1>t, <2>1, <1>4 DEF TypeOK
  <2>3. dict \in [Runs -> {"none", "stored", "detached"}]
    BY <1>t DEF TypeOK
  <2> QED
    BY <1>t, <1>a, <1>1, <1>2, <2>2, <2>3, ServedType DEF TypeOK
<1>6. OwnerInv' /\ UnharmedInv'
  <2>1. \A s \in Runs : pc'[s] = "idle" <=> user'[s] = None
    BY <1>a DEF MemInv, OwnerInv
  <2>2. \A s \in Runs : pc[s] \in {"holding", "written"} => user[s] \in Users
    BY <1>t DEF MemInv, OwnerInv, TypeOK
  <2>3. \A s \in Runs : dict[s] = "stored" =>
            pc'[s] = "holding" /\ user'[s] = user[s] /\ B[user[s]] # None
    BY <1>a, <1>2, <2>2 DEF MemInv, OwnerInv
  <2>4. \A s \in Runs \ interrupted :
            /\ pc'[s] = "holding" => dict[s] = "stored" /\ InFlight(s)
            /\ pc'[s] = "written" => /\ InFlight(s) /\ user'[s] = user[s]
                                     /\ B[user[s]] # None /\ s \in B[user[s]]
    BY <1>a, <1>2, <2>2 DEF MemInv, UnharmedInv, InFlight
  <2>5. \A s \in Runs : pc'[s] \in {"holding", "written"} => user[s] \in Users
    BY <1>a, <2>2
  <2> QED
    BY <1>t, <1>1, <1>2, <2>1, <2>3, <2>4, <2>5, ServedHandlers
<1>7. SeenInv'
  BY <1>a, <1>t, <1>1, <1>2, ServedSeen
<1>8. RunsKeptApart'
  <2>1. \A k \in Users : copy'[k] # None =>
            \A s \in copy'[k].rows \cup copy'[k].blobs : user'[s] = k
    BY <1>a, <1>2, <1>3, <1>4 DEF MemInv, RunsKeptApart, Newest
  <2>2. \A k \in Users : /\ R[k] # None => \A s \in R[k] : user'[s] = k
                         /\ B[k] # None => \A s \in B[k] : user'[s] = k
    BY <1>a, <1>2
  <2> QED
    BY <1>1, <2>1, <2>2, ServedApart
<1>9. LatestRestorable'
  <2>1. interrupted \subseteq interrupted'
    BY <1>1, Grown DEF Served
  <2>2. \A k \in Users : R[k] # None =>
            \A s \in Newest(R[k]) \ interrupted' : B[k] # None /\ s \in B[k]
    BY <1>2, <2>1
  <2>3. \A k \in Users : copy'[k] # None =>
            \A s \in Newest(copy'[k].rows) \ interrupted' : s \in copy'[k].blobs
    <3>1. \A s \in Newest(R[u]) \ interrupted' : s \in B[u] \cap Newest(R[u])
      BY <1>3, <2>2
    <3>2. \A k \in Users \ {u} : copy'[k] # None =>
              \A s \in Newest(copy'[k].rows) \ interrupted' : s \in copy'[k].blobs
      BY <1>4, <2>1 DEF MemInv, LatestRestorable
    <3> QED
      BY <1>4, <3>1, <3>2
  <2> QED
    BY <1>1, <2>2, <2>3, ServedRestorable
<1> QED
  BY <1>1, <1>5, <1>6, <1>7, <1>8, <1>9 DEF MemInv

\* Whatever was in flight loses its store; the copy was sound.
LEMMA MemImport ==
    ASSUME MemInv, NEW u \in Users, Import(u)
    PROVE  MemInv'
<1> DEFINE R == [rows EXCEPT ![u] = copy[u].rows]
           B == [blobs EXCEPT ![u] = copy[u].blobs]
<1>t. TypeOK /\ SeenInv
  BY DEF MemInv
<1>a. copy[u] # None /\ Serve(u, R, B, dict, {u}) /\ UNCHANGED <<now, copy, user, pc>>
  BY DEF Import
<1>b. /\ copy[u].rows \in SUBSET Runs /\ copy[u].blobs \in SUBSET Runs
      /\ copy[u].blobs # None
  BY <1>a, <1>t, MemStoreAssumption DEF TypeOK
<1>c. /\ R[u] = copy[u].rows /\ B[u] = copy[u].blobs
      /\ \A k \in Users : k # u => R[k] = rows[k] /\ B[k] = blobs[k]
      /\ R \in [Users -> MaybeRuns] /\ B \in [Users -> MaybeRuns]
  BY <1>b, <1>t DEF TypeOK, MaybeRuns
<1>2. Handed(u, R, B)
  BY <1>c DEF Handed
<1> HIDE DEF R, B
<1>1. PICK gone : Served(u, R, B, dict, {u}, gone) /\ ConnectionsCapped'
  BY <1>a, <1>t, ServeBrings
<1>5. TypeOK'
  <2>1. dict \in [Runs -> {"none", "stored", "detached"}]
    BY <1>t DEF TypeOK
  <2> QED
    BY <1>t, <1>a, <1>1, <1>2, <2>1, ServedType DEF TypeOK
<1>6. OwnerInv' /\ UnharmedInv'
  <2>1. \A s \in Runs : pc'[s] = "idle" <=> user'[s] = None
    BY <1>a DEF MemInv, OwnerInv
  <2>2. \A s \in Runs : pc[s] \in {"holding", "written"} => user[s] \in Users
    BY <1>t DEF MemInv, OwnerInv, TypeOK
  <2>3. \A s \in Runs : dict[s] = "stored" =>
            pc'[s] = "holding" /\ user'[s] = user[s] /\ B[user[s]] # None
    BY <1>a, <1>b, <1>c, <2>2 DEF MemInv, OwnerInv
  <2>4. \A s \in Runs \ interrupted :
            /\ pc'[s] = "holding" => dict[s] = "stored" /\ InFlight(s)
            /\ pc'[s] = "written" =>
                  /\ InFlight(s) /\ user'[s] = user[s]
                  /\ user[s] \in {u} \/ (B[user[s]] # None /\ s \in B[user[s]])
    BY <1>a, <1>c, <2>2 DEF MemInv, UnharmedInv, InFlight
  <2>5. \A s \in Runs : pc'[s] \in {"holding", "written"} => user[s] \in Users
    BY <1>a, <2>2
  <2> QED
    BY <1>t, <1>1, <1>2, <2>1, <2>3, <2>4, <2>5, ServedHandlers
<1>7. SeenInv'
  BY <1>a, <1>t, <1>1, <1>2, ServedSeen
<1>8. RunsKeptApart'
  <2>1. \A k \in Users : copy'[k] # None =>
            \A s \in copy'[k].rows \cup copy'[k].blobs : user'[s] = k
    BY <1>a DEF MemInv, RunsKeptApart
  <2>2. \A k \in Users : /\ R[k] # None => \A s \in R[k] : user'[s] = k
                         /\ B[k] # None => \A s \in B[k] : user'[s] = k
    BY <1>a, <1>c, <2>1 DEF MemInv, RunsKeptApart
  <2> QED
    BY <1>1, <2>1, <2>2, ServedApart
<1>9. LatestRestorable'
  <2>1. interrupted \subseteq interrupted'
    BY <1>1, Grown DEF Served
  <2>2. \A k \in Users : R[k] # None =>
            \A s \in Newest(R[k]) \ interrupted' : B[k] # None /\ s \in B[k]
    BY <1>a, <1>b, <1>c, <2>1 DEF MemInv, LatestRestorable
  <2>3. \A k \in Users : copy'[k] # None =>
            \A s \in Newest(copy'[k].rows) \ interrupted' : s \in copy'[k].blobs
    BY <1>a, <2>1 DEF MemInv, LatestRestorable
  <2> QED
    BY <1>1, <2>2, <2>3, ServedRestorable
<1> QED
  BY <1>1, <1>5, <1>6, <1>7, <1>8, <1>9 DEF MemInv

LEMMA MemWriteBlob ==
    ASSUME MemInv, NEW r \in Runs, WriteBlob(r)
    PROVE  MemInv'
<1> DEFINE u == user[r]
<1>t. TypeOK
  BY DEF MemInv
<1>a. /\ pc[r] = "holding" /\ pc' = [pc EXCEPT ![r] = "written"]
      /\ dict' = [dict EXCEPT ![r] = "none"]
      /\ UNCHANGED <<rows, seen, swept, now, copy, user, interrupted>>
  BY DEF WriteBlob
<1>b. u \in Users /\ (dict[r] = "stored" => blobs[u] # None)
  BY <1>a, <1>t DEF MemInv, OwnerInv, TypeOK
<1>c. /\ \A k \in Users : k # u \/ dict[r] # "stored" => blobs'[k] = blobs[k]
      /\ dict[r] = "stored" => blobs'[u] = blobs[u] \cup {r}
      /\ blobs' \in [Users -> MaybeRuns]
  BY <1>b, <1>t DEF WriteBlob, TypeOK, MaybeRuns
<1>n. \A k \in Users : blobs[k] # None => blobs'[k] # None /\ blobs[k] \subseteq blobs'[k]
  <2>1. dict[r] = "stored" => blobs'[u] # None
    <3>1. dict[r] = "stored" => blobs'[u] \in SUBSET Runs
      BY <1>b, <1>c, <1>t DEF TypeOK, MaybeRuns
    <3> QED
      BY <3>1, MemStoreAssumption
  <2> QED
    BY <1>b, <1>c, <2>1
<1>1. TypeOK'
  BY <1>a, <1>c, <1>t DEF TypeOK, Steps
<1>d. /\ \A s \in Runs : s # r => pc'[s] = pc[s] /\ dict'[s] = dict[s]
      /\ pc'[r] = "written" /\ dict'[r] = "none"
  BY <1>a, <1>t DEF TypeOK
<1>w. \A s \in Runs : pc[s] \in {"holding", "written"} => user[s] \in Users
  BY <1>t DEF MemInv, OwnerInv, TypeOK
<1>2. OwnerInv'
  BY <1>a, <1>d, <1>n, <1>w DEF MemInv, OwnerInv
<1>3. UnharmedInv'
  <2>1. r \notin interrupted => blobs'[u] # None /\ r \in blobs'[u]
    BY <1>a, <1>b, <1>c, <1>n DEF MemInv, UnharmedInv
  <2> QED
    BY <1>a, <1>d, <1>n, <1>w, <2>1 DEF MemInv, UnharmedInv
<1>4. SeenInv' /\ ConnectionsCapped'
  BY <1>a DEF MemInv, SeenInv, ConnectionsCapped, Held
<1>5. RunsKeptApart'
  <2>1. ASSUME NEW k \in Users, blobs'[k] # None, NEW s \in blobs'[k] PROVE user[s] = k
    BY <1>b, <1>c, <2>1 DEF MemInv, RunsKeptApart
  <2> QED
    BY <1>a, <2>1 DEF MemInv, RunsKeptApart
<1>6. LatestRestorable'
  BY <1>a, <1>n DEF MemInv, LatestRestorable, Newest
<1> QED
  BY <1>1, <1>2, <1>3, <1>4, <1>5, <1>6 DEF MemInv

LEMMA MemClear ==
    ASSUME MemInv, NEW u \in Users, Clear(u)
    PROVE  MemInv'
<1>t. TypeOK
  BY DEF MemInv
<1>a. /\ UNCHANGED <<seen, swept, now, copy, user, pc>>
      /\ rows' \in [Users -> MaybeRuns] /\ blobs' \in [Users -> MaybeRuns]
      /\ \A k \in Users : k # u => rows'[k] = rows[k] /\ blobs'[k] = blobs[k]
      /\ rows'[u] = None /\ blobs'[u] = None
      /\ \A r \in Runs : dict'[r] = IF user[r] = u /\ dict[r] = "stored"
                                    THEN "detached" ELSE dict[r]
      /\ interrupted' = interrupted \cup {r \in Runs : user[r] = u /\ InFlight(r)}
      /\ dict' \in [Runs -> {"none", "stored", "detached"}]
  BY <1>t DEF Clear, Detach, TypeOK, MaybeRuns
<1>1. TypeOK'
  BY <1>a, <1>t DEF TypeOK
<1>w. \A s \in Runs : pc[s] \in {"holding", "written"} => user[s] \in Users
  BY <1>t DEF MemInv, OwnerInv, TypeOK
<1>2. OwnerInv'
  BY <1>a, <1>w DEF MemInv, OwnerInv
<1>3. UnharmedInv'
  BY <1>a, <1>w DEF MemInv, UnharmedInv, InFlight
<1>4. SeenInv'
  BY <1>a DEF MemInv, SeenInv
<1>5. ConnectionsCapped'
  <2>1. Held' \subseteq Held /\ Held \subseteq Users
    BY <1>a DEF Held
  <2>2. /\ IsFiniteSet(Held) /\ IsFiniteSet(Held')
        /\ Cardinality(Held') <= Cardinality(Held)
        /\ Cardinality(Held) \in Nat /\ Cardinality(Held') \in Nat
    BY <2>1, FS_Subset, FS_CardinalityType, MemStoreAssumption
  <2> QED
    BY <2>2, MemStoreAssumption DEF MemInv, ConnectionsCapped
<1>6. RunsKeptApart'
  BY <1>a DEF MemInv, RunsKeptApart
<1>7. LatestRestorable'
  BY <1>a DEF MemInv, LatestRestorable, Newest
<1> QED
  BY <1>1, <1>2, <1>3, <1>4, <1>5, <1>6, <1>7 DEF MemInv

\* Without stores, nothing is wrong with them.
LEMMA NoneHeld ==
    ASSUME \A u \in Users : rows[u] = None
    PROVE  ConnectionsCapped
<1>1. Held = {}
  BY DEF Held
<1> QED
  BY <1>1, FS_EmptySet, MemStoreAssumption DEF ConnectionsCapped

LEMMA MemRestart ==
    ASSUME MemInv, Restart
    PROVE  MemInv'
<1>t. TypeOK
  BY DEF MemInv
<1>a. /\ \A u \in Users : rows'[u] = None /\ blobs'[u] = None
      /\ \A r \in Runs : /\ dict'[r] = "none"
                         /\ pc'[r] = IF InFlight(r) THEN "done" ELSE pc[r]
      /\ UNCHANGED <<copy, user, interrupted>>
  BY DEF Restart
<1>1. TypeOK'
  BY <1>t DEF Restart, TypeOK, MaybeRuns, Steps
<1>2. OwnerInv' /\ UnharmedInv'
  BY <1>a DEF MemInv, OwnerInv, UnharmedInv, InFlight
<1>3. SeenInv'
  BY <1>a DEF SeenInv
<1>4. ConnectionsCapped'
  <2>1. Held' = {}
    BY <1>a DEF Held
  <2> QED
    BY <2>1, FS_EmptySet, MemStoreAssumption DEF ConnectionsCapped
<1>5. RunsKeptApart' /\ LatestRestorable'
  BY <1>a DEF MemInv, RunsKeptApart, LatestRestorable, Newest
<1> QED
  BY <1>1, <1>2, <1>3, <1>4, <1>5 DEF MemInv

LEMMA MemInit == Init => MemInv
<1> SUFFICES ASSUME Init PROVE MemInv
  OBVIOUS
<1>1. TypeOK
  BY DEF Init, TypeOK, MaybeRuns, Steps
<1>2. \A u \in Users : rows[u] = None /\ blobs[u] = None /\ copy[u] = None
  BY DEF Init
<1>3. ConnectionsCapped
  BY <1>2, NoneHeld
<1>4. OwnerInv /\ UnharmedInv /\ SeenInv
  BY <1>2 DEF Init, OwnerInv, UnharmedInv, SeenInv
<1>5. RunsKeptApart /\ LatestRestorable
  BY <1>2 DEF RunsKeptApart, LatestRestorable
<1> QED
  BY <1>1, <1>3, <1>4, <1>5 DEF MemInv

LEMMA MemStep == MemInv /\ [Next]_vars => MemInv'
<1> SUFFICES ASSUME MemInv, [Next]_vars PROVE MemInv'
  OBVIOUS
<1>1. ASSUME NEW u \in Users, UseTables(u) \/ UseBlobs(u) PROVE MemInv'
  BY <1>1, MemCall DEF UseTables, UseBlobs
<1>2. ASSUME UNCHANGED <<kept, copy, handler, interrupted>>, now' \in {now, now + 1}
      PROVE  MemInv'
  <2>1. TypeOK /\ SeenInv
    BY DEF MemInv
  <2>2. TypeOK' /\ SeenInv'
    BY <1>2, <2>1 DEF kept, handler, TypeOK, SeenInv
  <2>3. OwnerInv' /\ UnharmedInv' /\ ConnectionsCapped' /\ RunsKeptApart' /\ LatestRestorable'
    BY <1>2 DEF kept, handler, MemInv, OwnerInv, UnharmedInv, ConnectionsCapped, Held,
                RunsKeptApart, LatestRestorable, Newest
  <2> QED
    BY <2>2, <2>3 DEF MemInv
<1>3. CASE Tick \/ UNCHANGED vars
  BY <1>2, <1>3 DEF Tick, vars
<1> QED
  BY <1>1, <1>3, MemClear, MemExport, MemImport, MemStartRun, MemLookUp, MemWriteBlob,
     MemListRun, MemRestart DEF Next

\* Every variable of the in-memory backend stays within its type; in particular
\* a handler never writes to a blob dict of a customer who has none.
THEOREM MemStoreTypeCorrect == Spec => []TypeOK
<1>1. MemInv => TypeOK
  BY DEF MemInv
<1> QED
  BY <1>1, MemInit, MemStep, PTL DEF Spec

\* For any number of customers and runs, any cap, timeout and throttle: no more
\* customers than the cap have a database (_touch_and_evict), nobody's tables,
\* blobs or copy hold another's runs, and the newest run that is listed or was
\* exported has its snapshot, unless its store went while it was in flight.
THEOREM StoresAreSound == Spec => []StoresSound
<1>1. MemInv => StoresSound
  BY DEF MemInv, StoresSound
<1> QED
  BY <1>1, MemInit, MemStep, PTL DEF Spec

------------------------------------------------------------------------------
EvictsRightly ==
    \A u, k \in Held :
        (rows'[k] = None /\ rows'[u] # None /\ seen'[u] = seen[u] /\ u # k) =>
            \/ Ttl > 0 /\ now - seen[k] > Ttl
            \/ Cap > 0 /\ seen[k] <= seen[u]
            \/ seen'[k] = seen[k]

LEMMA ServeEvictsRightly ==
    ASSUME MemInv, NEW v \in Users, NEW R, NEW B, NEW D, NEW reset, Serve(v, R, B, D, reset),
           \A k \in Users \ {v} : R[k] = rows[k], rows[v] # None => R[v] # None
    PROVE  EvictsRightly
<1> SUFFICES ASSUME NEW u \in Held, NEW k \in Held, rows'[k] = None, rows'[u] # None,
                    seen'[u] = seen[u], u # k
             PROVE  \/ Ttl > 0 /\ now - seen[k] > Ttl
                    \/ Cap > 0 /\ seen[k] <= seen[u]
  BY DEF EvictsRightly
<1>1. PICK gone : Served(v, R, B, D, reset, gone) /\ Rightly(v, R, gone)
  BY ServeBrings DEF MemInv
<1>2. u \in Users /\ k \in Users /\ rows[u] # None /\ rows[k] # None
  BY DEF Held
<1>3. R[k] # None /\ R[u] # None
  BY <1>2
<1>4. k \in gone /\ u \notin gone
  BY <1>1, <1>2, <1>3 DEF Served
<1>5. seen[k] \in Nat /\ seen[k] <= now
  BY <1>2 DEF MemInv, SeenInv
<1>6. CASE u = v
  <2>1. seen[u] = now
    BY <1>1, <1>2, <1>6 DEF Served
  <2> QED
    BY <1>1, <1>4, <1>5, <2>1 DEF Rightly
<1>7. CASE u # v
  BY <1>1, <1>2, <1>3, <1>4, <1>7 DEF Rightly
<1> QED
  BY <1>6, <1>7

LEMMA StepEvictsRightly ==
    ASSUME MemInv, [Next]_vars
    PROVE  EvictsRightly
<1>t. TypeOK
  BY DEF MemInv
<1>1. \A v \in Users : /\ \A k \in Users \ {v} : Connected(v)[k] = rows[k]
                       /\ Connected(v)[v] # None
  BY <1>t, ConnectedHanded
<1>2. ASSUME NEW v \in Users,
             UseTables(v) \/ UseBlobs(v) \/ Export(v) \/ \E r \in Runs : StartRun(r, v)
      PROVE  EvictsRightly
  BY <1>1, <1>2, ServeEvictsRightly DEF UseTables, UseBlobs, Export, StartRun
<1>3. ASSUME NEW v \in Users, Import(v) PROVE EvictsRightly
  <2> DEFINE R == [rows EXCEPT ![v] = copy[v].rows]
             B == [blobs EXCEPT ![v] = copy[v].blobs]
  <2>1. Serve(v, R, B, dict, {v}) /\ copy[v] # None
    BY <1>3 DEF Import
  <2>2. copy[v].rows \in SUBSET Runs
    BY <1>t, <2>1 DEF TypeOK
  <2>3. R[v] # None /\ \A k \in Users \ {v} : R[k] = rows[k]
    BY <1>t, <2>2, MemStoreAssumption DEF TypeOK
  <2> HIDE DEF R, B
  <2> QED
    BY <2>1, <2>3, ServeEvictsRightly
<1>4. ASSUME NEW r \in Runs, LookUp(r) PROVE EvictsRightly
  <2>1. user[r] \in Users
    BY <1>4, <1>t DEF LookUp, MemInv, OwnerInv, TypeOK
  <2> QED
    BY <1>4, <2>1, ServeEvictsRightly DEF LookUp
<1>5. ASSUME NEW r \in Runs, ListRun(r) PROVE EvictsRightly
  <2> DEFINE v == user[r]
             C == Connected(v)
             R == [C EXCEPT ![v] = @ \cup {r}]
  <2>1. v \in Users
    BY <1>5, <1>t DEF ListRun, MemInv, OwnerInv, TypeOK
  <2>2. Serve(v, R, blobs, dict, {})
    BY <1>5 DEF ListRun
  <2>3. C \in [Users -> MaybeRuns] /\ C[v] \in SUBSET Runs
    BY <1>t, <2>1, ConnectedHanded
  <2>4. R[v] \in SUBSET Runs /\ \A k \in Users \ {v} : R[k] = rows[k]
    BY <1>1, <2>1, <2>3
  <2>5. R[v] # None
    BY <2>4, MemStoreAssumption
  <2> HIDE DEF R, C
  <2> QED
    BY <2>1, <2>2, <2>4, <2>5, ServeEvictsRightly
<1>6. ASSUME NEW v \in Users, Clear(v) PROVE EvictsRightly
  BY <1>6, <1>t DEF Clear, EvictsRightly, Held, TypeOK
<1>7. CASE Restart
  BY <1>7 DEF Restart, EvictsRightly, Held
<1>8. ASSUME rows' = rows PROVE EvictsRightly
  BY <1>8 DEF EvictsRightly, Held
<1>9. CASE Tick \/ UNCHANGED vars \/ \E r \in Runs : WriteBlob(r)
  BY <1>8, <1>9 DEF Tick, vars, kept, WriteBlob
<1> QED
  BY <1>2, <1>3, <1>4, <1>5, <1>6, <1>7, <1>9 DEF Next

\* A customer whose store a call drops was idle for longer than the timeout, or
\* seen no later than everybody who keeps theirs: the cap takes the least
\* recently seen, for any cap, timeout, throttle and number of customers.
THEOREM EvictionIsFair == Spec => EvictsIdleOrLeastRecentlySeen
<1>1. MemInv /\ [Next]_vars => [EvictsRightly]_vars
  BY StepEvictsRightly
<1>2. [EvictsRightly]_vars =>
          [\A u, k \in Held :
              (rows'[k] = None /\ rows'[u] # None /\ seen'[u] = seen[u] /\ u # k) =>
                  \/ Ttl > 0 /\ now - seen[k] > Ttl
                  \/ Cap > 0 /\ seen[k] <= seen[u]
                  \/ seen'[k] = seen[k]]_vars
  BY DEF EvictsRightly
<1> QED
  BY <1>1, <1>2, MemInit, MemStep, PTL DEF Spec, EvictsIdleOrLeastRecentlySeen
===============================================================================
