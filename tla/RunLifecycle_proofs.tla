-------------------------- MODULE RunLifecycle_proofs --------------------------
(***************************************************************************)
(* Proofs about RunLifecycle, for every set of runs and BOMs, retention    *)
(* limit and number of restarts, failing calls and imports.                *)
(***************************************************************************)
EXTENDS RunLifecycle, FiniteSetTheorems, WellFoundedInduction, TLAPS

\* A bounded event keeps the counters natural numbers.
LEMMA HappensType ==
    ASSUME NEW e \in Events, count \in [Events -> Nat], Happens(e)
    PROVE  count' \in [Events -> Nat]
<1> DEFINE old == count[e]
<1>1. old + 1 \in Nat
  OBVIOUS
<1>2. count' = [count EXCEPT ![e] = old + 1]
  BY DEF Happens
<1> QED
  BY <1>1, <1>2

LEMMA WriteRowType ==
    ASSUME TypeOK, NEW r \in Runs, NEW status \in Status, WriteRow(r, status)
    PROVE  row' \in [Runs -> Status] /\ count' \in [Events -> Nat]
<1>1. "fault" \in Events
  BY DEF Events
<1> QED
  BY <1>1, HappensType DEF TypeOK, WriteRow

LEMMA TypeInit == Init => TypeOK
  BY DEF Init, TypeOK, Status, Steps, Events

\* Every step keeps the variables in their types.
LEMMA TypeStep == TypeOK /\ [Next]_vars => TypeOK'
<1> SUFFICES ASSUME TypeOK, [Next]_vars PROVE TypeOK'
  OBVIOUS
<1> USE DEF handler, store, exchange, wipe, reader, history
<1>1. ASSUME NEW r \in Runs, NEW b \in Partitions, Accept(r, b) PROVE TypeOK'
  BY <1>1 DEF Accept, TypeOK, Goto, Steps
<1>2. ASSUME NEW r \in Runs, Handle(r) PROVE TypeOK'
  <2>1. CASE RecordRunning(r)
    BY <2>1, WriteRowType DEF RecordRunning, TypeOK, Goto, Steps, Status
  <2>2. CASE StartProgress(r)
    BY <2>2 DEF StartProgress, TypeOK, Goto, Note, Steps, Status
  <2>3. CASE Compile(r)
    BY <2>3 DEF Compile, TypeOK, Goto, Steps
  <2>4. CASE Persist(r)
    BY <2>4, HappensType DEF Persist, TypeOK, Goto, Steps, Events
  <2>5. CASE RecordSucceeded(r)
    BY <2>5, WriteRowType DEF RecordSucceeded, TypeOK, Goto, Steps, Status
  <2>6. CASE CompleteProgress(r)
    BY <2>6 DEF CompleteProgress, TypeOK, Goto, Note, Steps, Status
  <2>7. CASE ListStale(r)
    BY <2>7 DEF ListStale, TypeOK, Goto, Steps, Beyond, Listed
  <2>8. CASE PruneBlob(r)
    BY <2>8, HappensType DEF PruneBlob, TypeOK, Goto, Steps, Events
  <2>9. CASE PruneRow(r)
    BY <2>9, WriteRowType DEF PruneRow, TypeOK, Goto, Steps, Status, Latest
  <2>10. CASE FailProgress(r)
    BY <2>10 DEF FailProgress, TypeOK, Goto, Note, Steps, Status
  <2>11. CASE RecordFailed(r)
    BY <2>11, WriteRowType DEF RecordFailed, TypeOK, Goto, Steps, Status
  <2>12. CASE SkipPrune(r) \/ Abort(r)
    BY <2>12, HappensType DEF SkipPrune, Abort, TypeOK, Goto, Steps, Events
  <2> QED
    BY <1>2, <2>1, <2>2, <2>3, <2>4, <2>5, <2>6, <2>7, <2>8, <2>9, <2>10, <2>11, <2>12 DEF Handle
<1>3. CASE Export
  BY <1>3 DEF Export, TypeOK
<1>4. CASE Import
  <2>1. CASE StartImport
    BY <2>1, HappensType DEF StartImport, TypeOK, Events
  <2>2. CASE RestoreBlob
    BY <2>2, HappensType DEF RestoreBlob, TypeOK, Events, Latest
  <2>3. CASE RestoreRow
    BY <2>3, WriteRowType DEF RestoreRow, TypeOK, Status
  <2> QED
    BY <1>4, <2>1, <2>2, <2>3 DEF Import
<1>5. CASE Wipe
  <2>1. CASE DropTables \/ KeepTables
    BY <2>1, HappensType DEF DropTables, KeepTables, TypeOK, Events, Status
  <2>2. CASE ListBlobs
    BY <2>2 DEF ListBlobs, TypeOK
  <2>3. ASSUME NEW r \in Runs, WipeBlob(r) PROVE TypeOK'
    BY <2>3 DEF WipeBlob, TypeOK
  <2>4. CASE BreakWipe \/ EndWipe
    BY <2>4 DEF BreakWipe, EndWipe, TypeOK
  <2> QED
    BY <1>5, <2>1, <2>2, <2>3, <2>4 DEF Wipe
<1>6. ASSUME NEW b \in Partitions, FindLatest(b) PROVE TypeOK'
  BY <1>6 DEF FindLatest, TypeOK, Latest, Listed
<1>7. CASE OpenLatest
  BY <1>7 DEF OpenLatest, TypeOK
<1>8. CASE Crash
  BY <1>8, HappensType DEF Crash, TypeOK, Events, Status, Steps
<1>9. CASE UNCHANGED vars
  BY <1>9 DEF vars, TypeOK
<1> QED
  BY <1>1, <1>2, <1>3, <1>4, <1>5, <1>6, <1>7, <1>8, <1>9 DEF Next

\* Every variable stays within its type: in particular a row only ever shows a
\* status api/runs_get knows, and a handler never leaves its steps.
THEOREM TypeCorrect == Spec => []TypeOK
<1> QED
  BY TypeInit, TypeStep, PTL DEF Spec

------------------------------------------------------------------------------
(***************************************************************************)
(* The newest run of a BOM can be opened.  The invariant ties the pieces   *)
(* of state together through the history variables: a run counts as        *)
(* published once a row has listed it, newest is the last of a BOM's       *)
(* published runs, and whatever a prune has listed is older than that.  So *)
(* no blob or row that a prune, an import or a failure path touches is the *)
(* newest one's.                                                           *)
(***************************************************************************)

\* The steps of a handler whose run no row has listed as succeeded.
Pending == {"idle", "accepted", "registered", "compiling", "retrying", "compiled",
            "persisted", "failing", "failed"}

AcceptedInv ==
    \A r \in Runs : /\ pc[r] # "idle" => bomOf[r] \in Partitions
                    /\ pc[r] = "persisted" => r \in blobs

PublishedInv ==
    \A r \in published : /\ pc[r] \notin Pending
                         /\ bomOf[r] \in Partitions
                         /\ r <= newest[bomOf[r]]

NewestInv ==
    \A b \in Partitions : newest[b] # 0 => /\ newest[b] \in published
                                     /\ newest[b] \in blobs
                                     /\ bomOf[newest[b]] = b
                                     /\ row[newest[b]] = "succeeded"

ListedInv == \A r \in Runs : row[r] = "succeeded" => r \in published

SupersededInv ==
    \A h \in Runs : \A s \in stale[h] : s \in published /\ s < newest[bomOf[s]]

ExchangeInv ==
    /\ archive \subseteq published
    /\ restoring \subseteq published
    /\ restored # 0 => restored \in published

NoWipe == wiping = "idle" /\ count["wipe"] = 0

\* Nobody has wiped the local state yet.
Unwiped == count["wipe"] = 0

Safe ==
    /\ TypeOK
    /\ AcceptedInv /\ PublishedInv /\ NewestInv
    /\ ListedInv /\ SupersededInv /\ ExchangeInv
    /\ NoWipe

\* An event other than a wipe does not count as one.
LEMMA NoWipeHappens ==
    ASSUME NEW e \in Events, e # "wipe", count \in [Events -> Nat], Happens(e)
    PROVE  count'["wipe"] = count["wipe"]
  BY DEF Happens, Events

LEMMA NoWipeWriteRow ==
    ASSUME TypeOK, NEW r \in Runs, NEW status \in Status, WriteRow(r, status)
    PROVE  /\ count'["wipe"] = count["wipe"]
           /\ \A s \in Runs : s # r => row'[s] = row[s]
           /\ row'[r] \in {status, row[r]}
  BY NoWipeHappens DEF WriteRow, Events, TypeOK

LEMMA NewestNat ==
    ASSUME TypeOK, NEW b \in Partitions
    PROVE  newest[b] \in Nat
<1> DEFINE top == newest[b]
<1>1. top \in Runs \/ top = 0
  BY DEF TypeOK
<1> HIDE DEF top
<1>2. top \in Nat
  BY <1>1, LifecycleAssumption
<1> QED
  BY <1>2 DEF top

\* A row beyond the newest Keep has a newer one of its BOM.
LEMMA BeyondSuperseded ==
    ASSUME NEW b \in Partitions, NEW s \in Beyond(b)
    PROVE  s \in Listed(b) /\ \E t \in Listed(b) : t > s
<1> DEFINE newer == {t \in Listed(b) : t > s}
<1>1. s \in Listed(b) /\ Cardinality(newer) >= Keep
  BY DEF Beyond
<1>2. newer # {}
  <2> SUFFICES ASSUME newer = {} PROVE FALSE
    OBVIOUS
  <2> HIDE DEF newer
  <2>1. Cardinality(newer) = 0
    BY FS_EmptySet
  <2> QED
    BY <1>1, <2>1, LifecycleAssumption
<1> QED
  BY <1>1, <1>2

\* What has not happened had not happened before.
LEMMA NotYet ==
    ASSUME TypeOK, [Next]_vars, NEW x \in Events, count'[x] = 0
    PROVE  count[x] = 0
<1>1. ASSUME NEW e \in Events, Happens(e) PROVE count[x] = 0
  <2> DEFINE n == count[x]
             m == count[e] + 1
  <2>1. n \in Nat /\ m \in Nat \ {0}
    BY DEF TypeOK
  <2>2. count' = [count EXCEPT ![e] = m]
    BY <1>1 DEF Happens
  <2> HIDE DEF m
  <2>3. count'[x] = IF x = e THEN m ELSE n
    BY <2>2 DEF TypeOK
  <2> QED
    BY <2>1, <2>3
<1>2. ASSUME NEW r \in Runs, NEW status \in Status, WriteRow(r, status) PROVE count[x] = 0
  BY <1>1, <1>2 DEF WriteRow, Events
<1> USE DEF handler, store, exchange, wipe, reader, history
<1>3. ASSUME NEW r \in Runs, Handle(r) PROVE count[x] = 0
  <2>1. CASE PruneRow(r)
    <3>1. PICK s \in Latest(stale[r]) : WriteRow(s, "none")
      BY <2>1 DEF PruneRow
    <3> QED
      BY <1>2, <3>1 DEF Latest, TypeOK, Status
  <2>2. CASE RecordRunning(r) \/ RecordSucceeded(r) \/ RecordFailed(r)
    BY <1>2, <2>2 DEF RecordRunning, RecordSucceeded, RecordFailed, Status
  <2>3. CASE Persist(r) \/ PruneBlob(r) \/ SkipPrune(r) \/ Abort(r)
    BY <1>1, <2>3 DEF Persist, PruneBlob, SkipPrune, Abort, Events
  <2> QED
    BY <1>3, <2>1, <2>2, <2>3
       DEF Handle, StartProgress, Compile, CompleteProgress, ListStale, FailProgress
<1>4. CASE Import
  <2>1. CASE RestoreRow
    <3>1. restored \in Runs
      BY <2>1 DEF RestoreRow, TypeOK
    <3> QED
      BY <1>2, <2>1, <3>1 DEF RestoreRow, Status
  <2> QED
    BY <1>1, <1>4, <2>1 DEF Import, StartImport, RestoreBlob, Events
<1>5. CASE Wipe \/ Crash
  BY <1>1, <1>5 DEF Wipe, DropTables, KeepTables, ListBlobs, WipeBlob, BreakWipe, EndWipe, Crash, Events
<1>6. CASE (\E r \in Runs, b \in Partitions : Accept(r, b)) \/ Export \/ OpenLatest \/ (\E b \in Partitions : FindLatest(b))
  BY <1>6 DEF Accept, Export, OpenLatest, FindLatest
<1>7. CASE UNCHANGED vars
  BY <1>7 DEF vars
<1> QED
  BY <1>3, <1>4, <1>5, <1>6, <1>7 DEF Next

LEMMA UnwipedBefore ==
    ASSUME TypeOK, [Next]_vars, Unwiped'
    PROVE  Unwiped
  BY NotYet DEF Unwiped, Events

LEMMA SafeInit == Init => Safe
<1> SUFFICES ASSUME Init PROVE Safe
  OBVIOUS
<1>1. TypeOK
  BY TypeInit
<1> QED
  BY <1>1 DEF Init, Safe, AcceptedInv, PublishedInv, NewestInv, ListedInv, SupersededInv,
              ExchangeInv, NoWipe, Events

LEMMA SafeAccept ==
    ASSUME Safe, TypeOK', NEW r \in Runs, NEW b \in Partitions, Accept(r, b)
    PROVE  Safe'
<1> USE DEF store, exchange, wipe, reader, history
<1>1. r \notin published
  BY DEF Safe, Accept, At, PublishedInv, Pending
<1>2. /\ \A s \in Runs : s # r => bomOf'[s] = bomOf[s] /\ pc'[s] = pc[s]
      /\ bomOf'[r] = b /\ pc'[r] = "accepted"
  BY DEF Safe, TypeOK, Accept, Goto
<1>3. UNCHANGED <<stale, row, blobs, archive, restoring, restored, wiping, count,
                  newest, published>>
  BY DEF Accept
<1>4. published \subseteq Runs
  BY DEF Safe, TypeOK
<1>5. AcceptedInv'
  BY <1>2, <1>3 DEF Safe, AcceptedInv
<1>6. PublishedInv'
  BY <1>1, <1>2, <1>3, <1>4 DEF Safe, PublishedInv
<1>7. NewestInv'
  BY <1>1, <1>2, <1>3, <1>4 DEF Safe, NewestInv
<1>8. SupersededInv'
  BY <1>1, <1>2, <1>3, <1>4 DEF Safe, SupersededInv
<1>9. ListedInv' /\ ExchangeInv' /\ NoWipe'
  BY <1>3 DEF Safe, ListedInv, ExchangeInv, NoWipe
<1> QED
  BY <1>5, <1>6, <1>7, <1>8, <1>9 DEF Safe

\* A handler that only moves on, without having listed its run or after it has.
LEMMA SafeMove ==
    ASSUME Safe, TypeOK', NEW r \in Runs, NEW next \in Steps \ {"idle", "persisted"},
           pc[r] # "idle", pc' = [pc EXCEPT ![r] = next],
           pc[r] \notin Pending => next \notin Pending,
           UNCHANGED <<bomOf, stale, row, blobs, archive, restoring, restored, wiping,
                       newest, published>>,
           count'["wipe"] = count["wipe"]
    PROVE  Safe'
<1>1. AcceptedInv'
  BY DEF Safe, TypeOK, AcceptedInv
<1>2. PublishedInv'
  BY DEF Safe, TypeOK, PublishedInv
<1>3. NewestInv' /\ ListedInv' /\ SupersededInv' /\ ExchangeInv' /\ NoWipe'
  BY DEF Safe, NewestInv, ListedInv, SupersededInv, ExchangeInv, NoWipe
<1> QED
  BY <1>1, <1>2, <1>3 DEF Safe

\* A row of a run that is not published is written, and its handler moves on.
LEMMA SafeRecord ==
    ASSUME Safe, TypeOK', NEW r \in Runs, NEW status \in {"running", "failed"},
           NEW next \in Steps \ {"idle", "persisted"},
           pc[r] \in Pending \ {"idle"}, pc' = [pc EXCEPT ![r] = next],
           WriteRow(r, status),
           UNCHANGED <<bomOf, stale, blobs, archive, restoring, restored, wiping,
                       newest, published>>
    PROVE  Safe'
<1>1. /\ count'["wipe"] = count["wipe"]
      /\ \A s \in Runs : s # r => row'[s] = row[s]
      /\ row'[r] \in {status, row[r]}
  BY NoWipeWriteRow DEF Safe, Status
<1>2. r \notin published
  BY DEF Safe, PublishedInv
<1>3. published \subseteq Runs
  BY DEF Safe, TypeOK
<1>4. AcceptedInv'
  BY DEF Safe, TypeOK, AcceptedInv
<1>5. PublishedInv'
  BY <1>2, <1>3 DEF Safe, TypeOK, PublishedInv
<1>6. NewestInv'
  BY <1>1, <1>2, <1>3 DEF Safe, NewestInv
<1>7. ListedInv'
  BY <1>1 DEF Safe, ListedInv
<1>8. SupersededInv' /\ ExchangeInv' /\ NoWipe'
  BY <1>1 DEF Safe, SupersededInv, ExchangeInv, NoWipe
<1> QED
  BY <1>4, <1>5, <1>6, <1>7, <1>8 DEF Safe

LEMMA SafeHandle ==
    ASSUME Safe, TypeOK', NEW r \in Runs, Handle(r)
    PROVE  Safe'
<1> USE DEF handler, store, exchange, wipe, reader, history, At, Goto
<1>t. TypeOK
  BY DEF Safe
<1>1. CASE RecordRunning(r)
  <2> DEFINE next == "registered"
  <2>1. next \in Steps \ {"idle", "persisted"} /\ pc' = [pc EXCEPT ![r] = next]
    BY <1>1 DEF RecordRunning, Steps
  <2> HIDE DEF next
  <2> QED
    BY <1>1, <2>1, SafeRecord DEF RecordRunning, Pending
<1>2. CASE StartProgress(r)
  BY <1>2, SafeMove DEF StartProgress, Steps, Pending
<1>3. CASE Compile(r)
  <2>1. PICK next \in {"compiled", "failing", "retrying"} : pc' = [pc EXCEPT ![r] = next]
    BY <1>3 DEF Compile
  <2> QED
    BY <1>3, <2>1, SafeMove DEF Compile, Steps, Pending
<1>4. CASE Persist(r)
  <2>1. /\ pc[r] = "compiled" /\ blobs \subseteq blobs'
        /\ \A s \in Runs : s # r => pc'[s] = pc[s]
        /\ pc'[r] \in {"persisted", "failing"}
        /\ pc'[r] = "persisted" => r \in blobs'
    BY <1>4, <1>t DEF Persist, TypeOK
  <2>2. count'["wipe"] = count["wipe"]
    BY <1>4, <1>t, NoWipeHappens DEF Persist, Events, TypeOK
  <2>3. UNCHANGED <<bomOf, stale, row, archive, restoring, restored, wiping, newest, published>>
    BY <1>4 DEF Persist
  <2>4. published \subseteq Runs
    BY <1>t DEF TypeOK
  <2>5. AcceptedInv'
    BY <2>1, <2>3 DEF Safe, AcceptedInv
  <2>6. PublishedInv'
    BY <2>1, <2>3, <2>4 DEF Safe, PublishedInv, Pending
  <2>7. NewestInv'
    BY <2>1, <2>3 DEF Safe, NewestInv
  <2>8. ListedInv' /\ SupersededInv' /\ ExchangeInv' /\ NoWipe'
    BY <2>2, <2>3 DEF Safe, ListedInv, SupersededInv, ExchangeInv, NoWipe
  <2> QED
    BY <2>5, <2>6, <2>7, <2>8 DEF Safe
<1>5. CASE RecordSucceeded(r)
  <2>1. /\ count'["wipe"] = count["wipe"]
        /\ \A s \in Runs : s # r => row'[s] = row[s]
        /\ row'[r] \in {"succeeded", row[r]}
    BY <1>5, <1>t, NoWipeWriteRow DEF RecordSucceeded, Status
  <2>2. /\ pc[r] = "persisted" /\ r \in blobs /\ r \notin published
        /\ row[r] # "succeeded" /\ bomOf[r] \in Partitions
    BY <1>5 DEF Safe, RecordSucceeded, AcceptedInv, PublishedInv, ListedInv, Pending
  <2>3. /\ \A s \in Runs : s # r => pc'[s] = pc[s]
        /\ pc'[r] = "recorded"
    BY <1>5, <1>t DEF RecordSucceeded, TypeOK
  <2>4. UNCHANGED <<bomOf, stale, blobs, archive, restoring, restored, wiping>>
    BY <1>5 DEF RecordSucceeded
  <2>5. published \subseteq Runs /\ newest \in [Partitions -> Runs \cup {0}] /\ Runs \subseteq Nat \ {0}
    BY <1>t, LifecycleAssumption DEF TypeOK
  <2>6. /\ row'[r] = "succeeded" => published' = published \cup {r}
        /\ row'[r] # "succeeded" => published' = published
    BY <1>5 DEF RecordSucceeded
  <2>7. \A b \in Partitions : newest'[b] = IF row'[r] = "succeeded" /\ b = bomOf[r] /\ r > newest[b]
                                     THEN r ELSE newest[b]
    BY <1>5, <2>2, <2>5 DEF RecordSucceeded
  <2>n. r \in Nat /\ \A b \in Partitions : newest[b] \in Nat
    BY <1>t, NewestNat, LifecycleAssumption
  <2>8. AcceptedInv'
    BY <2>2, <2>3, <2>4 DEF Safe, AcceptedInv
  <2>9. PublishedInv'
    <3> SUFFICES ASSUME NEW s \in published'
                 PROVE  /\ pc'[s] \notin Pending
                        /\ bomOf'[s] \in Partitions
                        /\ s <= newest'[bomOf'[s]]
      BY DEF PublishedInv, Pending
    <3>1. CASE s = r
      <4>1. pc'[s] \notin Pending /\ bomOf'[s] = bomOf[r] /\ row'[r] = "succeeded"
        BY <3>1, <2>2, <2>3, <2>4, <2>6 DEF Pending
      <4>2. newest'[bomOf[r]] = IF r > newest[bomOf[r]] THEN r ELSE newest[bomOf[r]]
        BY <4>1, <2>2, <2>7
      <4>3. newest[bomOf[r]] \in Nat
        BY <2>2, <2>n
      <4>4. r <= newest'[bomOf[r]]
        BY <4>2, <4>3, <2>n
      <4> QED
        BY <3>1, <4>1, <4>4, <2>2
    <3>2. CASE s # r
      <4>1. s \in published
        BY <3>2, <2>1, <2>6
      <4>2. /\ s \in Nat /\ s \in Runs /\ pc[s] \notin Pending
            /\ bomOf[s] \in Partitions /\ s <= newest[bomOf[s]]
        BY <4>1, <2>5 DEF Safe, PublishedInv
      <4>3. newest[bomOf[s]] <= newest'[bomOf[s]]
        BY <4>2, <2>n, <2>7
      <4>4. newest'[bomOf[s]] \in Nat
        BY <4>2, <2>n, <2>7
      <4> QED
        BY <3>2, <4>2, <4>3, <4>4, <2>3, <2>4, <2>n
    <3> QED
      BY <3>1, <3>2
  <2>10. NewestInv'
    <3> SUFFICES ASSUME NEW b \in Partitions, newest'[b] # 0
                 PROVE  /\ newest'[b] \in published'
                        /\ newest'[b] \in blobs'
                        /\ bomOf'[newest'[b]] = b
                        /\ row'[newest'[b]] = "succeeded"
      BY DEF NewestInv
    <3>1. CASE row'[r] = "succeeded" /\ b = bomOf[r] /\ r > newest[b]
      BY <3>1, <2>2, <2>4, <2>6, <2>7
    <3>2. CASE ~(row'[r] = "succeeded" /\ b = bomOf[r] /\ r > newest[b])
      <4>1. newest'[b] = newest[b]
        BY <3>2, <2>7
      <4>2. /\ newest[b] \in published /\ newest[b] \in blobs
            /\ bomOf[newest[b]] = b /\ row[newest[b]] = "succeeded"
        BY <4>1 DEF Safe, NewestInv
      <4>3. newest[b] \in Runs /\ newest[b] # r
        BY <4>2, <2>2, <2>5
      <4>4. published \subseteq published'
        BY <2>1, <2>6
      <4> QED
        BY <4>1, <4>2, <4>3, <4>4, <2>1, <2>4
    <3> QED
      BY <3>1, <3>2
  <2>11. ListedInv'
    BY <2>1, <2>2, <2>6 DEF Safe, ListedInv
  <2>12. SupersededInv'
    <3> SUFFICES ASSUME NEW h \in Runs, NEW s \in stale[h]
                 PROVE  s \in published' /\ s < newest'[bomOf[s]]
      BY <2>4 DEF SupersededInv
    <3>1. s \in published /\ s < newest[bomOf[s]] /\ bomOf[s] \in Partitions
      BY DEF Safe, SupersededInv, PublishedInv
    <3>2. s \in Nat /\ newest'[bomOf[s]] \in Nat /\ newest[bomOf[s]] <= newest'[bomOf[s]]
      <4>1. s \in Nat /\ newest[bomOf[s]] \in Nat /\ r \in Nat
        BY <3>1, <2>5, <2>n
      <4>2. newest'[bomOf[s]] = newest[bomOf[s]]
            \/ (newest'[bomOf[s]] = r /\ r > newest[bomOf[s]])
        BY <3>1, <2>7
      <4> HIDE DEF Pending
      <4>3. ASSUME NEW old \in Nat, NEW new,
                   new = old \/ (new = r /\ r > old)
            PROVE  new \in Nat /\ old <= new
        BY <4>1, <4>3
      <4> QED
        BY <4>1, <4>2, <4>3
    <3>3. s \in published'
      BY <3>1, <2>1, <2>6
    <3> QED
      BY <3>1, <3>2, <3>3, <2>n
  <2>13. ExchangeInv' /\ NoWipe'
    BY <2>1, <2>4, <2>6 DEF Safe, ExchangeInv, NoWipe
  <2> QED
    BY <2>8, <2>9, <2>10, <2>11, <2>12, <2>13 DEF Safe
<1>6. CASE CompleteProgress(r)
  BY <1>6, SafeMove DEF CompleteProgress, Steps, Pending
<1>7. CASE ListStale(r)
  <2>1. /\ pc[r] = "listing"
        /\ pc' = [pc EXCEPT ![r] = IF Beyond(bomOf[r]) = {} THEN "done" ELSE "pruning"]
        /\ stale' = [stale EXCEPT ![r] = Beyond(bomOf[r])]
    BY <1>7 DEF ListStale
  <2>2. UNCHANGED <<bomOf, row, blobs, archive, restoring, restored, wiping,
                    newest, published, count>>
    BY <1>7 DEF ListStale
  <2>3. /\ \A s \in Runs : s # r => pc'[s] = pc[s]
        /\ pc'[r] \in {"done", "pruning"}
    BY <2>1, <1>t DEF TypeOK
  <2>4. published \subseteq Runs /\ bomOf[r] \in Partitions
    BY <2>1, <1>t DEF TypeOK, Safe, AcceptedInv
  <2>5. AcceptedInv'
    BY <2>1, <2>2, <2>3 DEF Safe, AcceptedInv
  <2>6. PublishedInv'
    BY <2>2, <2>3, <2>4 DEF Safe, PublishedInv, Pending
  <2>7. SupersededInv'
    <3> SUFFICES ASSUME NEW h \in Runs, NEW s \in stale'[h]
                 PROVE  s \in published /\ s < newest[bomOf[s]]
      BY <2>2 DEF SupersededInv
    <3>1. CASE h # r
      <4>1. stale'[h] = stale[h]
        BY <3>1, <2>1, <1>t DEF TypeOK
      <4> QED
        BY <4>1 DEF Safe, SupersededInv
    <3>2. CASE h = r
      <4>1. s \in Beyond(bomOf[r])
        BY <3>2, <2>1, <1>t DEF TypeOK
      <4>2. PICK t \in Listed(bomOf[r]) : t > s
        BY <4>1, <2>4, BeyondSuperseded
      <4>3. s \in Listed(bomOf[r])
        BY <4>1, <2>4, BeyondSuperseded
      <4>4. s \in published /\ t \in published /\ bomOf[s] = bomOf[r] /\ bomOf[t] = bomOf[r]
        BY <4>2, <4>3 DEF Listed, Safe, ListedInv
      <4>5. t <= newest[bomOf[r]]
        BY <4>4 DEF Safe, PublishedInv
      <4>6. s \in Nat /\ t \in Nat
        BY <4>4, <2>4, LifecycleAssumption
      <4>7. newest[bomOf[r]] \in Nat
        BY <2>4, <1>t, NewestNat
      <4> QED
        BY <4>2, <4>4, <4>5, <4>6, <4>7
    <3> QED
      BY <3>1, <3>2
  <2>8. NewestInv' /\ ListedInv' /\ ExchangeInv' /\ NoWipe'
    BY <2>2 DEF Safe, NewestInv, ListedInv, ExchangeInv, NoWipe
  <2> QED
    BY <2>5, <2>6, <2>7, <2>8 DEF Safe
<1>8. CASE PruneBlob(r)
  <2>1. PICK s \in Latest(stale[r]) : blobs' \in {blobs, blobs \ {s}}
    BY <1>8 DEF PruneBlob
  <2>2. s \in published /\ s \in Runs /\ s < newest[bomOf[s]]
    BY <2>1, <1>t DEF Latest, Safe, SupersededInv, TypeOK
  <2>3. /\ pc[r] = "pruning" /\ pc'[r] = "dropping"
        /\ \A h \in Runs : h # r => pc'[h] = pc[h]
    BY <1>8, <1>t DEF PruneBlob, TypeOK
  <2>4. count'["wipe"] = count["wipe"]
    BY <1>8, <1>t, NoWipeHappens DEF PruneBlob, Events, TypeOK
  <2>5. UNCHANGED <<bomOf, stale, row, archive, restoring, restored, wiping, newest, published>>
    BY <1>8 DEF PruneBlob
  <2>6. AcceptedInv'
    BY <2>1, <2>2, <2>3, <2>5 DEF Safe, AcceptedInv, PublishedInv, Pending
  <2>7. PublishedInv'
    BY <2>3, <2>5, <1>t DEF Safe, PublishedInv, Pending, TypeOK
  <2>8. NewestInv'
    <3> SUFFICES ASSUME NEW b \in Partitions, newest[b] # 0 PROVE newest[b] \in blobs'
      BY <2>5 DEF Safe, NewestInv
    <3>1. newest[b] \in blobs /\ bomOf[newest[b]] = b
      BY DEF Safe, NewestInv
    <3>2. s \in Nat
      BY <2>2, LifecycleAssumption
    <3>3. s # newest[b]
      BY <3>1, <3>2, <2>2
    <3> QED
      BY <2>1, <3>1, <3>3
  <2>9. ListedInv' /\ SupersededInv' /\ ExchangeInv' /\ NoWipe'
    BY <2>4, <2>5 DEF Safe, ListedInv, SupersededInv, ExchangeInv, NoWipe
  <2> QED
    BY <2>6, <2>7, <2>8, <2>9 DEF Safe
<1>9. CASE PruneRow(r)
  <2>1. PICK s \in Latest(stale[r]) :
           /\ WriteRow(s, "none")
           /\ stale' = [stale EXCEPT ![r] = stale[r] \ {s}]
           /\ pc' = [pc EXCEPT ![r] = IF stale[r] = {s} THEN "done" ELSE "pruning"]
    BY <1>9 DEF PruneRow
  <2>2. s \in published /\ s \in Runs /\ s < newest[bomOf[s]]
    BY <2>1, <1>t DEF Latest, Safe, SupersededInv, TypeOK
  <2>3. /\ pc[r] = "dropping" /\ pc'[r] \in {"done", "pruning"}
        /\ \A h \in Runs : h # r => pc'[h] = pc[h]
    BY <1>9, <2>1, <1>t DEF PruneRow, TypeOK
  <2>4. /\ count'["wipe"] = count["wipe"]
        /\ \A h \in Runs : h # s => row'[h] = row[h]
        /\ row'[s] \in {"none", row[s]}
    BY <2>1, <2>2, <1>t, NoWipeWriteRow DEF Status
  <2>5. UNCHANGED <<bomOf, blobs, archive, restoring, restored, wiping, newest, published>>
    BY <1>9 DEF PruneRow
  <2>6. AcceptedInv'
    BY <2>3, <2>5 DEF Safe, AcceptedInv
  <2>7. PublishedInv'
    BY <2>3, <2>5, <1>t DEF Safe, PublishedInv, Pending, TypeOK
  <2>8. NewestInv'
    <3> SUFFICES ASSUME NEW b \in Partitions, newest[b] # 0
                 PROVE  row'[newest[b]] = "succeeded"
      BY <2>5 DEF Safe, NewestInv
    <3>1. /\ newest[b] \in published /\ bomOf[newest[b]] = b
          /\ row[newest[b]] = "succeeded"
      BY DEF Safe, NewestInv
    <3>2. s \in Nat /\ newest[b] \in Runs
      BY <2>2, <3>1, <1>t, LifecycleAssumption DEF TypeOK
    <3>3. s # newest[b]
      BY <3>1, <3>2, <2>2
    <3> QED
      BY <2>4, <3>1, <3>2, <3>3
  <2>9. ListedInv'
    BY <2>4, <2>5 DEF Safe, ListedInv
  <2>10. SupersededInv'
    BY <2>1, <2>5, <1>t DEF Safe, SupersededInv, TypeOK
  <2>11. ExchangeInv' /\ NoWipe'
    BY <2>4, <2>5 DEF Safe, ExchangeInv, NoWipe
  <2> QED
    BY <2>6, <2>7, <2>8, <2>9, <2>10, <2>11 DEF Safe
<1>10. CASE FailProgress(r)
  <2> DEFINE next == "failed"
  <2>1. next \in Steps \ {"idle", "persisted"} /\ pc' = [pc EXCEPT ![r] = next]
    BY <1>10 DEF FailProgress, Steps
  <2> HIDE DEF next
  <2> QED
    BY <1>10, <2>1, SafeMove DEF FailProgress, Pending
<1>11. CASE RecordFailed(r)
  <2> DEFINE next == "done"
  <2>1. next \in Steps \ {"idle", "persisted"} /\ pc' = [pc EXCEPT ![r] = next]
    BY <1>11 DEF RecordFailed, Steps
  <2> HIDE DEF next
  <2> QED
    BY <1>11, <2>1, SafeRecord DEF RecordFailed, Pending
<1>12. CASE SkipPrune(r)
  <2> DEFINE next == "done"
  <2>1. next \in Steps \ {"idle", "persisted"} /\ pc' = [pc EXCEPT ![r] = next]
    BY <1>12 DEF SkipPrune, Steps
  <2>2. count'["wipe"] = count["wipe"]
    BY <1>12, <1>t, NoWipeHappens DEF SkipPrune, Events, TypeOK
  <2>3. next \notin Pending
    BY DEF Pending
  <2> HIDE DEF next
  <2> QED
    BY <1>12, <2>1, <2>2, <2>3, SafeMove DEF SkipPrune
<1>13. CASE Abort(r)
  <2> DEFINE next == "aborted"
  <2>1. next \in Steps \ {"idle", "persisted"} /\ pc' = [pc EXCEPT ![r] = next]
    BY <1>13 DEF Abort, Steps
  <2>2. count'["wipe"] = count["wipe"] /\ pc[r] # "idle"
    BY <1>13, <1>t, NoWipeHappens DEF Abort, Events, TypeOK
  <2>3. next \notin Pending
    BY DEF Pending
  <2> HIDE DEF next
  <2> QED
    BY <1>13, <2>1, <2>2, <2>3, SafeMove DEF Abort
<1> QED
  BY <1>1, <1>2, <1>3, <1>4, <1>5, <1>6, <1>7, <1>8, <1>9, <1>10, <1>11, <1>12, <1>13 DEF Handle

LEMMA SafeExport ==
    ASSUME Safe, TypeOK', Export
    PROVE  Safe'
<1> USE DEF handler, store, exchange, wipe, reader, history
<1>1. archive' \subseteq published
  BY DEF Export, Safe, TypeOK, ListedInv
<1> QED
  BY <1>1 DEF Export, Safe, AcceptedInv, PublishedInv, NewestInv, ListedInv,
              SupersededInv, ExchangeInv, NoWipe

LEMMA SafeImport ==
    ASSUME Safe, TypeOK', Import
    PROVE  Safe'
<1> USE DEF handler, store, exchange, wipe, reader, history
<1>t. TypeOK
  BY DEF Safe
<1>1. CASE StartImport
  <2>1. count'["wipe"] = count["wipe"]
    BY <1>1, <1>t, NoWipeHappens DEF StartImport, Events, TypeOK
  <2> QED
    BY <1>1, <2>1 DEF StartImport, Safe, AcceptedInv, PublishedInv, NewestInv, ListedInv,
                      SupersededInv, ExchangeInv, NoWipe
<1>2. CASE RestoreBlob
  <2>1. count'["wipe"] = count["wipe"]
    BY <1>2, <1>t, NoWipeHappens DEF RestoreBlob, Events, TypeOK
  <2>2. /\ blobs \subseteq blobs' /\ restoring' \subseteq restoring
        /\ restored' # 0 => restored' \in restoring
    BY <1>2 DEF RestoreBlob, Latest
  <2> QED
    BY <1>2, <2>1, <2>2 DEF RestoreBlob, Safe, AcceptedInv, PublishedInv, NewestInv,
                      ListedInv, SupersededInv, ExchangeInv, NoWipe
<1>3. CASE RestoreRow
  <2>1. restored \in published /\ restored \in Runs
    BY <1>3, <1>t DEF RestoreRow, Safe, ExchangeInv, TypeOK
  <2>2. /\ count'["wipe"] = count["wipe"]
        /\ \A s \in Runs : s # restored => row'[s] = row[s]
        /\ row'[restored] \in {"succeeded", row[restored]}
    BY <1>3, <1>t, <2>1, NoWipeWriteRow DEF RestoreRow, Status
  <2>3. UNCHANGED <<archive, bomOf, pc, stale, blobs, wiping, newest, published>>
    BY <1>3 DEF RestoreRow
  <2>4. published \subseteq Runs
    BY <1>t DEF TypeOK
  <2>5. NewestInv'
    BY <2>2, <2>3, <2>4 DEF Safe, NewestInv
  <2>6. ListedInv'
    BY <2>1, <2>2, <2>3 DEF Safe, ListedInv
  <2>7. ExchangeInv'
    BY <1>3, <2>3 DEF RestoreRow, Safe, ExchangeInv
  <2>8. AcceptedInv' /\ PublishedInv' /\ SupersededInv' /\ NoWipe'
    BY <2>2, <2>3 DEF Safe, AcceptedInv, PublishedInv, SupersededInv, NoWipe
  <2> QED
    BY <2>5, <2>6, <2>7, <2>8 DEF Safe
<1> QED
  BY <1>1, <1>2, <1>3 DEF Import

\* A wipe is counted.
LEMMA SafeWipe ==
    ASSUME Safe, Unwiped', Wipe
    PROVE  FALSE
<1>1. ~ DropTables /\ ~ KeepTables
  <2> SUFFICES ASSUME DropTables \/ KeepTables PROVE FALSE
    OBVIOUS
  <2> DEFINE n == count["wipe"] + 1
  <2>1. count' = [count EXCEPT !["wipe"] = n] /\ count \in [Events -> Nat]
    BY DEF DropTables, KeepTables, Happens, Safe, TypeOK
  <2>2. n \in Nat \ {0}
    BY <2>1 DEF Events
  <2> HIDE DEF n
  <2>3. count'["wipe"] = n
    BY <2>1 DEF Events
  <2> QED
    BY <2>2, <2>3 DEF Unwiped
<1> QED
  BY <1>1 DEF Wipe, ListBlobs, WipeBlob, BreakWipe, EndWipe, Safe, NoWipe

LEMMA SafeCrash ==
    ASSUME Safe, TypeOK', Crash
    PROVE  Safe'
<1> USE DEF handler, store, exchange, wipe, reader, history
<1>t. TypeOK
  BY DEF Safe
<1>1. count'["wipe"] = count["wipe"] /\ wiping' = "idle"
  BY <1>t, NoWipeHappens DEF Crash, Events, TypeOK, Safe, NoWipe
<1>2. \A r \in Runs : pc'[r] = IF InFlight(r) THEN "lost" ELSE pc[r]
  BY DEF Crash
<1>3. UNCHANGED <<bomOf, row, blobs, archive, newest, published>>
  BY DEF Crash
<1>4. AcceptedInv'
  BY <1>2, <1>3 DEF Safe, AcceptedInv, InFlight
<1>5. PublishedInv'
  BY <1>2, <1>3, <1>t DEF Safe, PublishedInv, TypeOK, Pending
<1>6. NewestInv' /\ ListedInv'
  BY <1>3 DEF Safe, NewestInv, ListedInv
<1>7. SupersededInv' /\ ExchangeInv' /\ NoWipe'
  BY <1>1, <1>3 DEF Crash, Safe, SupersededInv, ExchangeInv, NoWipe
<1> QED
  BY <1>4, <1>5, <1>6, <1>7 DEF Safe

LEMMA SafeStep ==
    ASSUME Unwiped', Safe, [Next]_vars
    PROVE  Safe'
<1> USE DEF handler, store, exchange, wipe, reader, history
<1>t. TypeOK'
  BY TypeStep DEF Safe
<1>1. ASSUME NEW b \in Partitions, FindLatest(b) PROVE Safe'
  BY <1>t, <1>1 DEF FindLatest, Safe, AcceptedInv, PublishedInv, NewestInv, ListedInv,
                    SupersededInv, ExchangeInv, NoWipe
<1>2. CASE OpenLatest
  BY <1>t, <1>2 DEF OpenLatest, Safe, AcceptedInv, PublishedInv, NewestInv, ListedInv,
                    SupersededInv, ExchangeInv, NoWipe
<1>3. CASE UNCHANGED vars
  BY <1>t, <1>3 DEF vars, Safe, AcceptedInv, PublishedInv, NewestInv, ListedInv,
                    SupersededInv, ExchangeInv, NoWipe
<1> QED
  BY <1>t, <1>1, <1>2, <1>3, SafeAccept, SafeHandle, SafeExport, SafeImport, SafeWipe,
     SafeCrash DEF Next

LEMMA SafeLatest == Safe => LatestHasBlob
<1> SUFFICES ASSUME Safe, NEW b \in Partitions, NEW r \in Latest(Listed(b))
             PROVE  r \in blobs
  BY DEF LatestHasBlob
<1> DEFINE top == newest[b]
<1>1. r \in Listed(b) /\ \A s \in Listed(b) : s <= r
  BY DEF Latest
<1>2. r \in Runs /\ bomOf[r] = b /\ r \in published /\ r <= top
  BY <1>1 DEF Listed, Safe, ListedInv, PublishedInv
<1>3. r \in Nat /\ r # 0
  BY <1>2, LifecycleAssumption
<1>4. top \in Runs \/ top = 0
  BY DEF Safe, TypeOK
<1>5. top \in Nat
  BY <1>4, LifecycleAssumption
<1>6. top # 0
  BY <1>2, <1>3, <1>5
<1>7. top \in blobs /\ bomOf[top] = b /\ row[top] = "succeeded"
  BY <1>6 DEF Safe, NewestInv
<1>8. top <= r
  BY <1>1, <1>4, <1>6, <1>7 DEF Listed
<1> QED
  BY <1>2, <1>3, <1>5, <1>7, <1>8

\* api/snapshots_latest always finds the snapshot of the run it picks: as long
\* as nobody wipes the local state, the newest run a BOM lists has its blob,
\* whatever the number of concurrent runs, prunes, imports, restarts and
\* failing storage calls.
THEOREM LatestCanBeOpened == Spec => [](Unwiped => LatestHasBlob)
<1>1. Safe /\ [Next]_vars /\ Unwiped' => Safe'
  BY SafeStep
<1> QED
  BY <1>1, TypeInit, TypeStep, UnwipedBefore, SafeInit, SafeLatest, PTL DEF Spec

------------------------------------------------------------------------------
(***************************************************************************)
(* RunLifecycle implements SnapshotHistory: under the mapping of History,  *)
(* a step opens one more run, retires one that is not its BOM's newest, or *)
(* changes nothing a reader can open.                                      *)
(***************************************************************************)

Open == {s \in blobs : row[s] = "succeeded"}
Readable == {<<bomOf[r], r>> : r \in Open}

LEMMA SameOpen ==
    ASSUME Open' = Open, \A r \in Open : bomOf'[r] = bomOf[r]
    PROVE  Readable' = Readable
  BY DEF Readable

LEMMA OpenedOne ==
    ASSUME NEW s \in Runs, bomOf[s] \in Partitions, bomOf' = bomOf,
           s \notin Open, Open' = Open \cup {s}
    PROVE  History!Next
<1>1. <<bomOf[s], s>> \notin Readable
  BY DEF Readable
<1>2. Readable' = Readable \cup {<<bomOf[s], s>>}
  BY DEF Readable
<1> QED
  BY <1>1, <1>2 DEF History!Next, History!Publish, Readable, Open

LEMMA RetiredOne ==
    ASSUME NEW s \in Runs, NEW t \in Runs, bomOf[s] \in Partitions, bomOf' = bomOf,
           s \in Open, t \in Open, t > s, bomOf[t] = bomOf[s], Open' = Open \ {s}
    PROVE  History!Next
<1>1. <<bomOf[s], s>> \in Readable /\ <<bomOf[s], t>> \in Readable
  BY DEF Readable
<1>2. Readable' = Readable \ {<<bomOf[s], s>>}
  BY DEF Readable
<1> QED
  BY <1>1, <1>2 DEF History!Next, History!Retire, Readable, Open

\* What a prune has listed can go: its BOM's newest run can be opened.
LEMMA SupersededRetires ==
    ASSUME Safe, bomOf' = bomOf, NEW h \in Runs, NEW s \in stale[h],
           Open' \in {Open, Open \ {s}}
    PROVE  History!Next \/ Readable' = Readable
<1> DEFINE top == newest[bomOf[s]]
<1>1. s \in published /\ s \in Runs /\ s < top /\ bomOf[s] \in Partitions
  BY DEF Safe, SupersededInv, PublishedInv, TypeOK
<1>2. s \in Nat /\ s # 0 /\ top \in Nat
  BY <1>1, NewestNat, LifecycleAssumption DEF Safe
<1>3. top # 0
  BY <1>1, <1>2
<1>4. top \in Open /\ top \in Runs /\ bomOf[top] = bomOf[s]
  BY <1>1, <1>3 DEF Safe, NewestInv, Open, TypeOK
<1> HIDE DEF top
<1>5. CASE s \in Open /\ Open' = Open \ {s}
  BY <1>1, <1>2, <1>4, <1>5, RetiredOne
<1>6. CASE Open' = Open
  BY <1>6, SameOpen
<1> QED
  BY <1>5, <1>6

LEMMA HandleRefines ==
    ASSUME Safe, NEW r \in Runs, Handle(r)
    PROVE  History!Next \/ Readable' = Readable
<1> USE DEF handler, store, exchange, wipe, reader, history, At
<1>t. TypeOK
  BY DEF Safe
<1>1. ASSUME row' = row, blobs' = blobs, bomOf' = bomOf
      PROVE  Readable' = Readable
  BY <1>1, SameOpen DEF Open
<1>2. ASSUME NEW status \in {"running", "failed"}, WriteRow(r, status), r \notin published,
             blobs' = blobs, bomOf' = bomOf
      PROVE  Readable' = Readable
  <2>1. /\ \A s \in Runs : s # r => row'[s] = row[s]
        /\ row'[r] \in {status, row[r]}
    BY <1>2, <1>t, NoWipeWriteRow DEF Status
  <2>2. row[r] # "succeeded"
    BY <1>2 DEF Safe, ListedInv
  <2>3. Open' = Open
    BY <1>2, <2>1, <2>2, <1>t DEF Open, TypeOK
  <2> QED
    BY <1>2, <2>3, SameOpen
<1>3. pc[r] \in Pending => r \notin published
  BY DEF Safe, PublishedInv
<1>4. CASE RecordRunning(r)
  BY <1>2, <1>3, <1>4 DEF RecordRunning, Pending
<1>5. CASE RecordFailed(r)
  BY <1>2, <1>3, <1>5 DEF RecordFailed, Pending
<1>6. CASE Persist(r)
  <2>1. blobs \subseteq blobs' /\ blobs' \subseteq blobs \cup {r} /\ row' = row /\ bomOf' = bomOf
    BY <1>6 DEF Persist
  <2>2. row[r] # "succeeded"
    BY <1>3, <1>6 DEF Persist, Pending, Safe, ListedInv
  <2>3. Open' = Open
    BY <2>1, <2>2 DEF Open
  <2> QED
    BY <2>1, <2>3, SameOpen
<1>7. CASE RecordSucceeded(r)
  <2>1. r \in blobs /\ bomOf[r] \in Partitions /\ row[r] # "succeeded"
    BY <1>3, <1>7 DEF RecordSucceeded, Pending, Safe, AcceptedInv, ListedInv
  <2>2. /\ \A s \in Runs : s # r => row'[s] = row[s]
        /\ row'[r] \in {"succeeded", row[r]}
    BY <1>7, <1>t, NoWipeWriteRow DEF RecordSucceeded, Status
  <2>3. blobs' = blobs /\ bomOf' = bomOf
    BY <1>7 DEF RecordSucceeded
  <2>4. r \notin Open
    BY <2>1 DEF Open
  <2>5. Open' = Open \/ Open' = Open \cup {r}
    BY <2>1, <2>2, <2>3, <1>t DEF Open, TypeOK
  <2> QED
    BY <2>1, <2>3, <2>4, <2>5, SameOpen, OpenedOne
<1>8. CASE PruneBlob(r)
  <2>1. PICK s \in stale[r] : blobs' \in {blobs, blobs \ {s}}
    BY <1>8 DEF PruneBlob, Latest
  <2>2. row' = row /\ bomOf' = bomOf
    BY <1>8 DEF PruneBlob
  <2>3. Open' \in {Open, Open \ {s}}
    BY <2>1, <2>2 DEF Open
  <2> QED
    BY <2>1, <2>2, <2>3, SupersededRetires
<1>9. CASE PruneRow(r)
  <2>1. PICK s \in stale[r] : WriteRow(s, "none")
    BY <1>9 DEF PruneRow, Latest
  <2>2. blobs' = blobs /\ bomOf' = bomOf /\ s \in Runs
    BY <1>9, <1>t DEF PruneRow, TypeOK
  <2>3. /\ \A u \in Runs : u # s => row'[u] = row[u]
        /\ row'[s] \in {"none", row[s]}
    BY <2>1, <2>2, <1>t, NoWipeWriteRow DEF Status
  <2>4. Open' \in {Open, Open \ {s}}
    BY <2>2, <2>3, <1>t DEF Open, TypeOK
  <2> QED
    BY <2>1, <2>2, <2>4, SupersededRetires
<1>10. CASE \/ StartProgress(r) \/ Compile(r) \/ CompleteProgress(r) \/ ListStale(r)
            \/ SkipPrune(r) \/ FailProgress(r) \/ Abort(r)
  BY <1>1, <1>10 DEF StartProgress, Compile, CompleteProgress, ListStale, SkipPrune,
                     FailProgress, Abort
<1> QED
  BY <1>4, <1>5, <1>6, <1>7, <1>8, <1>9, <1>10 DEF Handle

LEMMA ImportRefines ==
    ASSUME Safe, Import
    PROVE  History!Next \/ Readable' = Readable
<1> USE DEF handler, store, exchange, wipe, reader, history
<1>t. TypeOK
  BY DEF Safe
<1>1. CASE StartImport
  BY <1>1, SameOpen DEF StartImport, Open
<1>2. ASSUME NEW s \in published, bomOf' = bomOf, Open' \in {Open, Open \cup {s}}
      PROVE  History!Next \/ Readable' = Readable
  <2>1. s \in Runs /\ bomOf[s] \in Partitions
    BY <1>2, <1>t DEF Safe, PublishedInv, TypeOK
  <2>2. Open' = Open \/ (s \notin Open /\ Open' = Open \cup {s})
    BY <1>2
  <2> QED
    BY <1>2, <2>1, <2>2, SameOpen, OpenedOne
<1>3. CASE RestoreBlob
  <2>1. PICK s \in restoring : blobs' \in {blobs, blobs \cup {s}}
    BY <1>3 DEF RestoreBlob, Latest
  <2>2. row' = row /\ bomOf' = bomOf
    BY <1>3 DEF RestoreBlob
  <2>3. s \in published
    BY <2>1 DEF Safe, ExchangeInv
  <2>4. Open' \in {Open, Open \cup {s}}
    BY <2>1, <2>2 DEF Open
  <2> QED
    BY <1>2, <2>2, <2>3, <2>4
<1>4. CASE RestoreRow
  <2>1. restored \in published /\ restored \in Runs
    BY <1>4, <1>t DEF RestoreRow, Safe, ExchangeInv, TypeOK
  <2>2. blobs' = blobs /\ bomOf' = bomOf /\ WriteRow(restored, "succeeded")
    BY <1>4 DEF RestoreRow
  <2>3. /\ \A s \in Runs : s # restored => row'[s] = row[s]
        /\ row'[restored] \in {"succeeded", row[restored]}
    BY <2>1, <2>2, <1>t, NoWipeWriteRow DEF Status
  <2>4. Open' \in {Open, Open \cup {restored}}
    BY <2>1, <2>2, <2>3, <1>t DEF Open, TypeOK
  <2> QED
    BY <1>2, <2>1, <2>2, <2>4
<1> QED
  BY <1>1, <1>3, <1>4 DEF Import

LEMMA StepRefines ==
    ASSUME Unwiped', Safe, [Next]_vars
    PROVE  History!Next \/ Readable' = Readable
<1> USE DEF handler, store, exchange, wipe, reader, history
<1>1. ASSUME row' = row, blobs' = blobs, bomOf' = bomOf
      PROVE  Readable' = Readable
  BY <1>1, SameOpen DEF Open
<1>2. ASSUME NEW r \in Runs, NEW b \in Partitions, Accept(r, b)
      PROVE  Readable' = Readable
  <2>1. r \notin Open
    BY <1>2 DEF Safe, ListedInv, PublishedInv, Pending, Accept, At, Open, TypeOK
  <2>2. Open' = Open /\ \A s \in Open : bomOf'[s] = bomOf[s]
    BY <1>2, <2>1 DEF Accept, Open, Safe, TypeOK
  <2> QED
    BY <2>2, SameOpen
<1>3. CASE Export
  BY <1>1, <1>3 DEF Export
<1>4. ASSUME NEW b \in Partitions, FindLatest(b) PROVE Readable' = Readable
  BY <1>1, <1>4 DEF FindLatest
<1>5. CASE OpenLatest
  BY <1>1, <1>5 DEF OpenLatest
<1>6. CASE Crash
  BY <1>1, <1>6 DEF Crash
<1>7. CASE UNCHANGED vars
  BY <1>1, <1>7 DEF vars
<1> QED
  BY <1>2, <1>3, <1>4, <1>5, <1>6, <1>7, HandleRefines, ImportRefines, SafeWipe DEF Next

\* As long as nobody wipes the local state, what readers can open changes as
\* SnapshotHistory says: one snapshot more, or one less that is not its BOM's
\* newest.
THEOREM HistoryImplemented == Spec /\ []Unwiped => ImplementsHistory
<1>1. Init => History!Init
  BY DEF Init, History!Init
<1>2. Safe /\ [Next]_vars /\ Unwiped' => Safe'
  BY SafeStep
<1>3. Safe /\ [Next]_vars /\ Unwiped' => [History!Next]_Readable
  BY StepRefines
<1> QED
  BY <1>1, <1>2, <1>3, SafeInit, PTL DEF Spec, ImplementsHistory, History!Spec, Readable, Open

------------------------------------------------------------------------------
(***************************************************************************)
(* Retention takes a run only once Keep newer runs of its BOM have         *)
(* succeeded.  A prune works on a list that may be out of date, but being  *)
(* superseded is for good: published only grows.  So whatever a list ever  *)
(* names is superseded, and whatever lost its row or its file was named,   *)
(* or was there when a wipe began.                                         *)
(***************************************************************************)

Newer(r) == {s \in published : s > r /\ bomOf[s] = bomOf[r]}

\* A wipe is at its blobs.
WipeUnderWay == wiping \in {"listing", "deleting"}

SpentInv ==
    /\ IsFiniteSet(published)
    /\ \A h \in Runs : \A s \in stale[h] : s \in published /\ Superseded(s)
    /\ \A r \in published \ wiped :
           /\ row[r] \in {"succeeded", "none"}
           /\ row[r] = "none" \/ r \notin blobs => Superseded(r)
    /\ reading # 0 => reading \in published
    /\ \A r \in missed : r \in published /\ (r \in wiped \/ Superseded(r))
    /\ WipeUnderWay => published \subseteq wiped

EndedInv == \A r \in published : pc[r] \notin Pending

\* What the steps below need to know of the runs, with wipes or without.
Sane == TypeOK /\ AcceptedInv /\ EndedInv /\ ListedInv /\ ExchangeInv

LEMMA SafeSane == Safe => Sane
  BY DEF Safe, PublishedInv, EndedInv, Sane

\* Steps other than a wipe's own: a restart ends a wipe, none begins one.
LEMMA WipesOnly ==
    ASSUME ~ Wipe, [Next]_vars
    PROVE  wiped' = wiped /\ wiping' \in {wiping, "idle"}
<1> USE DEF handler, store, exchange, wipe, reader, history
<1>1. ASSUME NEW r \in Runs, Handle(r)
      PROVE  wiped' = wiped /\ wiping' = wiping
  BY <1>1 DEF Handle, RecordRunning, StartProgress, Compile, Persist, RecordSucceeded,
              CompleteProgress, SkipPrune, Abort, ListStale, PruneBlob, PruneRow, FailProgress, RecordFailed
<1>2. CASE Export \/ Import \/ OpenLatest \/ Crash \/ UNCHANGED vars \/ \E b \in Partitions : FindLatest(b)
  BY <1>2 DEF Export, Import, StartImport, RestoreBlob, RestoreRow, OpenLatest, Crash, FindLatest,
              vars
<1>3. CASE \E r \in Runs, b \in Partitions : Accept(r, b)
  BY <1>3 DEF Accept
<1> QED
  BY <1>1, <1>2, <1>3 DEF Next

\* The published runs only get more, and stay where they are.
LEMMA PublishedGrows ==
    ASSUME Sane, ~ Wipe, IsFiniteSet(published), [Next]_vars
    PROVE  /\ IsFiniteSet(published')
           /\ published \subseteq published'
           /\ \A r \in published' \ published : pc[r] = "persisted"
           /\ \A r \in published : bomOf'[r] = bomOf[r]
<1> USE DEF handler, store, exchange, wipe, reader, history
<1>1. ASSUME NEW r \in Runs, NEW b \in Partitions, Accept(r, b)
      PROVE  published' = published /\ \A s \in published : bomOf'[s] = bomOf[s]
  BY <1>1 DEF Accept, At, Sane, TypeOK, EndedInv, Pending
<1>2. ASSUME NEW r \in Runs, Handle(r)
      PROVE  /\ bomOf' = bomOf /\ IsFiniteSet(published') /\ published \subseteq published'
             /\ \A s \in published' \ published : pc[s] = "persisted"
  <2>1. /\ bomOf' = bomOf /\ published' \in {published, published \cup {r}}
        /\ published' # published => pc[r] = "persisted"
    BY <1>2 DEF Handle, RecordRunning, StartProgress, Compile, Persist, RecordSucceeded,
                CompleteProgress, SkipPrune, Abort, ListStale, PruneBlob, PruneRow, FailProgress, RecordFailed, At
  <2>2. IsFiniteSet(published \cup {r})
    BY FS_AddElement
  <2> QED
    BY <2>1, <2>2
<1>3. CASE Export \/ Import \/ OpenLatest \/ Crash \/ UNCHANGED vars \/ \E b \in Partitions : FindLatest(b)
  BY <1>3 DEF Export, Import, StartImport, RestoreBlob, RestoreRow, OpenLatest, Crash, FindLatest,
              vars
<1> QED
  BY <1>1, <1>2, <1>3 DEF Next

\* Superseded once, superseded for good.
LEMMA StaysSuperseded ==
    ASSUME IsFiniteSet(published'), published \subseteq published',
           \A s \in published : bomOf'[s] = bomOf[s],
           NEW r \in published, Superseded(r)
    PROVE  Superseded(r)'
<1> DEFINE before == Newer(r)
           after == {s \in published' : s > r /\ bomOf'[s] = bomOf'[r]}
<1>1. before \subseteq after /\ after \subseteq published'
  BY DEF Newer
<1>2. Cardinality(before) >= Keep /\ bomOf[r] \in Boms
  BY DEF Superseded, Newer
<1> HIDE DEF before, after
<1>3. IsFiniteSet(after) /\ IsFiniteSet(before) /\ Cardinality(before) <= Cardinality(after)
  BY <1>1, FS_Subset
<1>4. Cardinality(before) \in Nat /\ Cardinality(after) \in Nat
  BY <1>3, FS_CardinalityType
<1>5. Cardinality(after) >= Keep
  BY <1>2, <1>3, <1>4, LifecycleAssumption
<1> QED
  BY <1>2, <1>5 DEF Superseded, after

\* What a prune lists is superseded: the newer rows are of published runs.
LEMMA BeyondSpent ==
    ASSUME Sane, IsFiniteSet(published), NEW b \in Boms, NEW s \in Beyond(b)
    PROVE  s \in published /\ Superseded(s)
<1> DEFINE rows == {t \in Listed(b) : t > s}
<1>1. s \in Listed(b) /\ Cardinality(rows) >= Keep
  BY DEF Beyond
<1>2. s \in published /\ bomOf[s] = b /\ rows \subseteq Newer(s) /\ Newer(s) \subseteq published
  BY <1>1 DEF Listed, Newer, Sane, ListedInv
<1> HIDE DEF rows
<1>3. IsFiniteSet(Newer(s))
  BY <1>2, FS_Subset
<1>4. IsFiniteSet(rows) /\ Cardinality(rows) <= Cardinality(Newer(s))
  BY <1>2, <1>3, FS_Subset
<1>5. Cardinality(rows) \in Nat /\ Cardinality(Newer(s)) \in Nat
  BY <1>3, <1>4, FS_CardinalityType
<1>6. Cardinality(Newer(s)) >= Keep
  BY <1>1, <1>4, <1>5, LifecycleAssumption
<1> QED
  BY <1>2, <1>6 DEF Superseded, Newer

\* A list names what it named, or what was superseded when it was made.
LEMMA StaleEffect ==
    ASSUME Sane, ~ Wipe, IsFiniteSet(published), [Next]_vars,
           NEW h \in Runs, NEW s \in stale'[h]
    PROVE  s \in stale[h] \/ (s \in published /\ Superseded(s))
<1> USE DEF handler, store, exchange, wipe, reader, history
<1>t. TypeOK
  BY DEF Sane
<1>1. ASSUME NEW r \in Runs, ListStale(r)
      PROVE  s \in stale[h] \/ (s \in published /\ Superseded(s))
  <2>1. bomOf[r] \in Boms
    BY <1>1 DEF ListStale
  <2>2. stale' = [stale EXCEPT ![r] = Beyond(bomOf[r])]
    BY <1>1 DEF ListStale
  <2>3. s \in stale[h] \/ s \in Beyond(bomOf[r])
    BY <2>2, <1>t DEF TypeOK
  <2> QED
    BY <2>1, <2>3, BeyondSpent
<1>2. ASSUME NEW r \in Runs, PruneRow(r)
      PROVE  s \in stale[h]
  BY <1>2, <1>t DEF PruneRow, TypeOK
<1>3. ASSUME NEW r \in Runs, Handle(r), ~ ListStale(r), ~ PruneRow(r)
      PROVE  s \in stale[h]
  BY <1>3 DEF Handle, RecordRunning, StartProgress, Compile, Persist, RecordSucceeded,
              CompleteProgress, SkipPrune, Abort, PruneBlob, FailProgress, RecordFailed
<1>4. CASE \E r \in Runs, b \in Partitions : Accept(r, b)
  BY <1>4 DEF Accept
<1>5. CASE Export \/ Import \/ OpenLatest \/ Crash \/ UNCHANGED vars \/ \E b \in Partitions : FindLatest(b)
  BY <1>5 DEF Export, Import, StartImport, RestoreBlob, RestoreRow, OpenLatest, Crash, FindLatest,
              vars
<1> QED
  BY <1>1, <1>2, <1>3, <1>4, <1>5 DEF Next

\* A published run loses its row or its file only to a prune that listed it; one
\* that becomes published has both.
LEMMA StoreEffect ==
    ASSUME Sane, ~ Wipe, [Next]_vars, NEW s \in published'
    PROVE  \/ /\ s \in published
              /\ \/ row'[s] = row[s]
                 \/ row'[s] = "succeeded"
                 \/ row'[s] = "none" /\ \E h \in Runs : s \in stale[h]
              /\ s \in blobs => s \in blobs' \/ \E h \in Runs : s \in stale[h]
           \/ row'[s] = "succeeded" /\ s \in blobs'
<1> USE DEF handler, store, exchange, wipe, reader, history, At
<1>t. TypeOK
  BY DEF Sane
<1>1. ASSUME row' = row, published' = published, blobs \subseteq blobs'
      PROVE  s \in published /\ row'[s] = row[s] /\ (s \in blobs => s \in blobs')
  BY <1>1
<1>2. ASSUME NEW r \in Runs, NEW status \in {"running", "failed"}, WriteRow(r, status),
             r \notin published, published' = published, blobs' = blobs
      PROVE  s \in published /\ row'[s] = row[s] /\ (s \in blobs => s \in blobs')
  BY <1>2, <1>t, NoWipeWriteRow DEF Status, TypeOK
<1>3. ASSUME NEW r \in Runs, RecordRunning(r)
      PROVE  s \in published /\ row'[s] = row[s] /\ (s \in blobs => s \in blobs')
  <2>1. r \notin published
    BY <1>3 DEF RecordRunning, Sane, EndedInv, Pending
  <2> QED
    BY <1>2, <1>3, <2>1 DEF RecordRunning
<1>4. ASSUME NEW r \in Runs, RecordFailed(r)
      PROVE  s \in published /\ row'[s] = row[s] /\ (s \in blobs => s \in blobs')
  <2>1. r \notin published
    BY <1>4 DEF RecordFailed, Sane, EndedInv, Pending
  <2> QED
    BY <1>2, <1>4, <2>1 DEF RecordFailed
<1>5. ASSUME NEW r \in Runs, RecordSucceeded(r)
      PROVE  \/ s \in published /\ row'[s] = row[s] /\ (s \in blobs => s \in blobs')
             \/ row'[s] = "succeeded" /\ s \in blobs'
  <2>1. r \in blobs /\ blobs' = blobs
    BY <1>5 DEF RecordSucceeded, Sane, AcceptedInv
  <2>2. /\ \A u \in Runs : u # r => row'[u] = row[u]
        /\ row'[r] # "succeeded" => published' = published
        /\ published' \subseteq published \cup {r}
    BY <1>5, <1>t, NoWipeWriteRow DEF RecordSucceeded, Status
  <2>3. s \in Runs /\ row'[r] \in {"succeeded", row[r]}
    BY <1>5, <2>2, <1>t, NoWipeWriteRow DEF RecordSucceeded, Status, TypeOK
  <2> QED
    BY <2>1, <2>2, <2>3
<1>6. ASSUME NEW r \in Runs, Persist(r)
      PROVE  s \in published /\ row'[s] = row[s] /\ (s \in blobs => s \in blobs')
  BY <1>6 DEF Persist
<1>7. ASSUME NEW r \in Runs, PruneBlob(r)
      PROVE  /\ s \in published /\ row'[s] = row[s]
             /\ s \in blobs => s \in blobs' \/ \E h \in Runs : s \in stale[h]
  BY <1>7 DEF PruneBlob, Latest
<1>8. ASSUME NEW r \in Runs, PruneRow(r)
      PROVE  /\ s \in published /\ blobs' = blobs
             /\ row'[s] = row[s] \/ (row'[s] = "none" /\ \E h \in Runs : s \in stale[h])
  <2>1. PICK u \in stale[r] : WriteRow(u, "none")
    BY <1>8 DEF PruneRow, Latest
  <2>2. s \in published /\ s \in Runs /\ u \in Runs /\ blobs' = blobs
    BY <1>8, <1>t DEF PruneRow, TypeOK
  <2>3. /\ \A v \in Runs : v # u => row'[v] = row[v]
        /\ row'[u] \in {"none", row[u]}
    BY <2>1, <2>2, <1>t, NoWipeWriteRow DEF Status
  <2> QED
    BY <2>1, <2>2, <2>3
<1>9. ASSUME NEW r \in Runs, StartProgress(r) \/ Compile(r) \/ CompleteProgress(r)
                             \/ ListStale(r) \/ SkipPrune(r) \/ FailProgress(r) \/ Abort(r)
      PROVE  s \in published /\ row'[s] = row[s] /\ (s \in blobs => s \in blobs')
  BY <1>1, <1>9 DEF StartProgress, Compile, CompleteProgress, ListStale, SkipPrune, FailProgress, Abort
<1>10. CASE \E r \in Runs, b \in Partitions : Accept(r, b)
  BY <1>1, <1>10 DEF Accept
<1>11. CASE StartImport \/ RestoreBlob
  BY <1>1, <1>11 DEF StartImport, RestoreBlob
<1>12. CASE RestoreRow
  <2>1. s \in published /\ s \in Runs /\ restored \in Runs /\ blobs' = blobs
    BY <1>12, <1>t DEF RestoreRow, TypeOK
  <2>2. /\ \A v \in Runs : v # restored => row'[v] = row[v]
        /\ row'[restored] \in {"succeeded", row[restored]}
    BY <1>12, <2>1, <1>t, NoWipeWriteRow DEF RestoreRow, Status
  <2> QED
    BY <2>1, <2>2
<1>13. CASE Export \/ OpenLatest \/ Crash \/ UNCHANGED vars \/ \E b \in Partitions : FindLatest(b)
  BY <1>1, <1>13 DEF Export, OpenLatest, Crash, FindLatest, vars
<1>14. ASSUME NEW r \in Runs, Handle(r)
       PROVE  \/ /\ s \in published
                 /\ \/ row'[s] = row[s]
                    \/ row'[s] = "none" /\ \E h \in Runs : s \in stale[h]
                 /\ s \in blobs => s \in blobs' \/ \E h \in Runs : s \in stale[h]
              \/ row'[s] = "succeeded" /\ s \in blobs'
  BY <1>14, <1>3, <1>4, <1>5, <1>6, <1>7, <1>8, <1>9 DEF Handle
<1> QED
  BY <1>10, <1>11, <1>12, <1>13, <1>14 DEF Next, Import

\* A reader takes listed runs only, and misses those whose file is gone.
LEMMA ReaderEffect ==
    ASSUME Sane, ~ Wipe, [Next]_vars
    PROVE  /\ reading' \in {0, reading} \cup published
           /\ \A r \in missed' : r \in missed \/ (r = reading /\ r # 0 /\ r \notin blobs)
<1> USE DEF handler, store, exchange, wipe, reader, history
<1>1. ASSUME NEW b \in Partitions, FindLatest(b)
      PROVE  reading' \in published /\ missed' = missed
  BY <1>1 DEF FindLatest, Latest, Listed, Sane, ListedInv
<1>2. CASE OpenLatest
  BY <1>2 DEF OpenLatest
<1>3. ASSUME NEW r \in Runs, Handle(r)
      PROVE  reading' = reading /\ missed' = missed
  BY <1>3 DEF Handle, RecordRunning, StartProgress, Compile, Persist, RecordSucceeded,
              CompleteProgress, SkipPrune, Abort, ListStale, PruneBlob, PruneRow, FailProgress, RecordFailed
<1>4. CASE Export \/ Import \/ Crash \/ UNCHANGED vars \/ \E r \in Runs, b \in Partitions : Accept(r, b)
  BY <1>4 DEF Export, Import, StartImport, RestoreBlob, RestoreRow, Crash, Accept, vars
<1> QED
  BY <1>1, <1>2, <1>3, <1>4 DEF Next

LEMMA SpentInit == Init => SpentInv
  BY FS_EmptySet DEF Init, SpentInv

LEMMA SpentStep ==
    ASSUME Sane, SpentInv, ~ Wipe, [Next]_vars,
           WipeUnderWay => \A r \in Runs : pc[r] # "persisted"
    PROVE  SpentInv'
<1>1. /\ IsFiniteSet(published')
      /\ published \subseteq published'
      /\ \A r \in published : bomOf'[r] = bomOf[r]
      /\ \A r \in published' \ published : pc[r] = "persisted"
  BY PublishedGrows DEF SpentInv
<1>w. wiped' = wiped /\ wiping' \in {wiping, "idle"}
  BY WipesOnly
<1>2. ASSUME NEW r \in published, Superseded(r) PROVE Superseded(r)'
  BY <1>1, <1>2, StaysSuperseded
<1>3. ASSUME NEW h \in Runs, NEW s \in stale[h] PROVE s \in published /\ Superseded(s)
  BY <1>3 DEF SpentInv
<1>4. ASSUME NEW h \in Runs, NEW s \in stale'[h] PROVE s \in published' /\ Superseded(s)'
  <2>1. s \in published /\ Superseded(s)
    BY <1>3, <1>4, StaleEffect DEF SpentInv
  <2> QED
    BY <1>1, <1>2, <2>1
<1>5. ASSUME NEW s \in published', s \notin wiped
      PROVE  /\ row'[s] \in {"succeeded", "none"}
             /\ row'[s] = "none" \/ s \notin blobs' => Superseded(s)'
  <2>1. CASE row'[s] = "succeeded" /\ s \in blobs'
    BY <2>1
  <2>2. CASE /\ s \in published
             /\ \/ row'[s] = row[s]
                \/ row'[s] = "succeeded"
                \/ row'[s] = "none" /\ \E h \in Runs : s \in stale[h]
             /\ s \in blobs => s \in blobs' \/ \E h \in Runs : s \in stale[h]
    <3>1. row[s] \in {"succeeded", "none"} /\ (row[s] = "none" \/ s \notin blobs => Superseded(s))
      BY <1>5, <2>2 DEF SpentInv
    <3>2. row'[s] \in {"succeeded", "none"}
      BY <2>2, <3>1
    <3>3. row'[s] = "none" \/ s \notin blobs' => Superseded(s)
      BY <2>2, <3>1, <1>3
    <3> QED
      BY <2>2, <3>2, <3>3, <1>2
  <2> QED
    BY <2>1, <2>2, StoreEffect
<1>6. reading' # 0 => reading' \in published'
  BY <1>1, ReaderEffect DEF SpentInv
<1>7. ASSUME NEW s \in missed' PROVE s \in published' /\ (s \in wiped \/ Superseded(s)')
  <2>1. s \in published /\ (s \in wiped \/ Superseded(s))
    BY <1>7, ReaderEffect DEF SpentInv
  <2> QED
    BY <1>1, <1>2, <2>1
<1>8. WipeUnderWay' => published' \subseteq wiped
  <2> SUFFICES ASSUME WipeUnderWay PROVE published' \subseteq wiped
    BY <1>w DEF WipeUnderWay
  <2>1. published \subseteq wiped /\ published' \subseteq Runs
    BY TypeStep DEF SpentInv, Sane, TypeOK
  <2> QED
    BY <1>1, <2>1
<1> QED
  BY <1>w, <1>1, <1>4, <1>5, <1>6, <1>7, <1>8 DEF SpentInv

\* Before the first wipe.
Whole == wiped = {} /\ SpentInv

LEMMA WholeInit == Init => Whole
  BY SpentInit DEF Init, Whole

LEMMA WholeStep ==
    ASSUME Unwiped', Safe, Whole, [Next]_vars
    PROVE  Whole'
<1>1. Sane /\ ~ Wipe /\ ~ WipeUnderWay
  BY SafeSane, SafeWipe DEF Safe, NoWipe, WipeUnderWay
<1> QED
  BY <1>1, SpentStep, WipesOnly DEF Whole

LEMMA WholeGone == Whole => GoneOnlyWhenSuperseded
  BY DEF Whole, SpentInv, Superseded, Newer, GoneOnlyWhenSuperseded,
         PrunedOnlyWhenSuperseded, MissedOnlyWhenOvertaken

\* A run disappears from the history, or under a reader's hands (404
\* blob_missing), only when at least Keep newer runs of the same BOM have
\* succeeded: however many prunes work at once on lists that are out of date,
\* and whatever is restored, restarted or fails meanwhile.
THEOREM OnlySupersededGo == Spec => [](Unwiped => GoneOnlyWhenSuperseded)
<1>1. Safe /\ [Next]_vars /\ Unwiped' => Safe'
  BY SafeStep
<1>2. Safe /\ Whole /\ [Next]_vars /\ Unwiped' => Whole'
  BY WholeStep
<1> QED
  BY <1>1, <1>2, TypeInit, TypeStep, UnwipedBefore, SafeInit, WholeInit, WholeGone, PTL
     DEF Spec

------------------------------------------------------------------------------
(***************************************************************************)
(* The store comes to rest in order.  As long as no restart, failing call  *)
(* or import has happened (Calm), every run that is beyond retention is    *)
(* still on somebody's list, or somebody has still to make one (DueInv);   *)
(* a file without a row, or a row without a file, belongs to a handler in  *)
(* the middle of a step (FilesInv); and a poller was told what the step of *)
(* the run's handler says (ToldInv).                                       *)
(***************************************************************************)

Calm == count["crash"] = 0 /\ count["fault"] = 0 /\ count["import"] = 0

ToldInv ==
    \A r \in Runs :
        /\ pc[r] \notin {"lost", "aborted"}
        /\ pc[r] \in (Pending \ {"failed"}) \cup {"recorded"} =>
               progress[r] \in {"none", "running"}
        /\ pc[r] = "failed" => progress[r] = "failed"
        /\ pc[r] = "recorded" => r \in published
        /\ pc[r] \in {"listing", "pruning", "dropping"} =>
               r \in published /\ progress[r] = "succeeded"
        /\ pc[r] = "done" => \/ r \in published /\ progress[r] = "succeeded"
                             \/ row[r] = "failed" /\ progress[r] = "failed"

FilesInv ==
    /\ \A r \in blobs : row[r] = "succeeded" \/ pc[r] = "persisted"
    /\ \A h \in Runs : pc[h] = "dropping" => Latest(stale[h]) \cap blobs = {}
    /\ \A r \in Runs \ blobs : row[r] = "succeeded" =>
           \E h \in Runs : pc[h] = "dropping" /\ r \in Latest(stale[h])

Due(s, b) ==
    \/ \E h \in Runs : pc[h] \in {"pruning", "dropping"} /\ s \in stale[h]
    \/ \E h \in Runs : pc[h] \in {"recorded", "listing"} /\ bomOf[h] = b

DueInv == \A b \in Boms : \A s \in Beyond(b) : Due(s, b)

RestInv == restoring = {} /\ restored = 0 /\ ToldInv /\ FilesInv /\ DueInv

CalmInv == Calm => RestInv

\* Every set of finitely many numbers has a least one: of the sets of numbers
\* below one of them, take one that no other is part of.
LEMMA LeastNumber ==
    ASSUME NEW S \in SUBSET Nat, IsFiniteSet(S), S # {}
    PROVE  \E m \in S : \A s \in S : m <= s
<1> DEFINE below(m) == {s \in S : s < m}
           T == {below(m) : m \in S}
           R == StrictSubsetOrdering(S)
<1>1. T \subseteq FiniteSubsetsOf(S) /\ T # {}
  <2>1. ASSUME NEW m \in S PROVE below(m) \in FiniteSubsetsOf(S)
    <3>1. below(m) \subseteq S
      OBVIOUS
    <3> HIDE DEF below
    <3>2. IsFiniteSet(below(m))
      BY <3>1, FS_Subset
    <3> QED
      BY <3>1, <3>2 DEF FiniteSubsetsOf
  <2> QED
    BY <2>1
<1>2. IsWellFoundedOn(R, FiniteSubsetsOf(S))
  BY FS_StrictSubsetOrderingWellFounded
<1>3. \E X \in T : \A Y \in T : <<Y, X>> \notin R
  <2> HIDE DEF T, R
  <2> QED
    BY <1>1, <1>2, WFMin
<1>4. PICK m \in S : \A n \in S : <<below(n), below(m)>> \notin R
  BY <1>3
<1>5. ASSUME NEW s \in S, ~ (m <= s) PROVE FALSE
  <2>1. s < m /\ \A n \in S : n \in Nat
    BY <1>5
  <2>2. below(s) \subseteq below(m) /\ s \in below(m) /\ s \notin below(s)
    <3>1. ASSUME NEW n \in S, n < s PROVE n < m
      <4>1. n \in Nat /\ s \in Nat /\ m \in Nat
        BY <2>1
      <4> QED
        BY <2>1, <3>1, <4>1
    <3>2. ~ (s < s)
      BY <2>1
    <3> QED
      BY <2>1, <3>1, <3>2
  <2>3. below(s) \in SUBSET S /\ below(m) \in SUBSET S
    OBVIOUS
  <2>4. <<below(s), below(m)>> \in R
    BY <2>2, <2>3 DEF StrictSubsetOrdering
  <2> QED
    BY <1>4, <2>4
<1> QED
  BY <1>4, <1>5

\* Where every member has fewer than n greater ones, there are at most n.
LEMMA FewGreater ==
    ASSUME NEW S \in SUBSET Nat, IsFiniteSet(S), NEW n \in Nat \ {0},
           \A r \in S : Cardinality({s \in S : s > r}) < n
    PROVE  Cardinality(S) <= n
<1>1. CASE S = {}
  BY <1>1, FS_EmptySet
<1>2. CASE S # {}
  <2>1. PICK m \in S : \A s \in S : m <= s
    BY <1>2, LeastNumber
  <2>2. {s \in S : s > m} = S \ {m}
    <3>1. ASSUME NEW s \in S PROVE s > m <=> s # m
      <4>1. s \in Nat /\ m \in Nat /\ m <= s
        BY <2>1
      <4> QED
        BY <4>1
    <3> QED
      BY <3>1
  <2>3. Cardinality(S \ {m}) = Cardinality(S) - 1 /\ Cardinality(S) \in Nat
    BY FS_RemoveElement, FS_CardinalityType
  <2>4. Cardinality(S \ {m}) < n
    BY <2>2
  <2> QED
    BY <2>3, <2>4
<1> QED
  BY <1>1, <1>2

LEMMA LatestUnique ==
    ASSUME NEW S \in SUBSET Runs, NEW s \in Latest(S), NEW t \in Latest(S)
    PROVE  s = t
<1>1. s \in S /\ t \in S /\ s <= t /\ t <= s
  BY DEF Latest
<1>2. s \in Nat /\ t \in Nat
  BY <1>1, LifecycleAssumption
<1> QED
  BY <1>1, <1>2

\* The calm ends with the first such event.
LEMMA CalmHappens ==
    ASSUME TypeOK, NEW e \in Events, e # "wipe", Happens(e)
    PROVE  ~ Calm'
<1> DEFINE old == count[e]
<1>1. old \in Nat
  BY DEF TypeOK
<1>2. count'[e] = old + 1
  BY DEF Happens, TypeOK
<1> HIDE DEF old
<1>3. count'[e] # 0
  BY <1>1, <1>2
<1> QED
  BY <1>3 DEF Calm, Events

LEMMA CalmWrite ==
    ASSUME TypeOK, Calm', NEW r \in Runs, NEW status \in Status, WriteRow(r, status)
    PROVE  row' = [row EXCEPT ![r] = status] /\ UNCHANGED count
  BY CalmHappens DEF WriteRow, Events

LEMMA CalmStays ==
    ASSUME TypeOK, [Next]_vars, Calm'
    PROVE  Calm
<1> USE DEF handler, store, exchange, wipe, reader, history
<1>1. ASSUME NEW e \in Events \ {"wipe"}, Happens(e) PROVE FALSE
  BY <1>1, CalmHappens
<1>2. ASSUME NEW r \in Runs, NEW status \in Status, WriteRow(r, status) PROVE UNCHANGED count
  BY <1>2, CalmWrite
<1>3. ASSUME NEW r \in Runs, Handle(r) PROVE UNCHANGED count
  <2>1. CASE RecordRunning(r) \/ RecordSucceeded(r) \/ RecordFailed(r)
    BY <1>2, <2>1 DEF RecordRunning, RecordSucceeded, RecordFailed, Status
  <2>2. CASE PruneRow(r)
    <3>1. PICK s \in stale[r] : WriteRow(s, "none")
      BY <2>2 DEF PruneRow, Latest
    <3> QED
      BY <1>2, <3>1 DEF TypeOK, Status
  <2>3. CASE Persist(r) \/ PruneBlob(r) \/ SkipPrune(r) \/ Abort(r)
    BY <1>1, <2>3 DEF Persist, PruneBlob, SkipPrune, Abort, Events
  <2>4. CASE StartProgress(r) \/ Compile(r) \/ CompleteProgress(r) \/ ListStale(r) \/ FailProgress(r)
    BY <2>4 DEF StartProgress, Compile, CompleteProgress, ListStale, FailProgress
  <2> QED
    BY <1>3, <2>1, <2>2, <2>3, <2>4 DEF Handle
<1>4. CASE Import
  <2>1. ~ StartImport
    BY <1>1 DEF StartImport, Events
  <2>2. RestoreBlob => UNCHANGED count
    BY <1>1 DEF RestoreBlob, Events
  <2>3. RestoreRow => UNCHANGED count
    BY <1>2 DEF RestoreRow, TypeOK, Status
  <2> QED
    BY <1>4, <2>1, <2>2, <2>3 DEF Import, Calm
<1>5. CASE Wipe
  <2>1. DropTables \/ KeepTables => Calm
    BY DEF DropTables, KeepTables, Happens, Calm, TypeOK, Events
  <2> QED
    BY <1>5, <2>1 DEF Wipe, ListBlobs, WipeBlob, BreakWipe, EndWipe, Calm
<1>6. ~ Crash
  BY <1>1 DEF Crash, Events
<1>7. CASE Export \/ OpenLatest \/ UNCHANGED vars \/ (\E b \in Partitions : FindLatest(b))
           \/ (\E r \in Runs, b \in Partitions : Accept(r, b))
  BY <1>7 DEF Export, OpenLatest, FindLatest, Accept, vars, Calm
<1> QED
  BY <1>3, <1>4, <1>5, <1>6, <1>7 DEF Next, Calm

\* A run no row has listed has no list-mates: it is on no list.
LEMMA PendingUnlisted ==
    ASSUME Safe, NEW r \in Runs, pc[r] \in Pending
    PROVE  /\ r \notin published /\ row[r] # "succeeded"
           /\ \A h \in Runs : r \notin stale[h]
  BY DEF Safe, PublishedInv, ListedInv, SupersededInv

LEMMA ToldStep ==
    ASSUME Unwiped', Safe, Whole, RestInv, Calm', NEW h \in Runs, Handle(h)
    PROVE  ToldInv'
<1> USE DEF handler, store, exchange, wipe, reader, history, At, Goto, Note
<1>t. TypeOK /\ ToldInv
  BY DEF Safe, RestInv
<1>1. ASSUME NEW status \in Status, WriteRow(h, status) PROVE row' = [row EXCEPT ![h] = status]
  BY <1>1, <1>t, CalmWrite
<1>2. CASE RecordRunning(h)
  BY <1>1, <1>2, <1>t DEF RecordRunning, ToldInv, TypeOK, Pending, Status
<1>3. CASE StartProgress(h)
  BY <1>3, <1>t DEF StartProgress, ToldInv, TypeOK, Pending
<1>4. CASE Compile(h)
  BY <1>4, <1>t DEF Compile, ToldInv, TypeOK, Pending
<1>5. CASE Persist(h)
  BY <1>5, <1>t DEF Persist, ToldInv, TypeOK, Pending
<1>6. CASE RecordSucceeded(h)
  <2>1. row' = [row EXCEPT ![h] = "succeeded"]
    BY <1>1, <1>6 DEF RecordSucceeded, Status
  <2>2. published' = published \cup {h} /\ row'[h] = "succeeded"
    BY <1>6, <2>1, <1>t DEF RecordSucceeded, TypeOK
  <2>3. progress' = progress /\ pc' = [pc EXCEPT ![h] = "recorded"] /\ pc[h] = "persisted"
    BY <1>6 DEF RecordSucceeded
  <2>4. progress[h] \in {"none", "running"}
    BY <2>3, <1>t DEF ToldInv, Pending
  <2> QED
    BY <2>1, <2>2, <2>3, <2>4, <1>t DEF ToldInv, TypeOK, Pending
<1>7. CASE CompleteProgress(h)
  BY <1>7, <1>t DEF CompleteProgress, ToldInv, TypeOK, Pending
<1>8. CASE ListStale(h)
  BY <1>8, <1>t DEF ListStale, ToldInv, TypeOK, Pending
<1>9. CASE PruneBlob(h)
  BY <1>9, <1>t DEF PruneBlob, ToldInv, TypeOK, Pending
<1>10. CASE PruneRow(h)
  <2>1. PICK s \in stale[h] : WriteRow(s, "none")
    BY <1>10 DEF PruneRow, Latest
  <2>2. s \in published /\ s \in Runs
    BY <2>1, <1>t DEF Safe, SupersededInv, TypeOK
  <2>3. row' = [row EXCEPT ![s] = "none"] /\ row[s] # "failed"
    BY <2>1, <2>2, <1>t, CalmWrite DEF Status, Whole, SpentInv
  <2> QED
    BY <1>10, <2>2, <2>3, <1>t DEF PruneRow, ToldInv, TypeOK, Pending
<1>11. CASE FailProgress(h)
  BY <1>11, <1>t DEF FailProgress, ToldInv, TypeOK, Pending
<1>12. CASE RecordFailed(h)
  BY <1>1, <1>12, <1>t DEF RecordFailed, ToldInv, TypeOK, Pending, Status
<1>13. CASE SkipPrune(h)
  BY <1>13, <1>t DEF SkipPrune, ToldInv, TypeOK, Pending
<1>14. ~ Abort(h)
  BY <1>t, CalmHappens DEF Abort, Events
<1> QED
  BY <1>2, <1>3, <1>4, <1>5, <1>6, <1>7, <1>8, <1>9, <1>10, <1>11, <1>12, <1>13, <1>14 DEF Handle

LEMMA FilesStep ==
    ASSUME Unwiped', Safe, Whole, RestInv, Calm', NEW h \in Runs, Handle(h)
    PROVE  FilesInv'
<1> USE DEF handler, store, exchange, wipe, reader, history, At, Goto
<1>t. TypeOK /\ FilesInv
  BY DEF Safe, RestInv
<1>1. ASSUME NEW status \in Status, WriteRow(h, status) PROVE row' = [row EXCEPT ![h] = status]
  BY <1>1, <1>t, CalmWrite
<1>2. ASSUME NEW e \in {"crash", "fault", "import"} PROVE ~ Happens(e)
  BY <1>t, CalmHappens DEF Events
<1>3. ASSUME UNCHANGED <<row, blobs, stale>>, NEW next, pc' = [pc EXCEPT ![h] = next],
             next # "dropping", pc[h] \notin {"persisted", "dropping"}
      PROVE  FilesInv'
  BY <1>3, <1>t DEF FilesInv, Latest, TypeOK
<1>4. ASSUME NEW status \in {"running", "failed"}, WriteRow(h, status), NEW next,
             pc' = [pc EXCEPT ![h] = next], next # "dropping",
             pc[h] \in Pending \ {"persisted"}, UNCHANGED <<blobs, stale>>
      PROVE  FilesInv'
  <2>1. row' = [row EXCEPT ![h] = status]
    BY <1>1, <1>4 DEF Status
  <2>2. h \notin blobs /\ row'[h] # "succeeded"
    BY <1>4, <2>1, <1>t, PendingUnlisted DEF FilesInv, TypeOK
  <2> QED
    BY <1>4, <2>1, <2>2, <1>t DEF FilesInv, Latest, TypeOK, Pending
<1>5. CASE RecordRunning(h)
  BY <1>4, <1>5 DEF RecordRunning, Pending
<1>6. CASE RecordFailed(h)
  BY <1>4, <1>6 DEF RecordFailed, Pending
<1>7. CASE StartProgress(h) \/ Compile(h) \/ CompleteProgress(h) \/ FailProgress(h)
           \/ SkipPrune(h)
  BY <1>3, <1>7 DEF StartProgress, Compile, CompleteProgress, FailProgress, SkipPrune
<1>13. ~ Abort(h)
  BY <1>2 DEF Abort
<1>8. CASE Persist(h)
  <2>1. /\ blobs' = blobs \cup {h} /\ pc' = [pc EXCEPT ![h] = "persisted"]
        /\ pc[h] = "compiled" /\ UNCHANGED <<row, stale>>
    BY <1>2, <1>8 DEF Persist
  <2>2. \A k \in Runs : h \notin stale[k]
    BY <2>1, PendingUnlisted DEF Pending
  <2> QED
    BY <2>1, <2>2, <1>t DEF FilesInv, Latest, TypeOK
<1>9. CASE RecordSucceeded(h)
  <2>1. /\ row' = [row EXCEPT ![h] = "succeeded"] /\ pc' = [pc EXCEPT ![h] = "recorded"]
        /\ pc[h] = "persisted" /\ UNCHANGED <<blobs, stale>>
    BY <1>1, <1>9 DEF RecordSucceeded, Status
  <2>2. h \in blobs
    BY <2>1 DEF Safe, AcceptedInv
  <2> QED
    BY <2>1, <2>2, <1>t DEF FilesInv, Latest, TypeOK
<1>10. CASE ListStale(h)
  <2>1. /\ pc[h] = "listing" /\ UNCHANGED <<row, blobs>>
        /\ \A k \in Runs : k # h => stale'[k] = stale[k] /\ pc'[k] = pc[k]
        /\ pc'[h] \in {"done", "pruning"}
    BY <1>10, <1>t DEF ListStale, TypeOK
  <2>2. \A r \in blobs' : row'[r] = "succeeded" \/ pc'[r] = "persisted"
    BY <2>1, <1>t DEF FilesInv, TypeOK
  <2>3. \A k \in Runs : pc'[k] = "dropping" => Latest(stale'[k]) \cap blobs' = {}
    BY <2>1, <1>t DEF FilesInv
  <2>4. \A r \in Runs \ blobs' : row'[r] = "succeeded" =>
            \E k \in Runs : pc'[k] = "dropping" /\ r \in Latest(stale'[k])
    BY <2>1, <1>t DEF FilesInv
  <2> QED
    BY <2>2, <2>3, <2>4 DEF FilesInv, Latest
<1>11. CASE PruneBlob(h)
  <2>1. PICK s \in Latest(stale[h]) : blobs' = blobs \ {s}
    BY <1>2, <1>11 DEF PruneBlob
  <2>2. /\ pc[h] = "pruning" /\ pc' = [pc EXCEPT ![h] = "dropping"]
        /\ UNCHANGED <<row, stale>>
    BY <1>11 DEF PruneBlob
  <2>3. stale[h] \subseteq Runs
    BY <1>t DEF TypeOK
  <2>4. Latest(stale[h]) \cap blobs' = {}
    BY <2>1, <2>3, LatestUnique
  <2>5. \A r \in blobs' : row'[r] = "succeeded" \/ pc'[r] = "persisted"
    BY <2>1, <2>2, <1>t DEF FilesInv, TypeOK
  <2>6. \A k \in Runs : pc'[k] = "dropping" => Latest(stale[k]) \cap blobs' = {}
    BY <2>1, <2>2, <2>4, <1>t DEF FilesInv, TypeOK
  <2>7. ASSUME NEW r \in Runs \ blobs', row'[r] = "succeeded"
        PROVE  \E k \in Runs : pc'[k] = "dropping" /\ r \in Latest(stale[k])
    <3>1. pc'[h] = "dropping" /\ \A k \in Runs : pc[k] = "dropping" => pc'[k] = "dropping"
      BY <2>2, <1>t DEF TypeOK
    <3>2. CASE r = s
      BY <2>1, <3>1, <3>2
    <3>3. CASE r # s
      BY <2>1, <2>2, <2>7, <3>1, <3>3, <1>t DEF FilesInv
    <3> QED
      BY <3>2, <3>3
  <2>8. stale' = stale
    BY <2>2
  <2> QED
    BY <2>5, <2>6, <2>7, <2>8 DEF FilesInv, Latest
<1>12. CASE PruneRow(h)
  <2>1. PICK s \in Latest(stale[h]) : /\ WriteRow(s, "none")
                                      /\ stale' = [stale EXCEPT ![h] = @ \ {s}]
    BY <1>12 DEF PruneRow
  <2>2. s \in Runs /\ stale[h] \subseteq Runs
    BY <2>1, <1>t DEF Latest, TypeOK
  <2>3. /\ row' = [row EXCEPT ![s] = "none"]
        /\ pc[h] = "dropping" /\ blobs' = blobs
        /\ pc'[h] \in {"done", "pruning"}
        /\ \A k \in Runs : k # h => stale'[k] = stale[k] /\ pc'[k] = pc[k]
    BY <1>12, <2>1, <2>2, <1>t, CalmWrite DEF PruneRow, Status, TypeOK
  <2>4. s \notin blobs
    BY <2>1, <2>3, <1>t DEF FilesInv
  <2>5. \A r \in blobs' : row'[r] = "succeeded" \/ pc'[r] = "persisted"
    BY <2>3, <2>4, <1>t DEF FilesInv, TypeOK
  <2>6. \A k \in Runs : pc'[k] = "dropping" => Latest(stale'[k]) \cap blobs' = {}
    BY <2>3, <1>t DEF FilesInv
  <2>7. ASSUME NEW r \in Runs \ blobs', row'[r] = "succeeded"
        PROVE  \E k \in Runs : pc'[k] = "dropping" /\ r \in Latest(stale'[k])
    <3>1. r # s /\ r \in Runs \ blobs /\ row[r] = "succeeded"
      BY <2>2, <2>3, <2>7, <1>t DEF TypeOK
    <3>2. PICK k \in Runs : pc[k] = "dropping" /\ r \in Latest(stale[k])
      BY <3>1, <1>t DEF FilesInv
    <3>3. k # h
      BY <2>1, <2>2, <3>1, <3>2, LatestUnique
    <3> QED
      BY <2>3, <3>2, <3>3
  <2> QED
    BY <2>5, <2>6, <2>7 DEF FilesInv, Latest
<1> QED
  BY <1>5, <1>6, <1>7, <1>8, <1>9, <1>10, <1>11, <1>12, <1>13 DEF Handle

\* With fewer rows, fewer are beyond the newest Keep.
LEMMA BeyondShrinks ==
    ASSUME NEW b \in Partitions, IsFiniteSet(Listed(b)), Listed(b)' \subseteq Listed(b)
    PROVE  Beyond(b)' \subseteq Beyond(b)
<1> SUFFICES ASSUME NEW r \in Beyond(b)' PROVE r \in Beyond(b)
  OBVIOUS
<1> DEFINE before == {s \in Listed(b) : s > r}
           after == {s \in Listed(b)' : s > r}
<1>1. r \in Listed(b)' /\ Cardinality(after) >= Keep
  BY DEF Beyond
<1>2. after \subseteq before /\ before \subseteq Listed(b)
  OBVIOUS
<1> HIDE DEF before, after
<1>3. IsFiniteSet(before)
  BY <1>2, FS_Subset
<1>4. IsFiniteSet(after) /\ Cardinality(after) <= Cardinality(before)
  BY <1>2, <1>3, FS_Subset
<1>5. Cardinality(after) \in Nat /\ Cardinality(before) \in Nat
  BY <1>3, <1>4, FS_CardinalityType
<1>6. Cardinality(before) >= Keep
  BY <1>1, <1>4, <1>5, LifecycleAssumption
<1> QED
  BY <1>1, <1>6 DEF Beyond, before

LEMMA ListedFinite ==
    ASSUME Safe, Whole, NEW b \in Partitions
    PROVE  IsFiniteSet(Listed(b))
<1>1. Listed(b) \subseteq published
  BY DEF Listed, Safe, ListedInv
<1> QED
  BY <1>1, FS_Subset DEF Whole, SpentInv

LEMMA DueStep ==
    ASSUME Unwiped', Safe, Whole, RestInv, Calm', NEW h \in Runs, Handle(h)
    PROVE  DueInv'
<1> USE DEF handler, store, exchange, wipe, reader, history, At, Goto
<1>t. TypeOK /\ DueInv
  BY DEF Safe, RestInv
<1>1. SUFFICES ASSUME NEW b \in Boms, NEW s \in Beyond(b)' PROVE Due(s, b)'
  BY DEF DueInv
<1>b. b \in Partitions
  BY LifecycleAssumption
<1>2. ASSUME NEW status \in Status, WriteRow(h, status) PROVE row' = [row EXCEPT ![h] = status]
  BY <1>2, <1>t, CalmWrite
<1>3. ASSUME Listed(b)' \subseteq Listed(b)
      PROVE  s \in Beyond(b) /\ Due(s, b)
  BY <1>3, <1>b, <1>t, BeyondShrinks, ListedFinite DEF DueInv
<1>4. ASSUME Listed(b)' \subseteq Listed(b), UNCHANGED <<stale, bomOf>>, NEW next,
             pc' = [pc EXCEPT ![h] = next],
             pc[h] \in {"pruning", "dropping"} => next \in {"pruning", "dropping"},
             pc[h] \in {"recorded", "listing"} => next \in {"recorded", "listing"}
      PROVE  Due(s, b)'
  <2>1. Due(s, b)
    BY <1>3, <1>4
  <2>2. \A k \in Runs :
            /\ pc[k] \in {"pruning", "dropping"} => pc'[k] \in {"pruning", "dropping"}
            /\ pc[k] \in {"recorded", "listing"} => pc'[k] \in {"recorded", "listing"}
    BY <1>4, <1>t DEF TypeOK
  <2> QED
    BY <1>4, <2>1, <2>2 DEF Due
<1>5. ASSUME NEW status \in {"running", "failed"}, WriteRow(h, status), bomOf' = bomOf
      PROVE  Listed(b)' \subseteq Listed(b)
  <2>1. row' = [row EXCEPT ![h] = status]
    BY <1>2, <1>5 DEF Status
  <2> QED
    BY <1>5, <2>1, <1>t DEF Listed, TypeOK
<1>6. CASE RecordRunning(h)
  BY <1>4, <1>5, <1>6 DEF RecordRunning
<1>7. CASE RecordFailed(h)
  BY <1>4, <1>5, <1>7 DEF RecordFailed
<1>8. CASE StartProgress(h) \/ Compile(h) \/ CompleteProgress(h) \/ FailProgress(h)
  <2>1. Listed(b)' \subseteq Listed(b)
    BY <1>8 DEF StartProgress, Compile, CompleteProgress, FailProgress, Listed
  <2> QED
    BY <1>4, <1>8, <2>1 DEF StartProgress, Compile, CompleteProgress, FailProgress
<1>9. CASE Persist(h)
  <2>1. Listed(b)' \subseteq Listed(b)
    BY <1>9 DEF Persist, Listed
  <2> QED
    BY <1>4, <1>9, <2>1 DEF Persist
<1>10. CASE PruneBlob(h)
  <2>1. Listed(b)' \subseteq Listed(b)
    BY <1>10 DEF PruneBlob, Listed
  <2> QED
    BY <1>4, <1>10, <2>1 DEF PruneBlob
<1>11. CASE RecordSucceeded(h)
  <2>1. /\ row' = [row EXCEPT ![h] = "succeeded"] /\ pc' = [pc EXCEPT ![h] = "recorded"]
        /\ pc[h] = "persisted" /\ UNCHANGED <<bomOf, stale>>
    BY <1>2, <1>11 DEF RecordSucceeded, Status
  <2>2. CASE bomOf[h] = b
    BY <2>1, <2>2, <1>t DEF Due, TypeOK
  <2>3. CASE bomOf[h] # b
    <3>1. Listed(b)' \subseteq Listed(b)
      BY <2>1, <2>3, <1>t DEF Listed, TypeOK
    <3> QED
      BY <1>4, <2>1, <3>1
  <2> QED
    BY <2>2, <2>3
<1>12. CASE ListStale(h)
  <2>1. /\ stale' = [stale EXCEPT ![h] = Beyond(bomOf[h])]
        /\ pc' = [pc EXCEPT ![h] = IF Beyond(bomOf[h]) = {} THEN "done" ELSE "pruning"]
        /\ pc[h] = "listing" /\ UNCHANGED <<bomOf, row>>
    BY <1>12 DEF ListStale
  <2>2. Listed(b)' \subseteq Listed(b)
    BY <2>1 DEF Listed
  <2>3. s \in Beyond(b) /\ Due(s, b)
    BY <1>3, <2>2
  <2>4. CASE bomOf[h] = b
    BY <2>1, <2>3, <2>4, <1>t DEF Due, TypeOK
  <2>5. CASE bomOf[h] # b
    <3>1. \A k \in Runs : k # h => stale'[k] = stale[k] /\ pc'[k] = pc[k]
      BY <2>1, <1>t DEF TypeOK
    <3> QED
      BY <2>1, <2>3, <2>5, <3>1 DEF Due
  <2> QED
    BY <2>4, <2>5
<1>13. CASE PruneRow(h)
  <2>1. PICK u \in stale[h] : /\ WriteRow(u, "none")
                              /\ stale' = [stale EXCEPT ![h] = @ \ {u}]
                              /\ pc' = [pc EXCEPT ![h] = IF stale[h] = {u} THEN "done" ELSE "pruning"]
    BY <1>13 DEF PruneRow, Latest
  <2>2. u \in Runs /\ pc[h] = "dropping" /\ bomOf' = bomOf
    BY <1>13, <1>t DEF PruneRow, TypeOK
  <2>3. row' = [row EXCEPT ![u] = "none"]
    BY <2>1, <2>2, <1>t, CalmWrite DEF Status
  <2>4. Listed(b)' \subseteq Listed(b) /\ u \notin Listed(b)'
    BY <2>2, <2>3, <1>t DEF Listed, TypeOK
  <2>5. s # u
    BY <2>4 DEF Beyond
  <2>6. Due(s, b)
    BY <1>3, <2>4
  <2>7. \A k \in Runs : k # h => stale'[k] = stale[k] /\ pc'[k] = pc[k]
    BY <2>1, <1>t DEF TypeOK
  <2>8. s \in stale[h] => s \in stale'[h] /\ pc'[h] = "pruning"
    BY <2>1, <2>5, <1>t DEF TypeOK
  <2> QED
    BY <2>2, <2>6, <2>7, <2>8 DEF Due
<1>14. CASE SkipPrune(h)
  <2>1. /\ pc[h] = "listing" /\ bomOf[h] # b
        /\ pc' = [pc EXCEPT ![h] = "done"] /\ UNCHANGED <<bomOf, row, stale>>
    BY <1>14, <1>t, CalmHappens DEF SkipPrune, Events
  <2>2. Listed(b)' \subseteq Listed(b)
    BY <2>1 DEF Listed
  <2>3. Due(s, b)
    BY <1>3, <2>2
  <2>4. \A k \in Runs : k # h => pc'[k] = pc[k]
    BY <2>1, <1>t DEF TypeOK
  <2> QED
    BY <2>1, <2>3, <2>4 DEF Due
<1>15. ~ Abort(h)
  BY <1>t, CalmHappens DEF Abort, Events
<1> QED
  BY <1>6, <1>7, <1>8, <1>9, <1>10, <1>11, <1>12, <1>13, <1>14, <1>15 DEF Handle

LEMMA CalmInit == Init => CalmInv
<1> SUFFICES ASSUME Init PROVE RestInv
  BY DEF CalmInv
<1>1. ToldInv /\ FilesInv
  BY DEF Init, ToldInv, FilesInv, Latest
<1>2. \A b \in Partitions : Listed(b) = {}
  BY DEF Init, Listed
<1>3. DueInv
  BY <1>2, LifecycleAssumption DEF DueInv, Beyond
<1> QED
  BY <1>1, <1>3 DEF Init, RestInv

LEMMA CalmStep ==
    ASSUME Unwiped', Safe, Whole, CalmInv, [Next]_vars
    PROVE  CalmInv'
<1> SUFFICES ASSUME Calm' PROVE RestInv'
  BY DEF CalmInv
<1> USE DEF handler, store, exchange, wipe, reader, history
<1>t. TypeOK /\ RestInv
  BY CalmStays DEF Safe, CalmInv
<1>1. ASSUME NEW r \in Runs, NEW b \in Partitions, Accept(r, b) PROVE RestInv'
  <2>1. /\ pc[r] = "idle" /\ pc' = [pc EXCEPT ![r] = "accepted"]
        /\ bomOf' = [bomOf EXCEPT ![r] = b]
        /\ UNCHANGED <<row, blobs, stale, progress, published, restoring, restored>>
    BY <1>1 DEF Accept, At, Goto
  <2>2. row[r] # "succeeded"
    BY <2>1, PendingUnlisted DEF Pending
  <2>3. ToldInv'
    BY <2>1, <1>t DEF RestInv, ToldInv, TypeOK, Pending
  <2>4. FilesInv'
    BY <2>1, <1>t DEF RestInv, FilesInv, Latest, TypeOK
  <2>5. \A c \in Partitions : Listed(c)' = Listed(c)
    BY <2>1, <2>2, <1>t DEF Listed, TypeOK
  <2>6. \A k \in Runs : k # r => pc'[k] = pc[k] /\ bomOf'[k] = bomOf[k]
    BY <2>1, <1>t DEF TypeOK
  <2>7. ASSUME NEW c \in Boms, NEW s \in Beyond(c)' PROVE Due(s, c)'
    <3>1. s \in Beyond(c)
      BY <2>5, <2>7, LifecycleAssumption DEF Beyond
    <3>2. Due(s, c)
      BY <3>1, <1>t DEF RestInv, DueInv
    <3> QED
      BY <2>1, <2>6, <3>2 DEF Due
  <2> QED
    BY <2>1, <2>3, <2>4, <2>7, <1>t DEF RestInv, DueInv
<1>2. ASSUME NEW r \in Runs, Handle(r) PROVE RestInv'
  <2>1. restoring' = restoring /\ restored' = restored
    BY <1>2 DEF Handle, RecordRunning, StartProgress, Compile, Persist, RecordSucceeded,
                CompleteProgress, SkipPrune, Abort, ListStale, PruneBlob, PruneRow, FailProgress, RecordFailed
  <2> QED
    BY <1>2, <2>1, <1>t, ToldStep, FilesStep, DueStep DEF RestInv
<1>3. ~ Import
  <2>1. ~ StartImport
    BY <1>t, CalmHappens DEF StartImport, Events
  <2> QED
    BY <2>1, <1>t DEF Import, RestoreBlob, RestoreRow, Latest, RestInv
<1>4. ~ Crash
  BY <1>t, CalmHappens DEF Crash, Events
<1>5. ASSUME UNCHANGED <<handler, store, restoring, restored, published>> PROVE RestInv'
  <2>1. ToldInv' /\ FilesInv'
    BY <1>5, <1>t DEF RestInv, ToldInv, FilesInv, Latest
  <2>2. \A c \in Partitions : Beyond(c)' = Beyond(c)
    BY <1>5 DEF Beyond, Listed
  <2>3. DueInv'
    BY <1>5, <2>2, <1>t, LifecycleAssumption DEF RestInv, DueInv, Due
  <2> QED
    BY <1>5, <2>1, <2>3, <1>t DEF RestInv
<1>6. CASE Export \/ OpenLatest \/ UNCHANGED vars \/ \E b \in Partitions : FindLatest(b)
  BY <1>5, <1>6 DEF Export, OpenLatest, FindLatest, vars
<1> QED
  BY <1>1, <1>2, <1>3, <1>4, <1>6, SafeWipe DEF Next

LEMMA CalmSettled ==
    ASSUME Safe, Whole, CalmInv
    PROVE  Settled
<1>1. SUFFICES ASSUME count["crash"] + count["fault"] + count["import"] = 0
               PROVE  RetentionBound /\ FilesMatchRows /\ ProgressAgreesWithRow
  BY DEF Settled
<1>2. TypeOK
  BY DEF Safe
<1>3. Calm
  <2> DEFINE c == count["crash"]
             f == count["fault"]
             i == count["import"]
  <2>1. c \in Nat /\ f \in Nat /\ i \in Nat
    BY <1>2 DEF TypeOK, Events
  <2>2. c + f + i = 0
    BY <1>1
  <2> HIDE DEF c, f, i
  <2>3. c = 0 /\ f = 0 /\ i = 0
    BY <2>1, <2>2
  <2> QED
    BY <2>3 DEF c, f, i, Calm
<1>4. ToldInv /\ FilesInv /\ DueInv
  BY <1>3 DEF CalmInv, RestInv
<1>5. ASSUME Quiescent, NEW h \in Runs
      PROVE  pc[h] \notin {"persisted", "recorded", "listing", "pruning", "dropping"}
  BY <1>5 DEF Quiescent, InFlight, Ended
<1>6. ASSUME Quiescent, NEW b \in Boms
      PROVE  Cardinality(Listed(b)) <= Keep
  <2>1. Beyond(b) = {}
    BY <1>4, <1>5, <1>6 DEF DueInv, Due
  <2>2. \A r \in Listed(b) : ~ (Cardinality({s \in Listed(b) : s > r}) >= Keep)
    BY <2>1 DEF Beyond
  <2>3. IsFiniteSet(Listed(b)) /\ Listed(b) \in SUBSET Nat
    BY ListedFinite, LifecycleAssumption DEF Listed
  <2>4. ASSUME NEW r \in Listed(b)
        PROVE  Cardinality({s \in Listed(b) : s > r}) < Keep
    <3> DEFINE rows == {s \in Listed(b) : s > r}
    <3>1. rows \in SUBSET Listed(b) /\ ~ (Cardinality(rows) >= Keep)
      BY <2>2
    <3> HIDE DEF rows
    <3>2. Cardinality(rows) \in Nat
      BY <2>3, <3>1, FS_Subset, FS_CardinalityType
    <3>3. Cardinality(rows) < Keep
      BY <3>1, <3>2, LifecycleAssumption
    <3> QED
      BY <3>3 DEF rows
  <2> QED
    BY <2>3, <2>4, FewGreater, LifecycleAssumption
<1>7. RetentionBound
  BY <1>6 DEF RetentionBound
<1>8. FilesMatchRows
  <2>1. ASSUME Quiescent, NEW r \in Runs PROVE r \in blobs <=> row[r] = "succeeded"
    BY <1>4, <1>5, <2>1 DEF FilesInv
  <2> QED
    BY <1>2, <2>1 DEF FilesMatchRows, TypeOK
<1>9. ProgressAgreesWithRow
  <2>1. ASSUME NEW r \in Runs, progress[r] = "succeeded" PROVE row[r] \in {"succeeded", "none"}
    <3>1. r \in published
      <4>1. pc[r] \in Steps /\ pc[r] \notin {"lost", "aborted"}
        BY <1>2, <1>4 DEF ToldInv, TypeOK
      <4> QED
        BY <1>4, <2>1, <4>1 DEF ToldInv, Steps, Pending
    <3> QED
      BY <3>1 DEF Whole, SpentInv
  <2>2. ASSUME NEW r \in Runs, pc[r] = "done" PROVE row[r] \in {progress[r], "none"}
    BY <1>4, <2>2 DEF ToldInv, Whole, SpentInv
  <2> QED
    BY <2>1, <2>2 DEF ProgressAgreesWithRow
<1> QED
  BY <1>7, <1>8, <1>9

\* Whatever the number of runs, the retention limit and the order in which the
\* handlers' calls interleave, as long as no restart, failing call, import or wipe
\* happens: once no handler is active a BOM has at most Keep succeeded rows (runs
\* without a BOM are never pruned), the files are those of the rows, and a poller
\* was told what the rows say.
THEOREM StoreSettles == Spec => [](Unwiped => Settled)
<1>1. Safe /\ [Next]_vars /\ Unwiped' => Safe'
  BY SafeStep
<1>2. Safe /\ Whole /\ [Next]_vars /\ Unwiped' => Whole'
  BY WholeStep
<1>3. Safe /\ Whole /\ CalmInv /\ [Next]_vars /\ Unwiped' => CalmInv'
  BY CalmStep
<1>4. Safe /\ Whole /\ CalmInv => Settled
  BY CalmSettled
<1> QED
  BY <1>1, <1>2, <1>3, <1>4, TypeInit, TypeStep, UnwipedBefore, SafeInit, WholeInit,
     CalmInit, PTL DEF Spec

------------------------------------------------------------------------------
(***************************************************************************)
(* What a wipe removed stays removed, where no archive is imported.  A run *)
(* that had ended when the tables were dropped has no handler any more,    *)
(* and nobody else writes its row or its file; the file goes with the      *)
(* first wipe, this or a later one, that gets through all blobs.           *)
(***************************************************************************)

\* No archive has been imported yet.
Unimported == count["import"] = 0

WipedInv ==
    /\ restoring = {} /\ restored = 0
    /\ \A r \in wiped :
          /\ Ended(r)
          /\ row[r] = "none"
          /\ wiping = "deleting" /\ r \in blobs => r \in doomed
          /\ wiping = "swept" => r \notin blobs

LEMMA WipedInit == Init => WipedInv
  BY DEF Init, WipedInv

LEMMA WipedHandle ==
    ASSUME TypeOK, WipedInv, NEW h \in Runs, Handle(h)
    PROVE  WipedInv'
<1> USE DEF handler, store, exchange, wipe, reader, history, At, Goto
<1>1. UNCHANGED <<restoring, restored, wiping, doomed, wiped>>
  BY DEF Handle, RecordRunning, StartProgress, Compile, Persist, RecordSucceeded,
         CompleteProgress, SkipPrune, Abort, ListStale, PruneBlob, PruneRow, FailProgress, RecordFailed
<1>2. wiped \subseteq Runs
  BY DEF TypeOK
<1>3. ~ Ended(h) /\ \A r \in Runs : r # h => pc'[r] = pc[r]
  <2>1. ~ Ended(h)
    BY DEF Ended, Handle, RecordRunning, StartProgress, Compile, Persist, RecordSucceeded,
           CompleteProgress, SkipPrune, Abort, ListStale, PruneBlob, PruneRow, FailProgress, RecordFailed
  <2>2. ASSUME NEW r \in Runs, r # h PROVE pc'[r] = pc[r]
    BY <2>2 DEF TypeOK, Handle, RecordRunning, StartProgress, Compile, Persist, RecordSucceeded,
           CompleteProgress, SkipPrune, Abort, ListStale, PruneBlob, PruneRow, FailProgress, RecordFailed
  <2> QED
    BY <2>1, <2>2
<1>4. ASSUME NEW s \in Runs, NEW status \in Status, WriteRow(s, status), NEW r \in Runs
      PROVE  row'[r] = row[r] \/ (r = s /\ row'[r] = status)
  BY <1>4 DEF WriteRow, TypeOK
<1>5. ASSUME NEW r \in Runs, r # h
      PROVE  /\ row'[r] \in {row[r], "none"}
             /\ r \in blobs' => r \in blobs
  <2>1. ASSUME NEW status \in Status, WriteRow(h, status), blobs' = blobs
        PROVE  /\ row'[r] \in {row[r], "none"}
               /\ r \in blobs' => r \in blobs
    BY <1>4, <1>5, <2>1
  <2>2. CASE RecordRunning(h) \/ RecordSucceeded(h) \/ RecordFailed(h)
    BY <2>1, <2>2 DEF RecordRunning, RecordSucceeded, RecordFailed, Status
  <2>3. CASE PruneRow(h)
    <3>1. PICK s \in stale[h] : WriteRow(s, "none")
      BY <2>3 DEF PruneRow, Latest
    <3>2. s \in Runs /\ blobs' = blobs
      BY <2>3 DEF PruneRow, TypeOK
    <3> QED
      BY <1>4, <3>1, <3>2 DEF Status
  <2>4. CASE PruneBlob(h) \/ Persist(h)
    BY <1>5, <2>4 DEF PruneBlob, Persist
  <2>5. CASE StartProgress(h) \/ Compile(h) \/ CompleteProgress(h) \/ ListStale(h)
             \/ SkipPrune(h) \/ FailProgress(h) \/ Abort(h)
    BY <2>5 DEF StartProgress, Compile, CompleteProgress, ListStale, SkipPrune, FailProgress, Abort
  <2> QED
    BY <2>2, <2>3, <2>4, <2>5 DEF Handle
<1>6. \A r \in wiped : r \in Runs /\ r # h
  BY <1>2, <1>3 DEF WipedInv
<1>7. \A r \in wiped : Ended(r)'
  BY <1>3, <1>6 DEF WipedInv, Ended
<1> QED
  BY <1>1, <1>5, <1>6, <1>7 DEF WipedInv

LEMMA WipedStep ==
    ASSUME Unimported', TypeOK, WipedInv, [Next]_vars
    PROVE  WipedInv'
<1> USE DEF handler, store, exchange, wipe, reader, history, Ended
<1>1. ASSUME NEW r \in Runs, NEW b \in Partitions, Accept(r, b) PROVE WipedInv'
  BY <1>1 DEF Accept, At, Goto, TypeOK, WipedInv
<1>2. CASE Export
  BY <1>2 DEF Export, WipedInv
<1>3. ~ Import
  <2> SUFFICES ASSUME StartImport PROVE FALSE
    BY DEF Import, RestoreBlob, RestoreRow, Latest, WipedInv
  <2> DEFINE n == count["import"] + 1
  <2>1. count' = [count EXCEPT !["import"] = n] /\ count \in [Events -> Nat]
    BY DEF StartImport, Happens, TypeOK
  <2>2. n \in Nat \ {0}
    BY <2>1 DEF Events
  <2> HIDE DEF n
  <2>3. count'["import"] = n
    BY <2>1 DEF Events
  <2> QED
    BY <2>2, <2>3 DEF Unimported
<1>4. CASE DropTables
  BY <1>4 DEF DropTables, WipedInv, TypeOK
<1>5. CASE KeepTables \/ ListBlobs \/ BreakWipe \/ EndWipe
  BY <1>5 DEF KeepTables, ListBlobs, BreakWipe, EndWipe, WipedInv
<1>6. ASSUME NEW r \in Runs, WipeBlob(r) PROVE WipedInv'
  BY <1>6 DEF WipeBlob, WipedInv
<1>7. CASE Crash
  BY <1>7 DEF Crash, InFlight, WipedInv, TypeOK
<1>8. CASE OpenLatest \/ UNCHANGED vars \/ \E b \in Partitions : FindLatest(b)
  BY <1>8 DEF OpenLatest, FindLatest, vars, WipedInv
<1> QED
  BY <1>1, <1>2, <1>3, <1>4, <1>5, <1>6, <1>7, <1>8, WipedHandle DEF Next, Wipe

LEMMA WipedGone == WipedInv => WipedStaysGone
  BY DEF WipedInv, WipedStaysGone

\* A run that had ended when "Wipe local state" dropped the runs table never shows
\* up again, through a handler or a prune in flight meanwhile, and its file is gone
\* once a wipe, this or a later one, got through all blobs: for any number of
\* wipes, broken ones among them, restarts and failing calls, as long as no archive
\* is imported (which is there to bring runs back).
THEOREM WipedForGood == Spec => [](Unimported => WipedStaysGone)
<1>1. TypeOK /\ WipedInv /\ [Next]_vars /\ Unimported' => WipedInv'
  BY WipedStep
<1>2. TypeOK /\ [Next]_vars /\ Unimported' => Unimported
  BY NotYet DEF Unimported, Events
<1> QED
  BY <1>1, <1>2, TypeInit, TypeStep, WipedInit, WipedGone, PTL DEF Spec

------------------------------------------------------------------------------
(***************************************************************************)
(* Wipes.  RunLifecycle_wiperace shows a wipe that leaves a row without its *)
(* file; here the window it takes: where no analysis stands between its    *)
(* file and its row or is pruning, and no import runs, while a wipe works, *)
(* any number of wipes that drop the runs table leaves the latest run of   *)
(* every BOM with its file.                                                *)
(*                                                                         *)
(* The newest run ever listed is of no use as a witness here, a wipe takes *)
(* it too.  The invariant follows the runs that are listed now: one that   *)
(* may lack its file has a newer one listed, and what leaves the list has  *)
(* a newer one that stays.                                                 *)
(***************************************************************************)
\* No wipe goes on to the blobs after failing to drop the runs table.
DropsWhole == [][~ KeepTables]_vars

WipeAside ==
    WipeUnderWay =>
        /\ restoring = {}
        /\ \A r \in Runs : pc[r] \notin {"persisted", "pruning", "dropping"}

\* A newer run of the same BOM is listed.
Beaten(s) == \E t \in Runs : bomOf[t] = bomOf[s] /\ row[t] = "succeeded" /\ t > s

\* No reader that picks this run as the latest misses its file.
Openable(s) == s \in blobs \/ Beaten(s)

RowsInv == \A r \in Runs : row[r] = "succeeded" => r \in published /\ Openable(r)

CopyInv ==
    /\ archive \subseteq published /\ restoring \subseteq published
    /\ restored # 0 => restored \in restoring /\ Openable(restored)

StaleInv ==
    \A h \in Runs : /\ stale[h] # {} => pc[h] \in {"pruning", "dropping"}
                    /\ \A s \in stale[h] : s \in published /\ Beaten(s)

DroppedInv == wiping \in {"listing", "deleting"} => \A r \in Runs : row[r] # "succeeded"

AsideInv ==
    /\ TypeOK
    /\ AcceptedInv /\ EndedInv /\ RowsInv /\ CopyInv /\ StaleInv /\ DroppedInv

LEMMA AsideInit == Init => AsideInv
<1> SUFFICES ASSUME Init PROVE AsideInv
  OBVIOUS
<1>1. TypeOK
  BY TypeInit
<1> QED
  BY <1>1 DEF Init, AsideInv, AcceptedInv, EndedInv, RowsInv, CopyInv, StaleInv, DroppedInv

\* Rows that stay listed keep others beaten.
LEMMA BeatenStays ==
    ASSUME bomOf' = bomOf,
           \A t \in Runs : row[t] = "succeeded" => row'[t] = "succeeded"
    PROVE  /\ \A s \in Runs : Beaten(s) => Beaten(s)'
           /\ blobs \subseteq blobs' => \A s \in Runs : Openable(s) => Openable(s)'
  BY DEF Beaten, Openable

\* A step of a handler that neither lists a run nor prunes one.
LEMMA AsideMove ==
    ASSUME AsideInv, TypeOK', NEW r \in Runs,
           pc[r] \notin {"idle", "pruning", "dropping"},
           \A s \in Runs \ {r} : pc'[s] = pc[s] /\ row'[s] = row[s],
           pc'[r] # "idle",
           pc'[r] = "persisted" => r \in blobs',
           pc[r] \notin Pending => pc'[r] \notin Pending,
           row'[r] = row[r] \/ (row[r] # "succeeded" /\ row'[r] # "succeeded"),
           blobs \subseteq blobs',
           UNCHANGED <<bomOf, stale, archive, restoring, restored, wiping, published>>
    PROVE  AsideInv'
<1>1. \A t \in Runs : row[t] = "succeeded" <=> row'[t] = "succeeded"
  OBVIOUS
<1>2. \A s \in Runs : /\ Beaten(s) => Beaten(s)'
                      /\ Openable(s) => Openable(s)'
  BY <1>1, BeatenStays
<1>3. published \subseteq Runs /\ restored \in Runs \cup {0} /\ stale \in [Runs -> SUBSET Runs]
  BY DEF AsideInv, TypeOK
<1>4. AcceptedInv'
  BY DEF AsideInv, AcceptedInv
<1>5. EndedInv'
  BY <1>3 DEF AsideInv, EndedInv
<1>6. RowsInv'
  BY <1>1, <1>2 DEF AsideInv, RowsInv
<1>7. CopyInv'
  BY <1>2, <1>3, LifecycleAssumption DEF AsideInv, CopyInv
<1>8. StaleInv'
  BY <1>2, <1>3 DEF AsideInv, StaleInv
<1>9. DroppedInv'
  BY <1>1 DEF AsideInv, DroppedInv
<1> QED
  BY <1>4, <1>5, <1>6, <1>7, <1>8, <1>9 DEF AsideInv

LEMMA AsideAccept ==
    ASSUME AsideInv, TypeOK', NEW r \in Runs, NEW b \in Partitions, Accept(r, b)
    PROVE  AsideInv'
<1> USE DEF store, exchange, wipe, reader, history, At, Goto
<1>1. /\ pc[r] = "idle" /\ pc'[r] = "accepted" /\ bomOf'[r] = b
      /\ \A s \in Runs \ {r} : pc'[s] = pc[s] /\ bomOf'[s] = bomOf[s]
      /\ UNCHANGED <<stale, row, blobs, archive, restoring, restored, wiping, published>>
  BY DEF Accept, AsideInv, TypeOK
<1>2. published \subseteq Runs /\ restored \in Runs \cup {0} /\ stale \in [Runs -> SUBSET Runs]
  BY DEF AsideInv, TypeOK
<1>3. r \notin published /\ row[r] # "succeeded"
  BY <1>1 DEF AsideInv, EndedInv, RowsInv, Pending
<1>4. \A s \in Runs \ {r} : /\ Beaten(s) => Beaten(s)'
                            /\ Openable(s) => Openable(s)'
  BY <1>1, <1>3 DEF Beaten, Openable
<1>5. AcceptedInv' /\ EndedInv'
  BY <1>1, <1>2, <1>3 DEF AsideInv, AcceptedInv, EndedInv
<1>6. RowsInv' /\ CopyInv'
  BY <1>1, <1>2, <1>3, <1>4, LifecycleAssumption DEF AsideInv, RowsInv, CopyInv
<1>7. StaleInv'
  BY <1>1, <1>2, <1>3, <1>4 DEF AsideInv, StaleInv
<1>8. DroppedInv'
  BY <1>1 DEF AsideInv, DroppedInv
<1> QED
  BY <1>5, <1>6, <1>7, <1>8 DEF AsideInv

LEMMA AsideRecordSucceeded ==
    ASSUME AsideInv, WipeAside, TypeOK', NEW r \in Runs, RecordSucceeded(r)
    PROVE  AsideInv'
<1> USE DEF store, exchange, wipe, reader, history, At, Goto
<1>1. /\ pc[r] = "persisted" /\ pc'[r] = "recorded" /\ ~ WipeUnderWay
      /\ \A s \in Runs \ {r} : pc'[s] = pc[s] /\ row'[s] = row[s]
      /\ row'[r] \in {"succeeded", row[r]}
      /\ row'[r] = "succeeded" => published' = published \cup {r}
      /\ row'[r] # "succeeded" => published' = published
      /\ UNCHANGED <<bomOf, stale, blobs, archive, restoring, restored, wiping>>
  BY NoWipeWriteRow DEF RecordSucceeded, AsideInv, WipeAside, TypeOK, Status
<1>2. published \subseteq Runs /\ restored \in Runs \cup {0} /\ stale \in [Runs -> SUBSET Runs]
  BY DEF AsideInv, TypeOK
<1>3. r \in blobs /\ bomOf[r] \in Partitions
  BY <1>1 DEF AsideInv, AcceptedInv
<1>4. \A s \in Runs : /\ Beaten(s) => Beaten(s)'
                      /\ Openable(s) => Openable(s)'
  BY <1>1, BeatenStays
<1>5. Openable(r)'
  BY <1>1, <1>3 DEF Openable
<1>6. published \subseteq published'
  BY <1>1
<1>7. AcceptedInv' /\ EndedInv'
  BY <1>1, <1>2, <1>3 DEF AsideInv, AcceptedInv, EndedInv, Pending
<1>8. RowsInv'
  BY <1>1, <1>4, <1>5, <1>6 DEF AsideInv, RowsInv
<1>9. CopyInv'
  BY <1>1, <1>2, <1>4, <1>6, LifecycleAssumption DEF AsideInv, CopyInv
<1>10. StaleInv'
  BY <1>1, <1>2, <1>4, <1>6 DEF AsideInv, StaleInv
<1>11. DroppedInv'
  BY <1>1 DEF DroppedInv, WipeUnderWay
<1> QED
  BY <1>7, <1>8, <1>9, <1>10, <1>11 DEF AsideInv

LEMMA AsideListStale ==
    ASSUME AsideInv, TypeOK', NEW r \in Runs, ListStale(r)
    PROVE  AsideInv'
<1> USE DEF store, exchange, wipe, reader, history, At, Goto
<1> DEFINE old == Beyond(bomOf[r])
<1>1. /\ pc[r] = "listing"
      /\ pc'[r] \in {"done", "pruning"} /\ (old # {} => pc'[r] = "pruning")
      /\ stale'[r] = old
      /\ \A s \in Runs \ {r} : pc'[s] = pc[s] /\ stale'[s] = stale[s]
      /\ UNCHANGED <<bomOf, row, blobs, archive, restoring, restored, wiping, published>>
  BY DEF ListStale, AsideInv, TypeOK
<1>2. published \subseteq Runs /\ restored \in Runs \cup {0} /\ stale \in [Runs -> SUBSET Runs]
  BY DEF AsideInv, TypeOK
<1>3. bomOf[r] \in Partitions
  BY <1>1 DEF AsideInv, AcceptedInv
<1>4. \A s \in old : s \in published /\ Beaten(s)
  BY <1>3, BeyondSuperseded DEF Listed, Beaten, AsideInv, RowsInv
<1> HIDE DEF old
<1>5. \A s \in Runs : /\ Beaten(s) => Beaten(s)'
                      /\ Openable(s) => Openable(s)'
  BY <1>1, BeatenStays
<1>6. AcceptedInv' /\ EndedInv'
  BY <1>1, <1>2 DEF AsideInv, AcceptedInv, EndedInv, Pending
<1>7. RowsInv' /\ DroppedInv'
  BY <1>1, <1>5 DEF AsideInv, RowsInv, DroppedInv
<1>8. CopyInv'
  BY <1>1, <1>2, <1>5, LifecycleAssumption DEF AsideInv, CopyInv
<1>9. StaleInv'
  BY <1>1, <1>2, <1>4, <1>5 DEF AsideInv, StaleInv
<1> QED
  BY <1>6, <1>7, <1>8, <1>9 DEF AsideInv

\* The blob a prune deletes is not one a reader may pick.
LEMMA AsidePruneBlob ==
    ASSUME AsideInv, TypeOK', NEW r \in Runs, PruneBlob(r)
    PROVE  AsideInv'
<1> USE DEF store, exchange, wipe, reader, history, At, Goto
<1>1. PICK s \in Latest(stale[r]) : blobs' \in {blobs, blobs \ {s}}
  BY DEF PruneBlob
<1>2. /\ pc[r] = "pruning" /\ pc'[r] = "dropping"
      /\ \A h \in Runs \ {r} : pc'[h] = pc[h]
      /\ UNCHANGED <<bomOf, stale, row, archive, restoring, restored, wiping, published>>
  BY DEF PruneBlob, AsideInv, TypeOK
<1>3. published \subseteq Runs /\ restored \in Runs \cup {0} /\ stale \in [Runs -> SUBSET Runs]
  BY DEF AsideInv, TypeOK
<1>4. s \in published /\ Beaten(s) /\ s \in Runs /\ pc[s] # "persisted"
  BY <1>3 DEF Latest, AsideInv, StaleInv, EndedInv, Pending
<1>5. \A t \in Runs : /\ Beaten(t) => Beaten(t)'
                      /\ Openable(t) => Openable(t)'
  BY <1>1, <1>2, <1>4 DEF Beaten, Openable
<1>6. AcceptedInv' /\ EndedInv'
  BY <1>1, <1>2, <1>3, <1>4 DEF AsideInv, AcceptedInv, EndedInv, Pending
<1>7. RowsInv' /\ DroppedInv'
  BY <1>2, <1>5 DEF AsideInv, RowsInv, DroppedInv
<1>8. CopyInv'
  BY <1>2, <1>3, <1>5, LifecycleAssumption DEF AsideInv, CopyInv
<1>9. StaleInv'
  BY <1>2, <1>3, <1>5 DEF AsideInv, StaleInv
<1> QED
  BY <1>6, <1>7, <1>8, <1>9 DEF AsideInv

\* What a prune takes off the list has a newer run that stays.
LEMMA AsidePruneRow ==
    ASSUME AsideInv, TypeOK', NEW r \in Runs, PruneRow(r)
    PROVE  AsideInv'
<1> USE DEF store, exchange, wipe, reader, history, At, Goto
<1>1. PICK s \in Latest(stale[r]) :
         /\ WriteRow(s, "none")
         /\ stale' = [stale EXCEPT ![r] = stale[r] \ {s}]
         /\ pc' = [pc EXCEPT ![r] = IF stale[r] = {s} THEN "done" ELSE "pruning"]
  BY DEF PruneRow
<1>2. published \subseteq Runs /\ restored \in Runs \cup {0} /\ stale \in [Runs -> SUBSET Runs]
  BY DEF AsideInv, TypeOK
<1>3. s \in published /\ Beaten(s) /\ s \in Runs /\ s \in stale[r]
  BY <1>2 DEF Latest, AsideInv, StaleInv
<1>4. /\ pc[r] = "dropping" /\ pc'[r] \in {"done", "pruning"}
      /\ stale'[r] # {} => pc'[r] = "pruning"
      /\ stale'[r] \subseteq stale[r]
      /\ \A h \in Runs \ {r} : pc'[h] = pc[h] /\ stale'[h] = stale[h]
  BY <1>1, <1>2, <1>3 DEF PruneRow, AsideInv, TypeOK
<1>5. /\ \A h \in Runs \ {s} : row'[h] = row[h]
      /\ row'[s] \in {"none", row[s]}
      /\ UNCHANGED <<bomOf, blobs, archive, restoring, restored, wiping, published>>
  BY <1>1, <1>3, NoWipeWriteRow DEF PruneRow, AsideInv, Status
<1>6. \A t \in Runs : /\ Beaten(t) => Beaten(t)'
                      /\ Openable(t) => Openable(t)'
  <2> SUFFICES ASSUME NEW t \in Runs, Beaten(t) PROVE Beaten(t)'
    BY <1>5 DEF Openable
  <2>1. PICK u \in Runs : bomOf[u] = bomOf[t] /\ row[u] = "succeeded" /\ u > t
    BY DEF Beaten
  <2>2. PICK v \in Runs : bomOf[v] = bomOf[s] /\ row[v] = "succeeded" /\ v > s
    BY <1>3 DEF Beaten
  <2>3. t \in Nat /\ u \in Nat /\ v \in Nat /\ s \in Nat
    BY <1>3, LifecycleAssumption
  <2>4. CASE u # s
    BY <2>1, <2>4, <1>5 DEF Beaten
  <2>5. CASE u = s
    <3>1. v # s /\ v > t /\ bomOf[v] = bomOf[t]
      BY <2>1, <2>2, <2>3, <2>5
    <3> QED
      BY <2>2, <3>1, <1>5 DEF Beaten
  <2> QED
    BY <2>4, <2>5
<1>7. AcceptedInv' /\ EndedInv'
  BY <1>2, <1>4, <1>5 DEF AsideInv, AcceptedInv, EndedInv, Pending
<1>8. RowsInv' /\ DroppedInv'
  BY <1>5, <1>6 DEF AsideInv, RowsInv, DroppedInv
<1>9. CopyInv'
  BY <1>2, <1>5, <1>6, LifecycleAssumption DEF AsideInv, CopyInv
<1>10. StaleInv'
  BY <1>2, <1>4, <1>5, <1>6 DEF AsideInv, StaleInv
<1> QED
  BY <1>7, <1>8, <1>9, <1>10 DEF AsideInv

LEMMA AsideHandle ==
    ASSUME AsideInv, WipeAside, TypeOK', NEW r \in Runs, Handle(r)
    PROVE  AsideInv'
<1> USE DEF handler, store, exchange, wipe, reader, history, At, Goto
<1>t. TypeOK
  BY DEF AsideInv
<1>p. pc[r] \in Pending => row[r] # "succeeded"
  BY DEF AsideInv, EndedInv, RowsInv
<1>1. CASE RecordRunning(r)
  <2>1. /\ pc[r] = "accepted" /\ pc'[r] = "registered"
        /\ \A s \in Runs \ {r} : pc'[s] = pc[s] /\ row'[s] = row[s]
        /\ row'[r] \in {"running", row[r]}
    BY <1>1, <1>t, NoWipeWriteRow DEF RecordRunning, TypeOK, Status
  <2> QED
    BY <1>1, <1>p, <2>1, AsideMove DEF RecordRunning, Pending
<1>2. CASE StartProgress(r)
  <2>1. /\ pc[r] = "registered" /\ pc'[r] = "compiling"
        /\ \A s \in Runs \ {r} : pc'[s] = pc[s]
    BY <1>2, <1>t DEF StartProgress, TypeOK
  <2> QED
    BY <1>2, <2>1, AsideMove DEF StartProgress, Pending
<1>3. CASE Compile(r)
  <2>1. /\ pc[r] \in {"compiling", "retrying"}
        /\ pc'[r] \in {"compiled", "failing", "retrying"}
        /\ \A s \in Runs \ {r} : pc'[s] = pc[s]
    BY <1>3, <1>t DEF Compile, TypeOK
  <2> QED
    BY <1>3, <2>1, AsideMove DEF Compile, Pending
<1>4. CASE Persist(r)
  <2>1. /\ pc[r] = "compiled" /\ pc'[r] \in {"persisted", "failing"}
        /\ pc'[r] = "persisted" => r \in blobs'
        /\ blobs \subseteq blobs'
        /\ \A s \in Runs \ {r} : pc'[s] = pc[s]
    BY <1>4, <1>t DEF Persist, TypeOK
  <2> QED
    BY <1>4, <2>1, AsideMove DEF Persist, Pending
<1>5. CASE CompleteProgress(r)
  <2>1. /\ pc[r] = "recorded" /\ pc'[r] = "listing"
        /\ \A s \in Runs \ {r} : pc'[s] = pc[s]
    BY <1>5, <1>t DEF CompleteProgress, TypeOK
  <2> QED
    BY <1>5, <2>1, AsideMove DEF CompleteProgress, Pending
<1>6. CASE FailProgress(r)
  <2>1. /\ pc[r] = "failing" /\ pc'[r] = "failed"
        /\ \A s \in Runs \ {r} : pc'[s] = pc[s]
    BY <1>6, <1>t DEF FailProgress, TypeOK
  <2> QED
    BY <1>6, <2>1, AsideMove DEF FailProgress, Pending
<1>7. CASE RecordFailed(r)
  <2>1. /\ pc[r] = "failed" /\ pc'[r] = "done"
        /\ \A s \in Runs \ {r} : pc'[s] = pc[s] /\ row'[s] = row[s]
        /\ row'[r] \in {"failed", row[r]}
    BY <1>7, <1>t, NoWipeWriteRow DEF RecordFailed, TypeOK, Status
  <2> QED
    BY <1>7, <1>p, <2>1, AsideMove DEF RecordFailed, Pending
<1>8. CASE SkipPrune(r)
  <2>1. /\ pc[r] = "listing" /\ pc'[r] = "done"
        /\ \A s \in Runs \ {r} : pc'[s] = pc[s]
    BY <1>8, <1>t DEF SkipPrune, TypeOK
  <2> QED
    BY <1>8, <2>1, AsideMove DEF SkipPrune, Pending
<1>9. CASE Abort(r)
  <2>1. /\ pc[r] \in {"accepted", "persisted", "failed"} /\ pc'[r] = "aborted"
        /\ \A s \in Runs \ {r} : pc'[s] = pc[s]
    BY <1>9, <1>t DEF Abort, TypeOK
  <2> QED
    BY <1>9, <2>1, AsideMove DEF Abort, Pending
<1> QED
  BY <1>1, <1>2, <1>3, <1>4, <1>5, <1>6, <1>7, <1>8, <1>9, AsideRecordSucceeded,
     AsideListStale, AsidePruneBlob, AsidePruneRow DEF Handle

LEMMA AsideExport ==
    ASSUME AsideInv, TypeOK', Export
    PROVE  AsideInv'
<1> USE DEF handler, store, exchange, wipe, reader, history
<1>1. archive' \subseteq published
  BY DEF Export, AsideInv, RowsInv, TypeOK
<1>2. /\ \A s \in Runs : Beaten(s) => Beaten(s)'
      /\ \A s \in Runs : Openable(s) => Openable(s)'
  BY BeatenStays DEF Export
<1>3. restored \in Runs \cup {0} /\ stale \in [Runs -> SUBSET Runs]
  BY DEF AsideInv, TypeOK
<1>4. AcceptedInv' /\ EndedInv' /\ RowsInv' /\ DroppedInv'
  BY <1>2 DEF Export, AsideInv, AcceptedInv, EndedInv, RowsInv, DroppedInv
<1>5. CopyInv'
  BY <1>1, <1>2, <1>3, LifecycleAssumption DEF Export, AsideInv, CopyInv
<1>6. StaleInv'
  BY <1>2, <1>3 DEF Export, AsideInv, StaleInv
<1> QED
  BY <1>4, <1>5, <1>6 DEF AsideInv

LEMMA AsideImport ==
    ASSUME AsideInv, WipeAside, TypeOK', Import
    PROVE  AsideInv'
<1> USE DEF handler, store, exchange, wipe, reader, history
<1>t. TypeOK
  BY DEF AsideInv
<1>s. restored \in Runs \cup {0} /\ stale \in [Runs -> SUBSET Runs] /\ 0 \notin Runs
  BY <1>t, LifecycleAssumption DEF TypeOK
<1>1. CASE StartImport
  <2>1. /\ UNCHANGED <<bomOf, pc, stale, row, blobs, restored, wiping, published>>
        /\ restored = 0 /\ archive' \subseteq published /\ restoring' \subseteq published
    BY <1>1 DEF StartImport, AsideInv, CopyInv
  <2>2. /\ \A s \in Runs : Beaten(s) => Beaten(s)'
        /\ \A s \in Runs : Openable(s) => Openable(s)'
    BY <2>1, BeatenStays
  <2>3. AcceptedInv' /\ EndedInv' /\ RowsInv' /\ DroppedInv' /\ CopyInv'
    BY <2>1, <2>2 DEF AsideInv, AcceptedInv, EndedInv, RowsInv, DroppedInv, CopyInv
  <2>4. StaleInv'
    BY <2>1, <2>2, <1>s DEF AsideInv, StaleInv
  <2> QED
    BY <2>3, <2>4 DEF AsideInv
<1>2. CASE RestoreBlob
  <2>1. /\ UNCHANGED <<bomOf, pc, stale, row, archive, wiping, published>>
        /\ blobs \subseteq blobs' /\ restoring' \subseteq restoring
        /\ restored' # 0 => restored' \in restoring' /\ restored' \in blobs'
    BY <1>2 DEF RestoreBlob, Latest
  <2>2. /\ \A s \in Runs : Beaten(s) => Beaten(s)'
        /\ \A s \in Runs : Openable(s) => Openable(s)'
    BY <2>1, BeatenStays
  <2>3. AcceptedInv' /\ EndedInv' /\ RowsInv' /\ DroppedInv'
    BY <2>1, <2>2 DEF AsideInv, AcceptedInv, EndedInv, RowsInv, DroppedInv
  <2>4. CopyInv'
    BY <2>1 DEF AsideInv, CopyInv, Openable
  <2>5. StaleInv'
    BY <2>1, <2>2, <1>s DEF AsideInv, StaleInv
  <2> QED
    BY <2>3, <2>4, <2>5 DEF AsideInv
<1>3. CASE RestoreRow
  <2>1. /\ restored \in Runs /\ restored \in restoring /\ restored \in published
        /\ Openable(restored) /\ ~ WipeUnderWay
    BY <1>3, <1>s DEF RestoreRow, AsideInv, CopyInv, WipeAside
  <2>2. /\ UNCHANGED <<bomOf, pc, stale, blobs, archive, wiping, published>>
        /\ restoring' \subseteq restoring /\ restored' = 0
        /\ \A s \in Runs \ {restored} : row'[s] = row[s]
        /\ row'[restored] \in {"succeeded", row[restored]}
    BY <1>3, <1>t, <2>1, NoWipeWriteRow DEF RestoreRow, Status
  <2>3. /\ \A s \in Runs : Beaten(s) => Beaten(s)'
        /\ \A s \in Runs : Openable(s) => Openable(s)'
    BY <2>2, BeatenStays
  <2>4. AcceptedInv' /\ EndedInv' /\ CopyInv' /\ DroppedInv'
    BY <2>1, <2>2 DEF AsideInv, AcceptedInv, EndedInv, CopyInv, DroppedInv, WipeUnderWay
  <2>5. RowsInv'
    BY <2>1, <2>2, <2>3 DEF AsideInv, RowsInv
  <2>6. StaleInv'
    BY <2>2, <2>3, <1>s DEF AsideInv, StaleInv
  <2> QED
    BY <2>4, <2>5, <2>6 DEF AsideInv
<1> QED
  BY <1>1, <1>2, <1>3 DEF Import

\* While the wipe works nothing is listed, restored or pruned.
LEMMA AsideWipe ==
    ASSUME AsideInv, WipeAside, WipeAside', TypeOK', Wipe, ~ KeepTables
    PROVE  AsideInv'
<1> USE DEF handler, store, exchange, wipe, reader, history
<1>t. TypeOK /\ 0 \notin Runs
  BY LifecycleAssumption DEF AsideInv
<1>1. CASE DropTables
  <2>1. /\ wiping' = "listing" /\ \A s \in Runs : row'[s] = "none"
        /\ UNCHANGED <<bomOf, pc, stale, blobs, archive, restoring, restored, published>>
    BY <1>1 DEF DropTables
  <2>2. /\ restoring = {} /\ restored = 0
        /\ \A h \in Runs : pc[h] \notin {"persisted", "pruning", "dropping"} /\ stale[h] = {}
    BY <2>1 DEF WipeUnderWay, WipeAside, AsideInv, CopyInv, StaleInv
  <2> QED
    BY <2>1, <2>2 DEF AsideInv, AcceptedInv, EndedInv, RowsInv, CopyInv, StaleInv, DroppedInv
<1>2. ASSUME WipeUnderWay, blobs' \subseteq blobs,
             UNCHANGED <<bomOf, pc, stale, row, archive, restoring, restored, published>>
      PROVE  AsideInv'
  <2>1. /\ restoring = {} /\ restored = 0
        /\ \A h \in Runs : pc[h] \notin {"persisted", "pruning", "dropping"} /\ stale[h] = {}
        /\ \A s \in Runs : row[s] # "succeeded"
    BY <1>2 DEF WipeUnderWay, WipeAside, AsideInv, CopyInv, StaleInv, DroppedInv
  <2> QED
    BY <1>2, <2>1 DEF AsideInv, AcceptedInv, EndedInv, RowsInv, CopyInv, StaleInv, DroppedInv
<1> QED
  BY <1>1, <1>2 DEF Wipe, WipeUnderWay, ListBlobs, WipeBlob, BreakWipe, EndWipe

LEMMA AsideCrash ==
    ASSUME AsideInv, TypeOK', Crash
    PROVE  AsideInv'
<1> USE DEF handler, store, exchange, wipe, reader, history
<1>1. /\ \A r \in Runs : pc'[r] = IF InFlight(r) THEN "lost" ELSE pc[r]
      /\ \A r \in Runs : stale'[r] = {}
      /\ restoring' = {} /\ restored' = 0 /\ ~ WipeUnderWay'
      /\ UNCHANGED <<bomOf, row, blobs, archive, published>>
  BY DEF Crash, WipeUnderWay
<1>2. published \subseteq Runs
  BY DEF AsideInv, TypeOK
<1>3. \A s \in Runs : Openable(s) => Openable(s)'
  BY <1>1, BeatenStays
<1>4. AcceptedInv' /\ EndedInv'
  BY <1>1, <1>2 DEF AsideInv, AcceptedInv, EndedInv, InFlight, Ended, Pending
<1>5. RowsInv' /\ CopyInv' /\ StaleInv' /\ DroppedInv'
  BY <1>1, <1>3 DEF WipeUnderWay, AsideInv, RowsInv, CopyInv, StaleInv, DroppedInv
<1> QED
  BY <1>4, <1>5 DEF AsideInv

\* A step that touches no run, file or row.
LEMMA AsideStill ==
    ASSUME AsideInv, TypeOK',
           UNCHANGED <<bomOf, pc, stale, row, blobs, archive, restoring, restored, wiping,
                       published>>
    PROVE  AsideInv'
<1>1. /\ \A s \in Runs : Beaten(s) => Beaten(s)'
      /\ \A s \in Runs : Openable(s) => Openable(s)'
  BY BeatenStays
<1>2. restored \in Runs \cup {0} /\ stale \in [Runs -> SUBSET Runs]
  BY DEF AsideInv, TypeOK
<1> QED
  BY <1>1, <1>2, LifecycleAssumption
     DEF AsideInv, AcceptedInv, EndedInv, RowsInv, CopyInv, StaleInv, DroppedInv

LEMMA AsideStep ==
    ASSUME AsideInv, WipeAside, WipeAside', [~ KeepTables]_vars, [Next]_vars
    PROVE  AsideInv'
<1> USE DEF handler, store, exchange, wipe, reader, history
<1>t. TypeOK'
  BY TypeStep DEF AsideInv
<1>1. ASSUME NEW b \in Partitions, FindLatest(b) PROVE AsideInv'
  BY <1>t, <1>1, AsideStill DEF FindLatest
<1>2. CASE OpenLatest
  BY <1>t, <1>2, AsideStill DEF OpenLatest
<1>3. CASE UNCHANGED vars
  BY <1>t, <1>3, AsideStill DEF vars
<1>4. ~ KeepTables \/ UNCHANGED vars
  OBVIOUS
<1> QED
  BY <1>t, <1>1, <1>2, <1>3, <1>4, AsideAccept, AsideHandle, AsideExport, AsideImport, AsideWipe,
     AsideCrash DEF Next

LEMMA AsideLatest == AsideInv => LatestHasBlob
<1> SUFFICES ASSUME AsideInv, NEW b \in Partitions, NEW r \in Latest(Listed(b))
             PROVE  r \in blobs
  BY DEF LatestHasBlob
<1>1. r \in Runs /\ bomOf[r] = b /\ row[r] = "succeeded" /\ \A s \in Listed(b) : s <= r
  BY DEF Latest, Listed
<1>2. ~ Beaten(r)
  <2> SUFFICES ASSUME NEW t \in Runs, bomOf[t] = b, row[t] = "succeeded", t > r PROVE FALSE
    BY <1>1 DEF Beaten
  <2>1. t <= r /\ t \in Nat /\ r \in Nat
    BY <1>1, LifecycleAssumption DEF Listed
  <2> QED
    BY <2>1
<1> QED
  BY <1>1, <1>2 DEF AsideInv, RowsInv, Openable

\* api/local_state_wipe and api/snapshots_latest: wipes, however many, whether they
\* break off among the blobs or get through, leave no partition's latest row without
\* its file, as long as every one of them drops the runs table.  It takes one that
\* goes on without (its rows keep pointing at what it deletes), or works while an
\* analysis stands between its file and its row, or is pruning, or while an import
\* runs.
THEOREM WipesAsideAreSafe == Spec /\ DropsWhole /\ []WipeAside => []LatestHasBlob
<1>1. AsideInv /\ WipeAside /\ WipeAside' /\ [~ KeepTables]_vars /\ [Next]_vars => AsideInv'
  BY AsideStep
<1> QED
  BY <1>1, AsideInit, AsideLatest, PTL DEF Spec, DropsWhole

------------------------------------------------------------------------------
(***************************************************************************)
(* Retention beside wipes.  A wipe takes the runs that have ended when it  *)
(* begins.  The invariant of retention (SpentInv) leaves those out, and    *)
(* holds across a wipe that drops the runs table and works while no        *)
(* analysis is past its compilation, whatever is exported, imported or     *)
(* restarted meanwhile.                                                    *)
(***************************************************************************)
WipeAlone ==
    WipeUnderWay =>
        \A r \in Runs : pc[r] \notin {"persisted", "recorded", "listing", "pruning", "dropping"}

\* What leaves the history, or is missed by a reader, was superseded or wiped.
SupersededOrWiped ==
    /\ \A r \in published \ wiped : row[r] = "none" => Superseded(r)
    /\ \A r \in missed \ wiped : Superseded(r)

LEMMA SaneInit == Init => Sane
<1> SUFFICES ASSUME Init PROVE Sane
  OBVIOUS
<1>1. TypeOK
  BY TypeInit
<1> QED
  BY <1>1 DEF Init, Sane, AcceptedInv, EndedInv, ListedInv, ExchangeInv

\* A handler lists its own run, when it has the file; what it deletes a prune
\* has listed, so that it is nobody's file before the row.
LEMMA SaneHandle ==
    ASSUME Sane, SpentInv, TypeOK', NEW r \in Runs, Handle(r)
    PROVE  Sane'
<1> USE DEF handler, store, exchange, wipe, reader, history, At, Goto
<1>t. TypeOK
  BY DEF Sane
<1>1. /\ bomOf' = bomOf
      /\ \A s \in Runs \ {r} : pc'[s] = pc[s]
      /\ pc[r] # "idle" /\ (pc[r] \notin Pending => pc'[r] \notin Pending)
      /\ pc'[r] = "persisted" => r \in blobs'
      /\ published' \in {published, published \cup {r}}
      /\ published' # published => pc'[r] \notin Pending
      /\ UNCHANGED <<archive, restoring, restored>>
  BY <1>t DEF Handle, RecordRunning, StartProgress, Compile, Persist, RecordSucceeded,
              CompleteProgress, SkipPrune, Abort, ListStale, PruneBlob, PruneRow, FailProgress, RecordFailed,
              TypeOK, Pending
<1>2. ASSUME NEW s \in blobs, s \notin blobs' PROVE s \in published
  <2>1. PruneBlob(r)
    BY <1>2 DEF Handle, RecordRunning, StartProgress, Compile, Persist, RecordSucceeded,
                CompleteProgress, SkipPrune, Abort, ListStale, PruneRow, FailProgress, RecordFailed
  <2> QED
    BY <1>2, <2>1 DEF PruneBlob, Latest, SpentInv
<1>3. ASSUME NEW s \in Runs, row'[s] = "succeeded" PROVE s \in published'
  <2>1. CASE row'[s] = row[s]
    BY <1>1, <1>3, <2>1 DEF Sane, ListedInv
  <2>2. CASE RecordSucceeded(r) /\ row'[s] # row[s]
    <3>1. s = r
      BY <2>2, <1>t, NoWipeWriteRow DEF RecordSucceeded, Status
    <3> QED
      BY <1>3, <2>2, <3>1 DEF RecordSucceeded
  <2>3. CASE PruneRow(r) /\ row'[s] # row[s]
    <3>1. PICK u \in stale[r] : WriteRow(u, "none")
      BY <2>3 DEF PruneRow, Latest
    <3>2. u \in Runs
      BY <1>t DEF TypeOK
    <3> QED
      BY <1>3, <2>3, <3>1, <3>2, <1>t, NoWipeWriteRow DEF Status
  <2>4. CASE (RecordRunning(r) \/ RecordFailed(r)) /\ row'[s] # row[s]
    BY <1>3, <2>4, <1>t, NoWipeWriteRow DEF RecordRunning, RecordFailed, Status
  <2> QED
    BY <2>1, <2>2, <2>3, <2>4
       DEF Handle, StartProgress, Compile, Persist, CompleteProgress, SkipPrune, Abort, ListStale, PruneBlob,
           FailProgress
<1>4. published \subseteq published' /\ published \subseteq Runs
  BY <1>1, <1>t DEF TypeOK
<1>5. AcceptedInv'
  <2>1. ASSUME NEW s \in Runs, s # r, pc[s] = "persisted" PROVE s \in blobs'
    BY <1>2, <2>1 DEF Sane, AcceptedInv, EndedInv, Pending
  <2> QED
    BY <1>1, <2>1 DEF Sane, AcceptedInv
<1>6. EndedInv'
  BY <1>1, <1>4 DEF Sane, EndedInv
<1>7. ListedInv' /\ ExchangeInv'
  BY <1>1, <1>3, <1>4 DEF Sane, ListedInv, ExchangeInv
<1> QED
  BY <1>5, <1>6, <1>7 DEF Sane

LEMMA SaneImport ==
    ASSUME Sane, TypeOK', Import
    PROVE  Sane'
<1> USE DEF handler, store, exchange, wipe, reader, history
<1>t. TypeOK
  BY DEF Sane
<1>1. /\ UNCHANGED <<bomOf, pc, published>> /\ blobs \subseteq blobs'
      /\ archive' \subseteq published /\ restoring' \subseteq published
      /\ restored' # 0 => restored' \in published
  BY DEF Import, StartImport, RestoreBlob, RestoreRow, Latest, Sane, ExchangeInv
<1>2. ASSUME NEW s \in Runs, row'[s] = "succeeded" PROVE s \in published
  <2>1. CASE row'[s] = row[s]
    BY <1>2, <2>1 DEF Sane, ListedInv
  <2>2. CASE row'[s] # row[s]
    <3>1. restored # 0 /\ WriteRow(restored, "succeeded")
      BY <2>2 DEF Import, StartImport, RestoreBlob, RestoreRow
    <3>2. restored \in published /\ restored \in Runs
      BY <3>1, <1>t DEF Sane, ExchangeInv, TypeOK
    <3> QED
      BY <2>2, <3>1, <3>2, <1>t, NoWipeWriteRow DEF Status
  <2> QED
    BY <2>1, <2>2
<1> QED
  BY <1>1, <1>2 DEF Sane, AcceptedInv, EndedInv, ListedInv, ExchangeInv

LEMMA SaneStep ==
    ASSUME Sane, SpentInv, WipeAlone, [Next]_vars
    PROVE  Sane'
<1> USE DEF handler, store, exchange, wipe, reader, history
<1>t. TypeOK /\ TypeOK'
  BY TypeStep DEF Sane
<1>1. ASSUME NEW r \in Runs, NEW b \in Partitions, Accept(r, b) PROVE Sane'
  <2>1. /\ pc[r] = "idle" /\ pc'[r] = "accepted" /\ bomOf'[r] = b
        /\ \A s \in Runs \ {r} : pc'[s] = pc[s] /\ bomOf'[s] = bomOf[s]
        /\ UNCHANGED <<row, blobs, archive, restoring, restored, published>>
    BY <1>1, <1>t DEF Accept, TypeOK, At, Goto
  <2>2. r \notin published /\ published \subseteq Runs
    BY <2>1, <1>t DEF Sane, EndedInv, Pending, TypeOK
  <2>3. AcceptedInv' /\ EndedInv' /\ ListedInv' /\ ExchangeInv'
    BY <2>1, <2>2 DEF Sane, AcceptedInv, EndedInv, ListedInv, ExchangeInv
  <2> QED
    BY <1>t, <2>3 DEF Sane
<1>2. CASE Export
  <2>1. archive' \subseteq published
    BY <1>2, <1>t DEF Export, Sane, ListedInv, TypeOK
  <2> QED
    BY <1>t, <1>2, <2>1 DEF Export, Sane, AcceptedInv, EndedInv, ListedInv, ExchangeInv
<1>3. CASE Wipe
  <2>1. /\ UNCHANGED <<bomOf, pc, archive, restoring, restored, published>>
        /\ \A s \in Runs : row'[s] = "succeeded" => row[s] = "succeeded"
        /\ blobs' # blobs => WipeUnderWay
    BY <1>3 DEF Wipe, WipeUnderWay, DropTables, KeepTables, ListBlobs, WipeBlob, BreakWipe,
                EndWipe
  <2>2. \A r \in Runs : pc[r] = "persisted" => r \in blobs'
    BY <2>1 DEF WipeAlone, Sane, AcceptedInv
  <2> QED
    BY <1>t, <2>1, <2>2 DEF Sane, AcceptedInv, EndedInv, ListedInv, ExchangeInv
<1>4. CASE Crash
  <2>1. /\ \A r \in Runs : pc'[r] = IF InFlight(r) THEN "lost" ELSE pc[r]
        /\ restoring' = {} /\ restored' = 0
        /\ UNCHANGED <<bomOf, row, blobs, archive, published>>
    BY <1>4 DEF Crash
  <2>2. published \subseteq Runs
    BY <1>t DEF TypeOK
  <2>3. AcceptedInv' /\ EndedInv' /\ ListedInv' /\ ExchangeInv'
    BY <2>1, <2>2
       DEF Sane, AcceptedInv, EndedInv, ListedInv, ExchangeInv, InFlight, Pending
  <2> QED
    BY <1>t, <2>3 DEF Sane
<1>5. CASE OpenLatest \/ UNCHANGED vars \/ \E b \in Partitions : FindLatest(b)
  BY <1>t, <1>5 DEF OpenLatest, FindLatest, vars, Sane, AcceptedInv, EndedInv, ListedInv,
                    ExchangeInv
<1> QED
  BY <1>t, <1>1, <1>2, <1>3, <1>4, <1>5, SaneHandle, SaneImport DEF Next

\* A wipe begins with the runs that have ended, and every published run has.
LEMMA SpentWipe ==
    ASSUME Sane, SpentInv, WipeAlone', Wipe, ~ KeepTables
    PROVE  SpentInv'
<1> USE DEF handler, store, exchange, wipe, reader, history
<1>t. TypeOK
  BY DEF Sane
<1>1. UNCHANGED <<published, bomOf, stale, reading, missed>>
  BY DEF Wipe, DropTables, KeepTables, ListBlobs, WipeBlob, BreakWipe, EndWipe
<1>2. \A r \in Runs : Superseded(r)' <=> Superseded(r)
  BY <1>1 DEF Superseded, Newer
<1>3. published \subseteq Runs /\ missed \subseteq Runs /\ \A h \in Runs : stale[h] \subseteq Runs
  BY <1>t DEF TypeOK
<1>4. published \subseteq wiped'
  <2>1. CASE DropTables
    <3>1. /\ WipeUnderWay' /\ pc' = pc
          /\ wiped' = {r \in Runs : Ended(r)}
      BY <2>1 DEF DropTables, WipeUnderWay
    <3>2. ASSUME NEW r \in published PROVE Ended(r)
      <4>1. r \in Runs /\ pc[r] \in Steps /\ pc[r] \notin Pending
        BY <1>t, <1>3 DEF TypeOK, Sane, EndedInv
      <4>2. pc[r] \notin {"persisted", "recorded", "listing", "pruning", "dropping"}
        BY <3>1, <4>1 DEF WipeAlone
      <4> QED
        BY <4>1, <4>2 DEF Steps, Pending, Ended
    <3> QED
      BY <1>3, <3>1, <3>2
  <2>2. CASE ~ DropTables
    <3>1. WipeUnderWay /\ wiped' = wiped
      BY <2>2 DEF Wipe, WipeUnderWay, ListBlobs, WipeBlob, BreakWipe, EndWipe
    <3> QED
      BY <3>1 DEF SpentInv
  <2> QED
    BY <2>1, <2>2
<1>5. \A r \in missed' : r \in published' /\ r \in wiped'
  BY <1>1, <1>4 DEF SpentInv
<1> QED
  BY <1>1, <1>2, <1>3, <1>4, <1>5 DEF SpentInv

LEMMA SpentAloneStep ==
    ASSUME Sane, SpentInv, WipeAlone, WipeAlone', [~ KeepTables]_vars, [Next]_vars
    PROVE  SpentInv'
<1>1. CASE Wipe /\ ~ KeepTables
  BY <1>1, SpentWipe
<1>2. CASE ~ Wipe
  <2>1. WipeUnderWay => \A r \in Runs : pc[r] # "persisted"
    BY DEF WipeAlone
  <2> QED
    BY <1>2, <2>1, SpentStep
<1>3. CASE UNCHANGED vars
  BY <1>3 DEF vars, handler, store, wipe, reader, history, SpentInv, Superseded, WipeUnderWay
<1> QED
  BY <1>1, <1>2, <1>3

LEMMA SpentOrWiped == SpentInv => SupersededOrWiped
  BY DEF SpentInv, SupersededOrWiped

\* api/local_state_wipe beside snapshot_store.prune_snapshots: wipes, however many,
\* broken ones among them, imports of archives from before them, and restarts in
\* their midst, confuse no prune, as long as every wipe drops the runs table.  A run
\* that had not ended when the last wipe began leaves the history, or is missed by a
\* reader, only when Keep newer runs of its BOM have succeeded.
THEOREM RetentionSurvivesWipes == Spec /\ DropsWhole /\ []WipeAlone => []SupersededOrWiped
<1>1. Sane /\ SpentInv /\ WipeAlone /\ [Next]_vars => Sane'
  BY SaneStep
<1>2. Sane /\ SpentInv /\ WipeAlone /\ WipeAlone' /\ [~ KeepTables]_vars /\ [Next]_vars
          => SpentInv'
  BY SpentAloneStep
<1> QED
  BY <1>1, <1>2, SaneInit, SpentInit, SpentOrWiped, PTL DEF Spec, DropsWhole
===============================================================================
