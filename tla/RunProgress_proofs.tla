-------------------------- MODULE RunProgress_proofs --------------------------
(***************************************************************************)
(* Proofs about RunProgress, for every number of runs, cap, phase count    *)
(* and bound.                                                              *)
(***************************************************************************)
EXTENDS RunProgress, FiniteSetTheorems, TLAPS

\* A quotient of naturals is a natural.
LEMMA DivNat ==
    ASSUME NEW a \in Nat, NEW b \in Nat \ {0}
    PROVE  a \div b \in Nat
OBVIOUS

\* A quotient is the greatest number whose product with the divisor fits.
LEMMA DivBounds ==
    ASSUME NEW a \in Nat, NEW b \in Nat \ {0}
    PROVE  b * (a \div b) <= a /\ a < b * (a \div b + 1)
OBVIOUS

LEMMA TimesMonotone ==
    ASSUME NEW b \in Nat, NEW m \in Nat, NEW n \in Nat, m <= n
    PROVE  b * m <= b * n /\ b * m \in Nat /\ b * n \in Nat
OBVIOUS

LEMMA DivGalois ==
    ASSUME NEW a \in Nat, NEW b \in Nat \ {0}, NEW n \in Nat
    PROVE  n <= a \div b <=> b * n <= a
<1>1. a \div b \in Nat
  BY DivNat
<1>2. ASSUME n <= a \div b PROVE b * n <= a
  <2>1. b * n <= b * (a \div b)
    BY <1>1, <1>2, TimesMonotone
  <2>2. b * (a \div b) <= a
    BY DivBounds
  <2> QED
    BY <1>1, <2>1, <2>2
<1>3. ASSUME ~(n <= a \div b) PROVE ~(b * n <= a)
  <2> DEFINE q == a \div b + 1
  <2>1. q \in Nat /\ q <= n
    BY <1>1, <1>3
  <2>2. a < b * q
    BY DivBounds
  <2> HIDE DEF q
  <2>3. b * q <= b * n /\ b * q \in Nat /\ b * n \in Nat
    BY <2>1, TimesMonotone
  <2> QED
    BY <2>2, <2>3
<1> QED
  BY <1>2, <1>3

LEMMA DivMonotone ==
    ASSUME NEW a \in Nat, NEW c \in Nat, NEW b \in Nat \ {0}, a <= c
    PROVE  a \div b <= c \div b
<1> DEFINE n == a \div b
<1>1. n \in Nat
  BY DivNat
<1>2. n <= a \div b
  BY <1>1
<1> HIDE DEF n
<1>3. b * n <= a
  BY <1>1, <1>2, DivGalois
<1>4. b * n <= c
  BY <1>1, <1>3
<1> QED
  BY <1>1, <1>4, DivGalois DEF n

\* A total cancels: finished phases count in full, whatever their item counts.
LEMMA DivCancel ==
    ASSUME NEW a \in Nat, NEW b \in Nat \ {0}, NEW t \in Nat \ {0}
    PROVE  (a * t) \div (b * t) = a \div b
<1>1. a * t \in Nat /\ b * t \in Nat \ {0}
  OBVIOUS
<1>2. ASSUME NEW n \in Nat
      PROVE  (b * t) * n <= a * t <=> b * n <= a
  <2>1. (b * t) * n = t * (b * n) /\ a * t = t * a /\ b * n \in Nat
    OBVIOUS
  <2>2. b * n <= a => t * (b * n) <= t * a
    BY <2>1, TimesMonotone
  <2>3. ASSUME ~(b * n <= a) PROVE ~(t * (b * n) <= t * a)
    <3>1. a + 1 <= b * n
      BY <2>1, <2>3
    <3>2. t * (a + 1) <= t * (b * n)
      BY <2>1, <3>1, TimesMonotone
    <3>3. t * (a + 1) = t * a + t /\ t * a \in Nat /\ t * (b * n) \in Nat
      BY <2>1
    <3> QED
      BY <3>2, <3>3
  <2> QED
    BY <2>1, <2>2, <2>3
<1> DEFINE p == (a * t) \div (b * t)
           q == a \div b
<1>3. p \in Nat /\ q \in Nat
  BY <1>1, DivNat
<1>4. ASSUME NEW n \in Nat PROVE n <= p <=> n <= q
  <2>1. n <= p <=> (b * t) * n <= a * t
    BY <1>1, DivGalois
  <2>2. n <= q <=> b * n <= a
    BY DivGalois
  <2> QED
    BY <2>1, <2>2, <1>2
<1> HIDE DEF p, q
<1>5. p = q
  BY <1>3, <1>4
<1> QED
  BY <1>5 DEF p, q

\* The percentage of an unfinished run (_compute_percent_locked) is a whole
\* number from 0 to 99, for any phase index, item count and total.
LEMMA ComputePercentRange ==
    ASSUME NEW phase \in Nat, NEW completed \in Nat, NEW total \in Nat
    PROVE  ComputePercent(phase, completed, total) \in 0..99
<1> DEFINE index == Least(phase, NPhases - 1)
           itemised == (100 * (index * total + Least(completed, total)))
                          \div (NPhases * total)
           plain == (100 * index) \div NPhases
<1>1. index \in Nat
  BY ProgressAssumption DEF Least
<1>2. plain \in Nat
  <2>1. 100 * index \in Nat
    BY <1>1
  <2> HIDE DEF index
  <2> QED
    BY <2>1, DivNat, ProgressAssumption
<1>3. ASSUME total > 0
      PROVE  itemised \in Nat
  <2>1. index * total \in Nat
    BY <1>1
  <2>2. 100 * (index * total + Least(completed, total)) \in Nat
    BY <2>1 DEF Least
  <2>3. NPhases * total \in Nat \ {0}
    BY <1>3, ProgressAssumption
  <2> HIDE DEF index
  <2> QED
    BY <2>2, <2>3, DivNat
<1>4. ComputePercent(phase, completed, total)
        = Least(99, IF total > 0 THEN itemised ELSE plain)
  BY DEF ComputePercent
<1> HIDE DEF itemised, plain
<1>5. (IF total > 0 THEN itemised ELSE plain) \in Nat
  BY <1>2, <1>3
<1> QED
  BY <1>4, <1>5 DEF Least

LEMMA HeldFinite ==
    ASSUME NEW table
    PROVE  IsFiniteSet(Held(table))
  BY ProgressAssumption, FS_Subset DEF Held

------------------------------------------------------------------------------
\* What one entry of the table may be: no record, or a well-formed record
\* that shows 100 % exactly when its run succeeded.
GoodEntry(e) ==
    \/ e = None
    \/ /\ e \in Record
       /\ e.percent = 100 <=> e.status = "succeeded"

EntriesGood ==
    /\ TypeOK
    /\ \A t \in Tokens : GoodEntry(progress[t])

\* Eviction keeps the entries it does not drop.
LEMMA EvictKeeps ==
    ASSUME NEW table \in [Tokens -> Record \cup {None}],
           NEW result \in Evict(table)
    PROVE  /\ result \in [Tokens -> Record \cup {None}]
           /\ \A t \in Tokens : result[t] = table[t] \/ result[t] = None
<1>1. CASE result = table
  BY <1>1
<1>2. CASE \E u \in Oldest(table) : result = [table EXCEPT ![u] = None]
  BY <1>2
<1> QED
  BY <1>1, <1>2 DEF Evict

LEMMA EntriesGoodInit == Init => EntriesGood
  BY ProgressAssumption DEF Init, EntriesGood, TypeOK, GoodEntry

\* Every record an operation writes is good if the one it found was.
LEMMA CountedGood ==
    ASSUME NEW rec \in Record, rec.status = "running", rec.percent # 100,
           NEW completed \in Nat, NEW total \in Nat, NEW s \in Nat
    PROVE  /\ Counted(rec, completed, total, s) \in Record
           /\ GoodEntry(Counted(rec, completed, total, s))
<1> DEFINE percent == ComputePercent(rec.phase, completed, total)
           kept == IF percent >= rec.percent THEN percent ELSE rec.percent
           new == [rec EXCEPT !.completed = completed, !.total = total, !.ts = s,
                              !.percent = kept]
<1>1. percent \in 0..99
  BY ComputePercentRange DEF Record
<1>2. Counted(rec, completed, total, s) = new
  BY DEF Counted
<1> HIDE DEF percent
<1>3. kept \in 0..100 /\ kept # 100
  BY <1>1 DEF Record
<1> HIDE DEF kept
<1>4. new \in Record /\ new.percent # 100 /\ new.status = "running"
  BY <1>3 DEF Record, Status
<1> HIDE DEF new
<1> QED
  BY <1>2, <1>4 DEF GoodEntry

LEMMA PhasedGood ==
    ASSUME NEW rec \in Record, rec.status = "running",
           NEW phase \in Nat, NEW total \in Nat, NEW s \in Nat
    PROVE  /\ Phased(rec, phase, total, s) \in Record
           /\ GoodEntry(Phased(rec, phase, total, s))
<1> DEFINE none == 0
           percent == ComputePercent(phase, none, total)
           new == [rec EXCEPT !.phase = phase, !.completed = none, !.total = total,
                              !.ts = s, !.percent = percent]
<1>2. Phased(rec, phase, total, s) = new
  BY DEF Phased
<1>z. none \in Nat
  OBVIOUS
<1> HIDE DEF none
<1>p. percent \in 0..99
  BY <1>z, ComputePercentRange
<1> HIDE DEF percent
<1>1. none \in Nat /\ percent \in 0..100 /\ percent # 100
  BY <1>z, <1>p
<1>3. new \in Record /\ new.percent # 100 /\ new.status = "running"
  BY <1>1 DEF Record
<1> HIDE DEF new
<1> QED
  BY <1>2, <1>3 DEF GoodEntry

LEMMA CompletedGood ==
    ASSUME NEW rec \in Record, GoodEntry(rec), NEW s \in Nat,
           NEW status \in {"succeeded", "failed"},
           ~(rec.status = "succeeded" /\ status = "failed")
    PROVE  /\ Completed(rec, status, s) \in Record
           /\ GoodEntry(Completed(rec, status, s))
<1>1. rec # None /\ status \in Status
  BY ProgressAssumption DEF Status
<1>2. CASE status = "succeeded"
  <2> DEFINE counted == IF rec.total > 0 THEN rec.total ELSE rec.completed
             full == 100
             new == [rec EXCEPT !.status = status, !.ts = s, !.percent = full,
                                !.completed = counted]
  <2>1. counted \in Nat /\ full \in 0..100 /\ full = 100
    BY DEF Record
  <2>2. Completed(rec, status, s) = new
    BY <1>2 DEF Completed
  <2> HIDE DEF counted, full
  <2>3. new \in Record
    BY <1>1, <2>1 DEF Record
  <2>4. new.percent = full /\ new.status = status
    BY DEF Record
  <2> HIDE DEF new
  <2> QED
    BY <1>2, <2>1, <2>2, <2>3, <2>4 DEF GoodEntry
<1>3. CASE status = "failed"
  BY <1>1, <1>3 DEF Completed, Record, Status, GoodEntry
<1> QED
  BY <1>2, <1>3

LEMMA EntriesGoodStep == EntriesGood /\ [Next]_vars => EntriesGood'
<1> SUFFICES ASSUME EntriesGood, [Next]_vars
             PROVE  EntriesGood'
  OBVIOUS
<1> USE DEF EntriesGood, TypeOK
<1>s. Stamps \subseteq Nat
  BY DEF Stamps
<1>1. ASSUME NEW t \in Tokens, NEW s \in Stamps, Start(t, s)
      PROVE  EntriesGood'
  <2> DEFINE rec == [status |-> "running", phase |-> 0, completed |-> 0, total |-> 0,
                     percent |-> 0, ts |-> s]
             table == [progress EXCEPT ![t] = rec]
  <2>1. rec \in Record /\ GoodEntry(rec)
    BY <1>s DEF Record, Status, GoodEntry
  <2>2. progress' \in Evict(table) /\ started' \in SUBSET Tokens /\ now' \in Nat
    BY <1>1 DEF Start
  <2> HIDE DEF rec
  <2>3. table \in [Tokens -> Record \cup {None}] /\ \A u \in Tokens : GoodEntry(table[u])
    BY <2>1
  <2> HIDE DEF table
  <2>4. /\ progress' \in [Tokens -> Record \cup {None}]
        /\ \A u \in Tokens : progress'[u] = table[u] \/ progress'[u] = None
    BY <2>2, <2>3, EvictKeeps
  <2> QED
    BY <2>2, <2>3, <2>4 DEF GoodEntry
<1>2. ASSUME NEW t \in Tokens, NEW s \in Stamps,
             NEW phase \in 0..(NPhases - 1), NEW total \in 0..MaxTotal,
             SetPhase(t, phase, total, s)
      PROVE  EntriesGood'
  <2> DEFINE new == Phased(progress[t], phase, total, s)
  <2>1. progress[t] \in Record /\ progress[t].status = "running"
    BY <1>2 DEF SetPhase, Running
  <2>2. phase \in Nat /\ total \in Nat /\ s \in Nat
    BY <1>s, ProgressAssumption
  <2>3. new \in Record /\ GoodEntry(new)
    BY <2>1, <2>2, PhasedGood
  <2>4. progress' = [progress EXCEPT ![t] = new] /\ UNCHANGED <<started, now>>
    BY <1>2 DEF SetPhase
  <2> HIDE DEF new
  <2> QED
    BY <2>3, <2>4
<1>3. ASSUME NEW t \in Tokens, NEW s \in Stamps, Increment(t, 1, s)
      PROVE  EntriesGood'
  <2> DEFINE new == Counted(progress[t], progress[t].completed + 1, progress[t].total, s)
  <2>1. progress[t] \in Record /\ progress[t].status = "running" /\ progress[t].percent # 100
    BY <1>3 DEF Increment, Running, GoodEntry
  <2>2. progress[t].completed + 1 \in Nat /\ progress[t].total \in Nat /\ s \in Nat
    BY <2>1, <1>s DEF Record
  <2>3. new \in Record /\ GoodEntry(new)
    BY <2>1, <2>2, CountedGood
  <2>4. progress' = [progress EXCEPT ![t] = new] /\ UNCHANGED <<started, now>>
    BY <1>3 DEF Increment
  <2> HIDE DEF new
  <2> QED
    BY <2>3, <2>4
<1>4. ASSUME NEW t \in Tokens, NEW s \in Stamps,
             NEW completed \in 0..MaxCompleted, NEW total \in 0..MaxTotal,
             SetProgress(t, completed, total, s)
      PROVE  EntriesGood'
  <2> DEFINE new == Counted(progress[t], completed, total, s)
  <2>1. progress[t] \in Record /\ progress[t].status = "running" /\ progress[t].percent # 100
    BY <1>4 DEF SetProgress, Running, GoodEntry
  <2>2. completed \in Nat /\ total \in Nat /\ s \in Nat
    BY <1>s, ProgressAssumption
  <2>3. new \in Record /\ GoodEntry(new)
    BY <2>1, <2>2, CountedGood
  <2>4. progress' = [progress EXCEPT ![t] = new] /\ UNCHANGED <<started, now>>
    BY <1>4 DEF SetProgress
  <2> HIDE DEF new
  <2> QED
    BY <2>3, <2>4
<1>5. ASSUME NEW t \in Tokens, NEW s \in Stamps,
             NEW status \in {"succeeded", "failed"}, Complete(t, status, s)
      PROVE  EntriesGood'
  <2> DEFINE new == Completed(progress[t], status, s)
  <2>1. /\ progress[t] \in Record /\ GoodEntry(progress[t])
        /\ ~(progress[t].status = "succeeded" /\ status = "failed")
    BY <1>5 DEF Complete
  <2>2. new \in Record /\ GoodEntry(new)
    BY <2>1, <1>s, CompletedGood
  <2>3. progress' = [progress EXCEPT ![t] = new] /\ UNCHANGED <<started, now>>
    BY <1>5 DEF Complete
  <2> HIDE DEF new
  <2> QED
    BY <2>2, <2>3
<1>6. CASE Tick
  BY <1>6 DEF Tick
<1>7. CASE Restart
  BY <1>7 DEF Restart, GoodEntry
<1>8. CASE UNCHANGED vars
  BY <1>8 DEF vars
<1> QED
  BY <1>1, <1>2, <1>3, <1>4, <1>5, <1>6, <1>7, <1>8 DEF Next

------------------------------------------------------------------------------
\* Only start() makes a table entry appear, and only for its own token.
Shrinks == \A u \in Tokens : progress[u] = None => progress'[u] = None

LEMMA OnlyStartAdds ==
    ASSUME TypeOK, [Next]_vars,
           ~ \E t \in Tokens, s \in Stamps : Start(t, s)
    PROVE  Shrinks /\ started' = started
<1> USE DEF Shrinks, TypeOK
<1>1. ASSUME NEW t \in Tokens, NEW s \in Stamps,
             NEW phase \in 0..(NPhases - 1), NEW total \in 0..MaxTotal,
             SetPhase(t, phase, total, s)
      PROVE  Shrinks /\ started' = started
  BY <1>1 DEF SetPhase, Running
<1>2. ASSUME NEW t \in Tokens, NEW s \in Stamps, Increment(t, 1, s)
      PROVE  Shrinks /\ started' = started
  BY <1>2 DEF Increment, Running
<1>3. ASSUME NEW t \in Tokens, NEW s \in Stamps,
             NEW completed \in 0..MaxCompleted, NEW total \in 0..MaxTotal,
             SetProgress(t, completed, total, s)
      PROVE  Shrinks /\ started' = started
  BY <1>3 DEF SetProgress, Running
<1>4. ASSUME NEW t \in Tokens, NEW s \in Stamps,
             NEW status \in {"succeeded", "failed"}, Complete(t, status, s)
      PROVE  Shrinks /\ started' = started
  BY <1>4 DEF Complete
<1>5. CASE Tick
  BY <1>5 DEF Tick
<1>6. CASE Restart
  BY <1>6 DEF Restart
<1>7. CASE UNCHANGED vars
  BY <1>7 DEF vars
<1> QED
  BY <1>1, <1>2, <1>3, <1>4, <1>5, <1>6, <1>7 DEF Next

\* The strengthening the table-level properties need: a record belongs to a
\* token start() was called with, and the cap holds.
TableInv ==
    /\ TypeOK
    /\ Held(progress) \subseteq started
    /\ TableBounded

LEMMA StartTable ==
    ASSUME TableInv, NEW t \in Tokens, NEW s \in Stamps, Start(t, s)
    PROVE  /\ Held(progress') \subseteq started'
           /\ Cardinality(Held(progress')) <= MaxRecords
<1> DEFINE rec == [status |-> "running", phase |-> 0, completed |-> 0, total |-> 0,
                   percent |-> 0, ts |-> s]
           table == [progress EXCEPT ![t] = rec]
<1>1. rec # None
  <2>1. rec \in Record
    BY DEF Record, Status, Stamps, TableInv, TypeOK
  <2> QED
    BY <2>1, ProgressAssumption
<1>2. progress' \in Evict(table) /\ started' = started \cup {t} /\ t \notin started
  BY DEF Start
<1> HIDE DEF rec
<1>3. Held(table) = Held(progress) \cup {t}
  BY <1>1 DEF Held, TableInv, TypeOK
<1>4. table \in [Tokens -> Record \cup {None, rec}]
  BY DEF TableInv, TypeOK
<1>5. t \notin Held(progress)
  BY <1>2 DEF TableInv
<1>6. /\ IsFiniteSet(Held(progress)) /\ IsFiniteSet(Held(table))
      /\ Cardinality(Held(table)) = Cardinality(Held(progress)) + 1
  BY <1>3, <1>5, HeldFinite, FS_AddElement
<1>7. Cardinality(Held(progress)) \in Nat /\ Cardinality(Held(progress)) <= MaxRecords
  BY <1>6, FS_CardinalityType DEF TableInv, TableBounded
<1> HIDE DEF table
<1>8. CASE progress' = table /\ Cardinality(Held(table)) <= MaxRecords
  BY <1>2, <1>3, <1>8 DEF TableInv
<1>9. ASSUME NEW u \in Oldest(table), progress' = [table EXCEPT ![u] = None]
      PROVE  /\ Held(progress') \subseteq started'
             /\ Cardinality(Held(progress')) <= MaxRecords
  <2>1. u \in Held(table)
    BY DEF Oldest
  <2>2. Held(progress') = Held(table) \ {u}
    BY <1>4, <1>9, <2>1 DEF Held
  <2>3. Cardinality(Held(progress')) = Cardinality(Held(table)) - 1
    BY <2>1, <2>2, <1>6, FS_RemoveElement
  <2> QED
    BY <2>2, <2>3, <1>2, <1>3, <1>6, <1>7, ProgressAssumption DEF TableInv
<1> QED
  BY <1>2, <1>8, <1>9 DEF Evict

LEMMA TableInvStep == TableInv /\ TypeOK' /\ [Next]_vars => TableInv'
<1> SUFFICES ASSUME TableInv, TypeOK', [Next]_vars
             PROVE  TableInv'
  OBVIOUS
<1>1. CASE \E t \in Tokens, s \in Stamps : Start(t, s)
  BY <1>1, StartTable DEF TableInv, TableBounded
<1>2. CASE ~ \E t \in Tokens, s \in Stamps : Start(t, s)
  <2>1. Shrinks /\ started' = started
    BY <1>2, OnlyStartAdds DEF TableInv
  <2>2. Held(progress') \subseteq Held(progress)
    BY <2>1 DEF Shrinks, Held
  <2>3. /\ Cardinality(Held(progress')) <= Cardinality(Held(progress))
        /\ Cardinality(Held(progress')) \in Nat /\ Cardinality(Held(progress)) \in Nat
    BY <2>2, HeldFinite, FS_Subset, FS_CardinalityType
  <2> QED
    BY <2>1, <2>2, <2>3, ProgressAssumption DEF TableInv, TableBounded
<1> QED
  BY <1>1, <1>2

LEMMA TableInvInit == Init => TableInv
<1> SUFFICES ASSUME Init PROVE TableInv
  OBVIOUS
<1>1. Held(progress) = {}
  BY DEF Init, Held
<1>2. Cardinality(Held(progress)) = 0
  BY <1>1, FS_EmptySet
<1> QED
  BY <1>1, <1>2, EntriesGoodInit, ProgressAssumption
     DEF TableInv, TableBounded, EntriesGood

------------------------------------------------------------------------------
\* run_progress.py only ever holds well-formed records.
THEOREM TypeCorrect == Spec => []TypeOK
<1>1. EntriesGood => TypeOK
  BY DEF EntriesGood
<1> QED
  BY <1>1, EntriesGoodInit, EntriesGoodStep, PTL DEF Spec

\* A progress bar is full exactly for the runs complete() was told succeeded.
THEOREM FullBarMeansSuccess == Spec => []HundredIffSucceeded
<1>1. EntriesGood => HundredIffSucceeded
  BY DEF EntriesGood, GoodEntry, HundredIffSucceeded, Held
<1> QED
  BY <1>1, EntriesGoodInit, EntriesGoodStep, PTL DEF Spec

LEMMA TableInvariant == Spec => []TableInv
  BY TypeCorrect, TableInvInit, TableInvStep, PTL DEF Spec

\* The table holds at most MaxRecords records in every reachable state.
THEOREM TableStaysBounded == Spec => []TableBounded
<1>1. TableInv => TableBounded
  BY DEF TableInv
<1> QED
  BY <1>1, TableInvariant, PTL

\* The two facts the run checks together: the table's cap and the meaning of a full
\* bar, for every number of tokens, phases and items.
THEOREM TableIsSound == Spec => []TableSound
<1>1. TableBounded /\ HundredIffSucceeded => TableSound
  BY DEF TableSound
<1> QED
  BY <1>1, TableStaysBounded, FullBarMeansSuccess, PTL

\* A token whose record is gone is never written again: late calls of a run
\* that was evicted are dropped.
THEOREM ForgottenForGood == Spec => ForgottenStaysForgotten
<1> DEFINE Step == \A t \in started : progress[t] = None => progress'[t] = None
<1>1. TableInv /\ [Next]_vars => [Step]_vars
  <2> SUFFICES ASSUME TableInv, [Next]_vars PROVE Step
    OBVIOUS
  <2>1. ASSUME NEW u \in Tokens, NEW s \in Stamps, Start(u, s)
        PROVE  Step
    <3> DEFINE table == [progress EXCEPT ![u] =
            [status |-> "running", phase |-> 0, completed |-> 0, total |-> 0,
             percent |-> 0, ts |-> s]]
    <3>1. progress' \in Evict(table) /\ u \notin started
      BY <2>1 DEF Start
    <3>2. \A t \in started : table[t] = progress[t]
      BY <3>1 DEF TableInv, TypeOK
    <3>3. DOMAIN table = Tokens
      BY DEF TableInv, TypeOK
    <3> HIDE DEF table
    <3>4. \A t \in Tokens : table[t] = None => progress'[t] = None
      BY <3>1, <3>3 DEF Evict, Oldest, Held
    <3> QED
      BY <3>2, <3>4 DEF TableInv, TypeOK
  <2>2. CASE ~ \E t \in Tokens, s \in Stamps : Start(t, s)
    BY <2>2, OnlyStartAdds DEF Shrinks, TableInv, TypeOK
  <2> QED
    BY <2>1, <2>2
<1> QED
  BY <1>1, TableInvariant, PTL DEF Spec, ForgottenStaysForgotten

------------------------------------------------------------------------------
\* No counter takes the bar further than the end of its phase, and a later phase
\* begins there or beyond.
Reached(phase) == Least(99, (100 * (phase + 1)) \div NPhases)

LEMMA ReachedInPhase ==
    ASSUME NEW phase \in Nat, phase < NPhases, NEW completed \in Nat, NEW total \in Nat
    PROVE  ComputePercent(phase, completed, total) <= Reached(phase)
<1>n. NPhases \in Nat \ {0}
  BY ProgressAssumption
<1>1. Least(phase, NPhases - 1) = phase
  BY <1>n DEF Least
<1> DEFINE whole == 100 * (phase + 1)
           done == 100 * (phase * total + Least(completed, total))
<1>2. whole \in Nat /\ 100 * phase \in Nat /\ 100 * phase <= whole
  OBVIOUS
<1>3. whole \div NPhases \in Nat
  BY <1>n, <1>2, DivNat
<1>4. CASE total > 0
  <2>1. done \in Nat /\ done <= whole * total
    <3>1. phase * total \in Nat /\ Least(completed, total) \in 0 .. total
      BY DEF Least
    <3>2. (phase + 1) * total = phase * total + total
      OBVIOUS
    <3>3. whole * total = 100 * ((phase + 1) * total)
      OBVIOUS
    <3> QED
      BY <3>1, <3>2, <3>3
  <2>2. whole * total \in Nat /\ NPhases * total \in Nat \ {0}
    BY <1>n, <1>2, <1>4
  <2> HIDE DEF whole, done
  <2>3. done \div (NPhases * total) <= (whole * total) \div (NPhases * total)
    BY <2>1, <2>2, DivMonotone
  <2>4. (whole * total) \div (NPhases * total) = whole \div NPhases
    BY <1>n, <1>2, <1>4, DivCancel
  <2>5. done \div (NPhases * total) \in Nat
    BY <2>1, <2>2, DivNat
  <2>6. ComputePercent(phase, completed, total) = Least(99, done \div (NPhases * total))
    BY <1>1, <1>4 DEF ComputePercent, done
  <2>7. Reached(phase) = Least(99, whole \div NPhases)
    BY DEF Reached, whole
  <2> QED
    BY <1>3, <2>3, <2>4, <2>5, <2>6, <2>7 DEF Least
<1>5. CASE total = 0
  <2>1. ComputePercent(phase, completed, total) = Least(99, (100 * phase) \div NPhases)
    BY <1>1, <1>5 DEF ComputePercent
  <2>2. Reached(phase) = Least(99, whole \div NPhases)
    BY DEF Reached
  <2> HIDE DEF whole
  <2>3. (100 * phase) \div NPhases <= whole \div NPhases /\ (100 * phase) \div NPhases \in Nat
    BY <1>n, <1>2, DivMonotone, DivNat
  <2> QED
    BY <1>3, <2>1, <2>2, <2>3 DEF Least
<1> QED
  BY <1>4, <1>5

LEMMA LaterPhaseBeginsThere ==
    ASSUME NEW phase \in Nat, NEW next \in Nat, phase < next, next < NPhases,
           NEW total \in Nat
    PROVE  Reached(phase) <= ComputePercent(next, 0, total)
<1>n. NPhases \in Nat \ {0}
  BY ProgressAssumption
<1> DEFINE end == 100 * (phase + 1)
           begin == 100 * next
<1>1. end \in Nat /\ begin \in Nat /\ end <= begin
  OBVIOUS
<1>2. Least(next, NPhases - 1) = next
  BY <1>n DEF Least
<1>3. Reached(phase) = Least(99, end \div NPhases)
  BY DEF Reached
<1>4. ComputePercent(next, 0, total) = Least(99, begin \div NPhases)
  <2>1. CASE total > 0
    <3>1. Least(0, total) = 0
      BY DEF Least
    <3>2. 100 * (next * total + 0) = begin * total
      OBVIOUS
    <3>3. (begin * total) \div (NPhases * total) = begin \div NPhases
      BY <1>n, <1>1, <2>1, DivCancel
    <3> QED
      BY <1>2, <2>1, <3>1, <3>2, <3>3 DEF ComputePercent
  <2>2. CASE total = 0
    BY <1>2, <2>2 DEF ComputePercent
  <2> QED
    BY <2>1, <2>2
<1> HIDE DEF end, begin
<1>5. /\ end \div NPhases <= begin \div NPhases
      /\ end \div NPhases \in Nat /\ begin \div NPhases \in Nat
  BY <1>n, <1>1, DivMonotone, DivNat
<1> QED
  BY <1>3, <1>4, <1>5 DEF Least

\* What a step may make of one entry of the table.
Dropped(t) == progress'[t] = None
Begun(t) == progress[t] = None /\ \E s \in Nat :
    progress'[t] = [status |-> "running", phase |-> 0, completed |-> 0, total |-> 0,
                    percent |-> 0, ts |-> s]
Entered(t) == Running(t) /\ \E phase \in Nat, total \in Nat, s \in Nat :
    /\ progress[t].phase <= phase /\ phase < NPhases
    /\ progress'[t] = Phased(progress[t], phase, total, s)
Moved(t) == Running(t) /\ \E completed \in Nat, total \in Nat, s \in Nat :
    progress'[t] = Counted(progress[t], completed, total, s)
Finished(t) == progress[t] # None /\ \E status \in {"succeeded", "failed"}, s \in Nat :
    /\ ~(progress[t].status = "succeeded" /\ status = "failed")
    /\ progress'[t] = Completed(progress[t], status, s)

Changed(t) == \/ progress'[t] = progress[t]
              \/ Dropped(t) \/ Begun(t) \/ Entered(t) \/ Moved(t) \/ Finished(t)

LEMMA EntryMoves ==
    ASSUME EntriesGood, TableInv, [Next]_vars
    PROVE  \A t \in Tokens : Changed(t)
<1> SUFFICES ASSUME NEW t \in Tokens
             PROVE  Changed(t)
  OBVIOUS
<1>s. Stamps \subseteq Nat
  BY DEF Stamps
<1>t. TypeOK
  BY DEF EntriesGood
<1>1. ASSUME NEW u \in Tokens, NEW s \in Stamps, Start(u, s)
      PROVE  Changed(t)
  <2> DEFINE rec == [status |-> "running", phase |-> 0, completed |-> 0, total |-> 0,
                     percent |-> 0, ts |-> s]
             table == [progress EXCEPT ![u] = rec]
  <2>1. rec \in Record /\ progress[u] = None
    BY <1>1, <1>s, <1>t DEF Record, Status, Start, TableInv, Held
  <2>2. progress' \in Evict(table)
    BY <1>1 DEF Start
  <2> HIDE DEF rec
  <2>3. /\ table \in [Tokens -> Record \cup {None}]
        /\ table[t] = IF t = u THEN rec ELSE progress[t]
    BY <2>1, <1>t DEF TypeOK
  <2> HIDE DEF table
  <2>4. progress'[t] = table[t] \/ progress'[t] = None
    BY <2>2, <2>3, EvictKeeps
  <2> USE DEF rec
  <2> QED
    BY <2>1, <2>3, <2>4, <1>s DEF Dropped, Begun, Changed
<1>2. ASSUME NEW u \in Tokens, NEW s \in Stamps,
             NEW phase \in 0..(NPhases - 1), NEW total \in 0..MaxTotal,
             SetPhase(u, phase, total, s)
      PROVE  Changed(t)
  <2>1. /\ Running(u) /\ progress[u].phase <= phase /\ progress[u] \in Record
        /\ progress' = [progress EXCEPT ![u] = Phased(progress[u], phase, total, s)]
    BY <1>2, <1>t, ProgressAssumption DEF SetPhase, Running, TypeOK, Record
  <2>2. phase \in Nat /\ total \in Nat /\ s \in Nat /\ phase < NPhases
    BY <1>s, ProgressAssumption
  <2> QED
    BY <1>t, <2>1, <2>2 DEF TypeOK, Entered, Changed
<1>3. ASSUME NEW u \in Tokens, NEW s \in Stamps, Increment(u, 1, s)
      PROVE  Changed(t)
  <2>1. /\ Running(u) /\ progress[u] \in Record
        /\ progress' = [progress EXCEPT ![u] =
              Counted(progress[u], progress[u].completed + 1, progress[u].total, s)]
    BY <1>3, <1>t DEF Increment, Running, TypeOK
  <2>2. progress[u].completed + 1 \in Nat /\ progress[u].total \in Nat /\ s \in Nat
    BY <1>s, <2>1 DEF Record
  <2> QED
    BY <1>t, <2>1, <2>2 DEF TypeOK, Moved, Changed
<1>4. ASSUME NEW u \in Tokens, NEW s \in Stamps,
             NEW completed \in 0..MaxCompleted, NEW total \in 0..MaxTotal,
             SetProgress(u, completed, total, s)
      PROVE  Changed(t)
  <2>1. /\ Running(u)
        /\ progress' = [progress EXCEPT ![u] = Counted(progress[u], completed, total, s)]
    BY <1>4 DEF SetProgress
  <2>2. completed \in Nat /\ total \in Nat /\ s \in Nat
    BY <1>s, ProgressAssumption
  <2> QED
    BY <1>t, <2>1, <2>2 DEF TypeOK, Moved, Changed
<1>5. ASSUME NEW u \in Tokens, NEW s \in Stamps,
             NEW status \in {"succeeded", "failed"}, Complete(u, status, s)
      PROVE  Changed(t)
  BY <1>5, <1>s, <1>t DEF Complete, TypeOK, Finished, Changed
<1>6. CASE Tick
  BY <1>6 DEF Tick, Changed
<1>7. CASE Restart
  BY <1>7 DEF Restart, Dropped, Changed
<1>8. CASE UNCHANGED vars
  BY <1>8 DEF vars, Changed
<1> QED
  BY <1>1, <1>2, <1>3, <1>4, <1>5, <1>6, <1>7, <1>8 DEF Next

\* A record that still runs is in one of the phases and shows no more than its end.
Paced(e) == e # None => /\ e.phase < NPhases
                        /\ e.status = "running" => e.percent <= Reached(e.phase)

PaceInv == \A t \in Tokens : Paced(progress[t])

LEMMA PaceInvInit == Init => PaceInv
  BY ProgressAssumption DEF Init, PaceInv, Paced

LEMMA ReachedRange ==
    ASSUME NEW phase \in Nat
    PROVE  Reached(phase) \in 0 .. 99
<1> DEFINE whole == 100 * (phase + 1)
<1>1. whole \in Nat /\ NPhases \in Nat \ {0}
  BY ProgressAssumption
<1>2. Reached(phase) = Least(99, whole \div NPhases)
  BY DEF Reached
<1> HIDE DEF whole
<1>3. whole \div NPhases \in Nat
  BY <1>1, DivNat
<1> QED
  BY <1>2, <1>3 DEF Least

LEMMA PaceInvStep == EntriesGood /\ TableInv /\ PaceInv /\ [Next]_vars => PaceInv'
<1> SUFFICES ASSUME EntriesGood, TableInv, PaceInv, [Next]_vars, NEW t \in Tokens
             PROVE  Paced(progress'[t])
  BY DEF PaceInv
<1>1. /\ progress[t] = None \/ progress[t] \in Record
      /\ Paced(progress[t]) /\ None \notin Record
  BY ProgressAssumption DEF EntriesGood, TypeOK, PaceInv
<1>2. CASE progress'[t] = progress[t]
  BY <1>1, <1>2
<1>3. CASE Dropped(t)
  BY <1>3 DEF Dropped, Paced
<1>4. CASE Begun(t)
  <2>1. Reached(0) \in 0 .. 99
    BY ReachedRange
  <2> QED
    BY <1>4, <2>1, ProgressAssumption DEF Begun, Paced
<1>5. CASE Entered(t)
  <2>1. PICK phase \in Nat, total \in Nat, s \in Nat :
            /\ progress[t].phase <= phase /\ phase < NPhases
            /\ progress'[t] = Phased(progress[t], phase, total, s)
    BY <1>5 DEF Entered
  <2>2. progress[t] \in Record
    BY <1>1, <1>5 DEF Entered, Running
  <2> DEFINE percent == ComputePercent(phase, 0, total)
  <2>3. percent <= Reached(phase)
    BY <2>1, ReachedInPhase
  <2>4. progress'[t] = [progress[t] EXCEPT !.phase = phase, !.completed = 0,
                            !.total = total, !.ts = s, !.percent = percent]
    BY <2>1 DEF Phased
  <2> HIDE DEF percent
  <2>5. progress'[t].phase = phase /\ progress'[t].percent = percent
    BY <2>2, <2>4 DEF Record
  <2> QED
    BY <2>1, <2>3, <2>5 DEF Paced
<1>6. CASE Moved(t)
  <2>1. PICK completed \in Nat, total \in Nat, s \in Nat :
            progress'[t] = Counted(progress[t], completed, total, s)
    BY <1>6 DEF Moved
  <2>2. progress[t] \in Record /\ progress[t].status = "running"
    BY <1>1, <1>6 DEF Moved, Running
  <2>3. progress[t].phase \in Nat /\ progress[t].phase < NPhases
    BY <1>1, <2>2 DEF Paced, Record
  <2> DEFINE percent == ComputePercent(progress[t].phase, completed, total)
             kept == IF percent >= progress[t].percent THEN percent ELSE progress[t].percent
  <2>4. percent <= Reached(progress[t].phase)
    BY <2>3, ReachedInPhase
  <2>5. progress[t].percent <= Reached(progress[t].phase)
    BY <1>1, <2>2 DEF Paced
  <2>6. progress'[t] = [progress[t] EXCEPT !.completed = completed, !.total = total,
                            !.ts = s, !.percent = kept]
    BY <2>1 DEF Counted
  <2> HIDE DEF percent
  <2>7. kept <= Reached(progress[t].phase)
    BY <2>4, <2>5
  <2> HIDE DEF kept
  <2>8. progress'[t].phase = progress[t].phase /\ progress'[t].percent = kept
    BY <2>2, <2>6 DEF Record
  <2> QED
    BY <2>3, <2>7, <2>8 DEF Paced
<1>7. CASE Finished(t)
  <2>1. PICK status \in {"succeeded", "failed"}, s \in Nat :
            progress'[t] = Completed(progress[t], status, s)
    BY <1>7 DEF Finished
  <2>2. progress[t] \in Record /\ progress[t].phase < NPhases
    BY <1>1, <1>7 DEF Finished, Paced
  <2>3. progress'[t].phase = progress[t].phase /\ progress'[t].status = status
    BY <2>1, <2>2 DEF Completed, Record
  <2> QED
    BY <2>2, <2>3 DEF Paced
<1> QED
  BY <1>2, <1>3, <1>4, <1>5, <1>6, <1>7, EntryMoves DEF Changed

LEMMA PaceInvariant == Spec => [](EntriesGood /\ TableInv /\ PaceInv)
<1>1. Init => EntriesGood /\ TableInv /\ PaceInv
  BY EntriesGoodInit, TableInvInit, PaceInvInit
<1>2. EntriesGood /\ TableInv /\ PaceInv /\ [Next]_vars => (EntriesGood /\ TableInv /\ PaceInv)'
  <2>1. EntriesGood /\ [Next]_vars => EntriesGood'
    BY EntriesGoodStep
  <2>2. EntriesGood => TypeOK
    BY DEF EntriesGood
  <2>3. EntriesGood' => TypeOK'
    BY DEF EntriesGood
  <2> QED
    BY <2>1, <2>3, TableInvStep, PaceInvStep
<1> QED
  BY <1>1, <1>2, PTL DEF Spec

\* While a record is held its bar moves back only when set_phase() enters the phase
\* it is in again: for every number of phases, however far the item counters of a
\* phase overshoot their total, and whatever totals the phases announce.
THEOREM BarMovesBackOnReentryOnly == Spec => PercentFallsOnlyOnReentry
<1> DEFINE Step == \A t \in Held(progress) \cap Held(progress') :
                      progress'[t].percent < progress[t].percent =>
                          /\ progress'[t].phase = progress[t].phase
                          /\ progress'[t].completed = 0
<1>1. EntriesGood /\ TableInv /\ PaceInv /\ [Next]_vars => [Step]_vars
  <2> SUFFICES ASSUME EntriesGood, TableInv, PaceInv, [Next]_vars,
                      NEW t \in Held(progress) \cap Held(progress'),
                      progress'[t].percent < progress[t].percent
               PROVE  progress'[t].phase = progress[t].phase /\ progress'[t].completed = 0
    OBVIOUS
  <2>1. /\ t \in Tokens /\ progress[t] \in Record /\ progress'[t] # None
        /\ Paced(progress[t]) /\ progress[t].percent \in 0 .. 100
    BY DEF Held, EntriesGood, TypeOK, PaceInv, Record
  <2>2. progress'[t] # progress[t] /\ ~Dropped(t) /\ ~Begun(t)
    BY <2>1, ProgressAssumption DEF Dropped, Begun, Held
  <2>3. ~Moved(t)
    <3> SUFFICES ASSUME NEW completed \in Nat, NEW total \in Nat, NEW s \in Nat,
                        progress'[t] = Counted(progress[t], completed, total, s)
                 PROVE  FALSE
      BY DEF Moved
    <3> DEFINE percent == ComputePercent(progress[t].phase, completed, total)
               kept == IF percent >= progress[t].percent THEN percent ELSE progress[t].percent
    <3>1. progress'[t] = [progress[t] EXCEPT !.completed = completed, !.total = total,
                              !.ts = s, !.percent = kept]
      BY DEF Counted
    <3>2. percent \in 0 .. 99
      BY <2>1, ComputePercentRange DEF Record
    <3> HIDE DEF percent
    <3>3. kept >= progress[t].percent
      BY <2>1, <3>2
    <3> HIDE DEF kept
    <3>4. progress'[t].percent = kept
      BY <2>1, <3>1 DEF Record
    <3>5. kept \in 0 .. 100
      BY <2>1, <3>2 DEF kept
    <3> QED
      BY <2>1, <3>3, <3>4, <3>5
  <2>4. ~Finished(t)
    <3> SUFFICES ASSUME NEW status \in {"succeeded", "failed"}, NEW s \in Nat,
                        progress'[t] = Completed(progress[t], status, s)
                 PROVE  FALSE
      BY DEF Finished
    <3>1. progress'[t].percent \in {100, progress[t].percent}
      BY <2>1 DEF Completed, Record
    <3> QED
      BY <2>1, <3>1
  <2>5. Entered(t)
    BY <2>1, <2>2, <2>3, <2>4, EntryMoves DEF Changed
  <2>6. PICK phase \in Nat, total \in Nat, s \in Nat :
            /\ progress[t].phase <= phase /\ phase < NPhases
            /\ progress'[t] = Phased(progress[t], phase, total, s)
    BY <2>5 DEF Entered
  <2> DEFINE percent == ComputePercent(phase, 0, total)
  <2>7. percent \in 0 .. 99
    BY ComputePercentRange
  <2>8. progress[t].phase < phase => Reached(progress[t].phase) <= percent
    BY <2>1, <2>6, LaterPhaseBeginsThere DEF Record
  <2>9. progress'[t] = [progress[t] EXCEPT !.phase = phase, !.completed = 0,
                            !.total = total, !.ts = s, !.percent = percent]
    BY <2>6 DEF Phased
  <2> HIDE DEF percent
  <2>10. /\ progress'[t].phase = phase /\ progress'[t].percent = percent
         /\ progress'[t].completed = 0
    BY <2>1, <2>9 DEF Record
  <2>11. progress[t].percent <= Reached(progress[t].phase)
    BY <2>1, <2>5 DEF Paced, Entered, Running
  <2>12. Reached(progress[t].phase) \in 0 .. 99 /\ progress[t].phase \in Nat
    BY <2>1, ReachedRange DEF Record
  <2> QED
    BY <2>1, <2>6, <2>7, <2>8, <2>10, <2>11, <2>12
<1> QED
  BY <1>1, PaceInvariant, PTL DEF Spec, PercentFallsOnlyOnReentry

\* An operation on a record leaves a record, and nothing else drops one.
LEMMA StaysHeld ==
    ASSUME EntriesGood, [Next]_vars, ~Restart,
           ~ \E w \in Tokens, s \in Stamps : Start(w, s),
           NEW t \in Tokens, progress[t] # None
    PROVE  progress'[t] # None
<1>s. Stamps \subseteq Nat /\ None \notin Record
  BY ProgressAssumption DEF Stamps
<1>t. /\ TypeOK /\ progress[t] \in Record /\ GoodEntry(progress[t])
  BY DEF EntriesGood, TypeOK
<1>1. ASSUME NEW u \in Tokens, NEW s \in Stamps,
             NEW phase \in 0..(NPhases - 1), NEW total \in 0..MaxTotal,
             SetPhase(u, phase, total, s)
      PROVE  progress'[t] # None
  <2>1. CASE u = t
    <3>1. progress[t].status = "running" /\ phase \in Nat /\ total \in Nat /\ s \in Nat
      BY <1>1, <1>s, <2>1, ProgressAssumption DEF SetPhase, Running
    <3>2. Phased(progress[t], phase, total, s) \in Record
      BY <1>t, <3>1, PhasedGood
    <3> QED
      BY <1>1, <1>s, <1>t, <2>1, <3>2 DEF SetPhase, TypeOK
  <2> QED
    BY <1>1, <1>t, <2>1 DEF SetPhase, TypeOK
<1>2. ASSUME NEW u \in Tokens, NEW s \in Stamps, Increment(u, 1, s)
      PROVE  progress'[t] # None
  <2>1. CASE u = t
    <3>1. progress[t].status = "running" /\ progress[t].percent # 100 /\ s \in Nat
      BY <1>2, <1>s, <1>t, <2>1 DEF Increment, Running, GoodEntry
    <3>2. progress[t].completed + 1 \in Nat /\ progress[t].total \in Nat
      BY <1>t DEF Record
    <3>3. Counted(progress[t], progress[t].completed + 1, progress[t].total, s) \in Record
      BY <1>t, <3>1, <3>2, CountedGood
    <3> QED
      BY <1>2, <1>s, <1>t, <2>1, <3>3 DEF Increment, TypeOK
  <2> QED
    BY <1>2, <1>t, <2>1 DEF Increment, TypeOK
<1>3. ASSUME NEW u \in Tokens, NEW s \in Stamps,
             NEW completed \in 0..MaxCompleted, NEW total \in 0..MaxTotal,
             SetProgress(u, completed, total, s)
      PROVE  progress'[t] # None
  <2>1. CASE u = t
    <3>1. /\ progress[t].status = "running" /\ progress[t].percent # 100
          /\ completed \in Nat /\ total \in Nat /\ s \in Nat
      BY <1>3, <1>s, <1>t, <2>1, ProgressAssumption DEF SetProgress, Running, GoodEntry
    <3>2. Counted(progress[t], completed, total, s) \in Record
      BY <1>t, <3>1, CountedGood
    <3> QED
      BY <1>3, <1>s, <1>t, <2>1, <3>2 DEF SetProgress, TypeOK
  <2> QED
    BY <1>3, <1>t, <2>1 DEF SetProgress, TypeOK
<1>4. ASSUME NEW u \in Tokens, NEW s \in Stamps,
             NEW status \in {"succeeded", "failed"}, Complete(u, status, s)
      PROVE  progress'[t] # None
  <2>1. CASE u = t
    <3>1. ~(progress[t].status = "succeeded" /\ status = "failed") /\ s \in Nat
      BY <1>4, <1>s, <2>1 DEF Complete
    <3>2. Completed(progress[t], status, s) \in Record
      BY <1>t, <3>1, CompletedGood
    <3> QED
      BY <1>4, <1>s, <1>t, <2>1, <3>2 DEF Complete, TypeOK
  <2> QED
    BY <1>4, <1>t, <2>1 DEF Complete, TypeOK
<1>5. CASE Tick
  BY <1>5 DEF Tick
<1>6. CASE UNCHANGED vars
  BY <1>6 DEF vars
<1> QED
  BY <1>1, <1>2, <1>3, <1>4, <1>5, <1>6 DEF Next

\* A record is forgotten by a restart, with all others, or because it was updated
\* no later than every one that stays: for every cap and number of tokens.
THEOREM StalestGoesFirst == Spec => EvictsLeastRecentlyUpdated
<1> DEFINE Step == \A t \in Held(progress) \ Held(progress') :
                      \/ Held(progress') = {}
                      \/ \A u \in Held(progress) \cap Held(progress') :
                            progress[t].ts <= progress[u].ts
<1>1. EntriesGood /\ TableInv /\ [Next]_vars => [Step]_vars
  <2> SUFFICES ASSUME EntriesGood, TableInv, [Next]_vars,
                      NEW t \in Held(progress) \ Held(progress'),
                      Held(progress') # {},
                      NEW u \in Held(progress) \cap Held(progress')
               PROVE  progress[t].ts <= progress[u].ts
    OBVIOUS
  <2>t. TypeOK /\ EntriesGood'
    BY EntriesGoodStep DEF EntriesGood
  <2>1. /\ t \in Tokens /\ u \in Tokens /\ progress[t] \in Record
        /\ progress'[t] = None /\ progress[t] # None
    BY <2>t DEF Held, TypeOK
  <2>2. CASE \E w \in Tokens, s \in Stamps : Start(w, s)
    <3>1. PICK w \in Tokens, s \in Stamps : Start(w, s)
      BY <2>2
    <3> DEFINE rec == [status |-> "running", phase |-> 0, completed |-> 0, total |-> 0,
                       percent |-> 0, ts |-> s]
               table == [progress EXCEPT ![w] = rec]
    <3>2. progress' \in Evict(table) /\ w \notin Held(progress)
      BY <3>1 DEF Start, TableInv
    <3> HIDE DEF rec
    <3>3. /\ w # t /\ w # u /\ table[t] = progress[t] /\ table[u] = progress[u]
          /\ DOMAIN table = Tokens
      BY <3>2, <2>t DEF TypeOK
    <3> HIDE DEF table
    <3>4. PICK v \in Oldest(table) : progress' = [table EXCEPT ![v] = None]
      BY <2>1, <3>2, <3>3 DEF Evict
    <3>5. v = t
      BY <2>1, <3>3, <3>4
    <3>6. u \in Held(table)
      BY <3>3 DEF Held
    <3> QED
      BY <3>3, <3>4, <3>5, <3>6 DEF Oldest
  <2>3. CASE ~ \E w \in Tokens, s \in Stamps : Start(w, s)
    <3>1. CASE Restart
      BY <3>1 DEF Restart, Held
    <3>2. CASE ~Restart
      BY <2>1, <2>3, <3>2, StaysHeld
    <3> QED
      BY <3>1, <3>2
  <2> QED
    BY <2>2, <2>3
<1> QED
  BY <1>1, PaceInvariant, PTL DEF Spec, EvictsLeastRecentlyUpdated
==============================================================================
