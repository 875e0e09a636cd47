----------------------------- MODULE RunProgress -----------------------------
(***************************************************************************)
(* The in-process progress table of api/_shared/run_progress.py: one       *)
(* record per analysis run, written by the request thread and by the       *)
(* worker threads of the region fan-out, read by the polling endpoint, and *)
(* capped at _MAX_RECORDS by evicting the least recently updated record.   *)
(*                                                                         *)
(* Every public function reads the clock BEFORE it takes the lock, so the  *)
(* time stamp a call writes may be older than the present: a call carries  *)
(* any stamp of the last MaxLag ticks.                                     *)
(***************************************************************************)
EXTENDS Integers, FiniteSets

CONSTANTS
    Tokens,        \* progress tokens: UUIDs the client mints, one per run
    None,          \* no record is held for a token
    MaxRecords,    \* _MAX_RECORDS
    NPhases,       \* number of phases a run is started with
    MaxTotal,      \* bound on the item count a phase announces
    MaxCompleted,  \* bound on the items a phase counts
    MaxTime,       \* bound on the clock
    MaxLag         \* longest wait for the lock, in ticks

VARIABLES
    progress,      \* _PROGRESS: [Tokens -> Record \cup {None}]
    started,       \* tokens start() was called with (each is used once)
    now            \* time.time()

vars == <<progress, started, now>>

Status == {"running", "succeeded", "failed"}

\* total = 0 stands for an absent or empty item count: the percentage treats
\* both alike.
Record == [status : Status, phase : Nat, completed : Nat, total : Nat,
           percent : 0..100, ts : Nat]

ASSUME ProgressAssumption ==
    /\ None \notin Record
    /\ IsFiniteSet(Tokens)
    /\ MaxRecords \in Nat \ {0}
    /\ NPhases \in Nat \ {0}
    /\ {MaxTotal, MaxCompleted, MaxTime, MaxLag} \subseteq Nat

------------------------------------------------------------------------------
Least(a, b) == IF a <= b THEN a ELSE b

\* The share of the whole run done, in percent: finished phases count in
\* full, the current one by its items, and 99 is the most a run that has not
\* completed shows. The phase index is clamped to the last phase.
ComputePercent(phase, completed, total) ==
    LET index == Least(phase, NPhases - 1)
    IN  Least(99, IF total > 0
                  THEN (100 * (index * total + Least(completed, total)))
                          \div (NPhases * total)
                  ELSE (100 * index) \div NPhases)

Held(table) == {t \in Tokens : table[t] # None}

Running(t) == progress[t] # None /\ progress[t].status = "running"

\* The clock values a call may have read before it obtained the lock.
Stamps == {s \in 0..now : now - s <= MaxLag}

\* Fault: the most recently updated record goes.
Newest(table) ==
    {t \in Held(table) : \A u \in Held(table) : table[u].ts <= table[t].ts}

Oldest(table) ==
    {t \in Held(table) : \A u \in Held(table) : table[t].ts <= table[u].ts}

\* Eviction after an insertion: the table held at most MaxRecords records
\* before it, so at most one is dropped.
Evict(table) ==
    IF Cardinality(Held(table)) <= MaxRecords
    THEN {table}
    ELSE {[table EXCEPT ![t] = None] : t \in Oldest(table)}

------------------------------------------------------------------------------
Init ==
    /\ progress = [t \in Tokens |-> None]
    /\ started = {}
    /\ now = 0

Start(t, s) ==
    /\ t \notin started
    /\ started' = started \cup {t}
    /\ progress' \in Evict([progress EXCEPT ![t] =
            [status |-> "running", phase |-> 0, completed |-> 0, total |-> 0,
             percent |-> 0, ts |-> s]])
    /\ UNCHANGED now

\* Entering a phase resets its counters and recomputes the percentage.
Phased(rec, phase, total, s) ==
    [rec EXCEPT !.phase = phase, !.completed = 0, !.total = total, !.ts = s,
                !.percent = ComputePercent(phase, 0, total)]

SetPhase(t, phase, total, s) ==
    /\ Running(t)
    /\ phase >= progress[t].phase
    /\ progress' = [progress EXCEPT ![t] = Phased(progress[t], phase, total, s)]
    /\ UNCHANGED <<started, now>>

\* Fault: the percentage of the phase alone, unclamped.
CountedUnclamped(rec, completed, total, s) ==
    [rec EXCEPT !.completed = completed, !.total = total, !.ts = s,
                !.percent = IF total > 0 THEN (100 * completed) \div total ELSE @]

\* Fault: the percentage is written even when it falls.
CountedAlways(rec, completed, total, s) ==
    [rec EXCEPT !.completed = completed, !.total = total, !.ts = s,
                !.percent = ComputePercent(rec.phase, completed, total)]

\* The common tail of increment() and set_progress(): the counters are
\* written, the percentage only when it does not fall.
Counted(rec, completed, total, s) ==
    LET percent == ComputePercent(rec.phase, completed, total)
    IN  [rec EXCEPT !.completed = completed, !.total = total, !.ts = s,
                    !.percent = IF percent >= rec.percent THEN percent ELSE rec.percent]

Increment(t, n, s) ==
    /\ Running(t)
    /\ progress[t].completed + n <= MaxCompleted
    /\ progress' = [progress EXCEPT ![t] =
            Counted(progress[t], progress[t].completed + n, progress[t].total, s)]
    /\ UNCHANGED <<started, now>>

\* A call without a total keeps the one the record has.
SetProgress(t, completed, total, s) ==
    /\ Running(t)
    /\ completed >= progress[t].completed
    /\ progress' = [progress EXCEPT ![t] = Counted(progress[t], completed, total, s)]
    /\ UNCHANGED <<started, now>>

\* Fault: a failure fills the bar as well.
CompletedFull(rec, status, s) ==
    [rec EXCEPT !.status = status, !.ts = s, !.percent = 100]

\* A success fills the bar and the current phase's counter.
Completed(rec, status, s) ==
    IF status = "succeeded"
    THEN [rec EXCEPT !.status = status, !.ts = s, !.percent = 100,
                     !.completed = IF rec.total > 0 THEN rec.total ELSE rec.completed]
    ELSE [rec EXCEPT !.status = status, !.ts = s]

\* Fault: a missing record is created.
CompleteUpsert(t, status, s) ==
    /\ progress' = [progress EXCEPT ![t] =
            IF @ = None
            THEN [status |-> "failed", phase |-> 0, completed |-> 0, total |-> 0,
                  percent |-> 0, ts |-> s]
            ELSE Completed(@, status, s)]
    /\ UNCHANGED <<started, now>>

Complete(t, status, s) ==
    /\ progress[t] # None
    /\ ~(progress[t].status = "succeeded" /\ status = "failed")
    /\ progress' = [progress EXCEPT ![t] = Completed(progress[t], status, s)]
    /\ UNCHANGED <<started, now>>

Tick ==
    /\ now < MaxTime
    /\ now' = now + 1
    /\ UNCHANGED <<progress, started>>

\* The worker restarted: the table lives in its memory only.
Restart ==
    /\ Held(progress) # {}
    /\ progress' = [t \in Tokens |-> None]
    /\ UNCHANGED <<started, now>>

Next ==
    \/ \E t \in Tokens, s \in Stamps :
          \/ Start(t, s)
          \/ \E phase \in 0..(NPhases - 1), total \in 0..MaxTotal :
                SetPhase(t, phase, total, s)
          \/ Increment(t, 1, s)
          \/ \E completed \in 0..MaxCompleted, total \in 0..MaxTotal :
                SetProgress(t, completed, total, s)
          \/ \E status \in {"succeeded", "failed"} : Complete(t, status, s)
    \/ Tick
    \/ Restart

Spec == Init /\ [][Next]_vars

------------------------------------------------------------------------------
TypeOK ==
    /\ progress \in [Tokens -> Record \cup {None}]
    /\ started \in SUBSET Tokens
    /\ now \in Nat

\* A record shows 100 % exactly when its run succeeded: no rounding, clamping
\* or counter overshoot in ComputePercent completes a run early, and a
\* failure (even one reported after a success) never leaves a full bar.
HundredIffSucceeded ==
    \A t \in Held(progress) :
        progress[t].percent = 100 <=> progress[t].status = "succeeded"

\* Whatever the threads do, the table never outgrows its cap, also between a
\* start() and the eviction it triggers (both run under one lock).
TableBounded == Cardinality(Held(progress)) <= MaxRecords

\* Both: whatever a poller reads comes from a table within its cap, and its full
\* bar means success.
TableSound == TableBounded /\ HundredIffSucceeded

\* A record is forgotten only by a restart, which forgets them all, or
\* because no record that stays was updated longer ago.
EvictsLeastRecentlyUpdated ==
    [][\A t \in Held(progress) \ Held(progress') :
          \/ Held(progress') = {}
          \/ \A u \in Held(progress) \cap Held(progress') :
                progress[t].ts <= progress[u].ts]_vars

\* A call that arrives after its record was evicted, or after a restart, does
\* not bring the record back half-filled: only start() creates records.
ForgottenStaysForgotten ==
    [][\A t \in started : progress[t] = None => progress'[t] = None]_vars

\* While a record is held its percentage falls only when set_phase() re-enters
\* the phase it is in: entering a later phase never moves the bar back,
\* however far the item counters of the earlier phase overshot their totals.
PercentFallsOnlyOnReentry ==
    [][\A t \in Held(progress) \cap Held(progress') :
          progress'[t].percent < progress[t].percent =>
              /\ progress'[t].phase = progress[t].phase
              /\ progress'[t].completed = 0]_vars
==============================================================================
