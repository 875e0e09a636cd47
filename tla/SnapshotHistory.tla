--------------------------- MODULE SnapshotHistory ---------------------------
(***************************************************************************)
(* What the run history promises its readers, without the handlers, table  *)
(* and blob steps behind it: per BOM, a set of snapshots that can be       *)
(* opened.  Snapshots appear one at a time, and one disappears only while  *)
(* a newer snapshot of the same BOM can be opened.  So once a BOM has been *)
(* analysed, its newest result stays available until a newer one replaces  *)
(* it (api/snapshots_latest, api/snapshots_get).                           *)
(***************************************************************************)
EXTENDS Naturals

CONSTANTS
    Runs,          \* run ids, as numbers in the order they sort
    Boms

VARIABLE
    readable       \* set of <<bom, run>> whose snapshot can be opened

Init == readable = {}

Publish(b, r) ==
    /\ <<b, r>> \notin readable
    /\ readable' = readable \cup {<<b, r>>}

Retire(b, r) ==
    /\ <<b, r>> \in readable
    /\ \E s \in Runs : s > r /\ <<b, s>> \in readable
    /\ readable' = readable \ {<<b, r>>}

Next == \E b \in Boms, r \in Runs : Publish(b, r) \/ Retire(b, r)

Spec == Init /\ [][Next]_readable
==============================================================================
