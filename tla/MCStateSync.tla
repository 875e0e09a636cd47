----------------------------- MODULE MCStateSync -----------------------------
(***************************************************************************)
(* Small instances of StateSync: a few tabs and accounts, alike among      *)
(* themselves, and a few changes, two of them runs of one BOM.             *)
(***************************************************************************)
EXTENDS StateSync, TLC

CONSTANTS older, later

MCNewer == [c \in Changes |-> IF c = older THEN {later} \cap Analyses ELSE {}]

PageSymmetry == Permutations(Accounts) \cup Permutations(Tabs)
==============================================================================
