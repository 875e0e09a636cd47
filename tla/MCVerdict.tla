------------------------------- MODULE MCVerdict -------------------------------
(***************************************************************************)
(* Small instances of Verdict: two families, requirements that share them, *)
(* and quota rows that are ample, tight, used up, overdrawn and unreported. *)
(***************************************************************************)
EXTENDS Verdict, TLC

CONSTANTS target, helper, f1, f2

Req(primary, alt, cores) == [primary |-> primary, alt |-> alt, cores |-> cores]

Row(limit, usage) == [limit |-> limit, usage |-> usage]

MCBoms == { {Req(f1, f2, 40), Req(f2, NoFamily, 20)},
            {Req(f1, f2, 0)} }

OneFallback == { {Req(f1, f2, 40)} }

MCRows == {NoRow, Row(200, 40), Row(100, 65), Row(30, 33), Row(None, 10)}

MCSharedRows == {NoRow, Row(100, 70)}

\* Zones of the target's f1 and f2, and of the helper's.
Opening(a, b, c, d) ==
    (target :> (f1 :> a @@ f2 :> b)) @@ (helper :> (f1 :> c @@ f2 :> d))

MCOpenings == { Opening(Zones, Zones, {}, {}),
                Opening({1}, {2, 3}, {1, 3}, {1, 2}) }

Alone == {target :> (f1 :> Zones @@ f2 :> Zones)}
================================================================================
