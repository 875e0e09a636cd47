---------------------------- MODULE MCRunProgress ----------------------------
(***************************************************************************)
(* Small instances of RunProgress. The tokens are interchangeable: no      *)
(* definition names one, so TLC may identify states up to their renaming.  *)
(***************************************************************************)
EXTENDS RunProgress, TLC

TokenSymmetry == Permutations(Tokens)
==============================================================================
