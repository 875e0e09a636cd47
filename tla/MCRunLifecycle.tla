---------------------------- MODULE MCRunLifecycle ----------------------------
(***************************************************************************)
(* Small instances of RunLifecycle: the .cfg files give the number of runs *)
(* and the bounds on restarts, failing storage calls, wipes and imports.   *)
(***************************************************************************)
EXTENDS RunLifecycle
===============================================================================
