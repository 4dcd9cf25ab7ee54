---------------------------- MODULE MCScheduler ----------------------------
(* Two controllers, so that start and stop overlap; two loops, so that an  *)
(* old one can be alive beside a new one; two tasks, and a caller of       *)
(* run_due and run_all beside the loops.                                   *)
EXTENDS Scheduler
=============================================================================
