---------------------------- MODULE MCScheduler ----------------------------
(* Scheduler.tla for model checking: a few threads.                        *)
EXTENDS Scheduler

CONSTANTS t1, t2, t3

Three == {t1, t2, t3}
=============================================================================
