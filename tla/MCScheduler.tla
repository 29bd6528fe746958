----------------------------- MODULE MCScheduler -----------------------------
(* Scheduler on a small instance: see README, "Bounds". *)
EXTENDS Scheduler

CONSTANTS e1, e2, six, seven

MCProfiles == {1, 2}
==============================================================================
