------------------------------- MODULE MCTriage -------------------------------
(* Triage on a small instance: see README, "Bounds". *)
EXTENDS Triage

CONSTANTS r1, r2, new, rejected

MCPostings == 1..2
===============================================================================
