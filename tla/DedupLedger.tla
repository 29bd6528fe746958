------------------------------ MODULE DedupLedger ------------------------------
(***************************************************************************)
(* What the pipeline promises of the store (SRS FR-12, FR-15; design 7.3): *)
(* raw rows land whole and are never rewritten, each row is folded at most *)
(* once, and the roles that have a posting are exactly the roles of the    *)
(* rows folded so far.  How runs overlap, collide, die and are retried is  *)
(* Ingest.tla's business; it implements this.                              *)
(***************************************************************************)
EXTENDS Naturals

CONSTANTS Runs, Listings, RoleOf

VARIABLES raw,    \* raw[r]: listings landed by run r
          link,   \* rows <<run, listing>> folded into a posting
          roles   \* roles that have a posting

vars == <<raw, link, roles>>

Init == /\ raw = [r \in Runs |-> {}]
        /\ link = {}
        /\ roles = {}

Land(r, S) == /\ raw[r] = {}
              /\ raw' = [raw EXCEPT ![r] = S]
              /\ UNCHANGED <<link, roles>>

\* One transaction folds rows of one run that were not folded before.
Fold(r, S) == /\ S \subseteq raw[r]
              /\ ({r} \X S) \cap link = {}
              /\ link' = link \cup ({r} \X S)
              /\ roles' = roles \cup {RoleOf[l] : l \in S}
              /\ UNCHANGED raw

Next == \E r \in Runs, S \in SUBSET Listings : Land(r, S) \/ Fold(r, S)

Spec == Init /\ [][Next]_vars
===============================================================================
