-------------------------------- MODULE MCDesk --------------------------------
(* Desk on a small instance: see README, "Bounds". *)
EXTENDS Desk, TLC

CONSTANTS r0, r1, b1, c1, indeed1, indeed2, indeed3, title3, indeed, f1, f2, f3, acme, globex,
          new, rejected

MCSiteOf     == indeed1 :> indeed @@ indeed2 :> indeed @@ indeed3 :> indeed
                  @@ title3 :> indeed
MCRoleOf     == indeed1 :> f1 @@ indeed2 :> f2 @@ indeed3 :> f3 @@ title3 :> f3
MCEmployerOf == f1 :> acme @@ f2 :> acme @@ f3 :> globex
MCIdOf       == f1 :> 1 @@ f2 :> 2 @@ f3 :> 3
MCPostings   == 1..3
MCDefect     == [l \in Listings |-> IF l = title3 THEN "title" ELSE "none"]
\* The run behind it found two roles; the next finds them again, alone or, at a
\* new employer, with a third, whose payload may be one no posting is made of.
MCOffers     == r0 :> {{indeed1, indeed2}}
                  @@ r1 :> {{indeed1, indeed2}, {indeed1, indeed2, indeed3}, {indeed2, title3}, {}}
===============================================================================
