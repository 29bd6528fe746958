------------------------------- MODULE MCIngest -------------------------------
(* Ingest on a small instance: see README, "Bounds". *)
EXTENDS Ingest, TLC

CONSTANTS r1, r2, r3, c1,
          indeed1, linkedin1, indeed2,   \* listings: board, then role
          wide2, title2, company3,                  \* and with a defect
          indeed, linkedin, f1, f2, f3, acme, globex

MCSiteOf      == indeed1 :> indeed @@ linkedin1 :> linkedin @@ indeed2 :> indeed
                   @@ wide2 :> indeed @@ title2 :> indeed @@ company3 :> linkedin
MCRoleOf      == indeed1 :> f1 @@ linkedin1 :> f1 @@ indeed2 :> f2
                   @@ wide2 :> f2 @@ title2 :> f2 @@ company3 :> f3
MCEmployerOf  == f1 :> acme @@ f2 :> globex @@ f3 :> globex
MCIdOf        == f1 :> 1 @@ f2 :> 2 @@ f3 :> 3
MCDefect      == [l \in Listings |->
                    IF l = wide2 THEN "wide" ELSE IF l = title2 THEN "title"
                    ELSE IF l = company3 THEN "company" ELSE "none"]
\* Two runs that overlap on two roles, one with a payload that its posting cannot
\* be made of; or the other with two such payloads.
MCOffers      == r1 :> {{indeed1, title2}}
                   @@ r2 :> {{linkedin1, indeed2}, {wide2, company3}}
\* One role, observed by three runs on two boards.
MCOffers3     == r1 :> {{indeed1}} @@ r2 :> {{linkedin1}} @@ r3 :> {{indeed1}}
===============================================================================
