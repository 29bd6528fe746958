----------------------------- MODULE MCVisibility -----------------------------
(* Visibility on a small instance: see README, "Bounds". *)
EXTENDS Visibility, TLC

CONSTANTS q1, a1, a2, acme, other, new, rejected, eg, indeed, linkedin, egypt, gulf

MCPostings   == 1..3
\* Two roles of one employer that tie on first_seen_at, one of another.
MCEmployerOf == 1 :> acme @@ 2 :> acme @@ 3 :> other
MCFirstSeen  == 1 :> 1 @@ 2 :> 1 @@ 3 :> 2
MCCountryOf  == 1 :> eg @@ 2 :> COUNTRY_UNKNOWN @@ 3 :> eg
\* A posting two boards raced for, one they tied on, one with an unreadable stamp.
MCSourcesOf  == 1 :> (indeed :> 1 @@ linkedin :> 2) @@ 2 :> (indeed :> 1 @@ linkedin :> 1)
                  @@ 3 :> (indeed :> 1 @@ linkedin :> 0)
MCSurfacedBy == egypt :> {1, 3} @@ gulf :> {3}
\* Page 0 and page 9 are links from before the list shrank.
MCAsked == {[filter |-> AnyFilter, page |-> 9],
            [filter |-> [AnyFilter EXCEPT !.status = rejected], page |-> 0],
            [filter |-> [status |-> new, country |-> eg, source |-> linkedin], page |-> 1]}
MCSymmetry == Permutations(Admins)
===============================================================================
