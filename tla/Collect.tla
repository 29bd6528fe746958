-------------------------------- MODULE Collect --------------------------------
(***************************************************************************)
(* Stage 1 (collect_stage.run_collect over collect/client.py), while the   *)
(* settings it was configured from go on being saved (Settings.tla).  A    *)
(* run resolves its configuration, queries board after board for each of   *)
(* its searches, and lands what came back in one commit.                   *)
(*                                                                         *)
(* A search is the sequence of its boards.  JobSpy is external: a request  *)
(* brings any number of rows up to the limit it was given, or raises.      *)
(***************************************************************************)
EXTENDS Settings, Sequences

CONSTANTS Sites,
          Enabled,     \* the searches enabled_specs may return: sequences of searches
          Searches,    \* the environment's SEARCHES
          LIMIT, DELAY \* the keys results_per_search and request_delay_seconds

ASSUME CollectAssumption ==
  /\ LIMIT \in Keys /\ DELAY \in Keys /\ Values \subseteq Nat
  /\ Enabled \subseteq Seq(Seq(Sites)) /\ Searches \in Seq(Seq(Sites))

VARIABLES stage,    \* of a run
          specs,    \* the searches left; the first is under way
          next,     \* index of the board to query in it
          asked,    \* history: the requests made
          part,     \* CollectionResult of the search under way
          merged,   \* CollectionResult of the searches done
          landed    \* runs and raw_postings as committed: NoRow, or a CollectionResult

collecting == <<stage, specs, next, asked, part, merged, landed>>
vars == <<settingsVars, collecting>>

\* records of each board; counts_by_site, without the boards it has no entry for;
\* the keys of errors
Nothing == [records |-> [s \in Sites |-> 0], counts |-> <<>>, errors |-> {}]

Request == [search : Nat, site : Sites, limit : Values, slept : BOOLEAN,
            rows : Nat, raised : BOOLEAN]
IsResult(x) ==
  /\ x.records \in [Sites -> Nat]
  /\ DOMAIN x.counts \subseteq Sites /\ \A s \in DOMAIN x.counts : x.counts[s] \in Nat
  /\ x.errors \subseteq Sites

TypeOK ==
  /\ SettingsTypeOK
  /\ stage \in [Runs -> {"idle", "resolve", "collect", "landed", "dead"}]
  /\ \A r \in Runs :
       /\ specs[r] \in Seq(Seq(Sites)) /\ next[r] \in Nat \ {0}
       /\ asked[r] \in Seq(Request)
       /\ IsResult(part[r]) /\ IsResult(merged[r])
       /\ landed[r] # NoRow => stage[r] = "landed" /\ IsResult(landed[r])
       /\ stage[r] = "collect" => DOMAIN config[r] = Keys

Init ==
  /\ SettingsInit
  /\ stage = [r \in Runs |-> "idle"]
  /\ specs = [r \in Runs |-> <<>>]
  /\ next = [r \in Runs |-> 1]
  /\ asked = [r \in Runs |-> <<>>]
  /\ part = [r \in Runs |-> Nothing] /\ merged = [r \in Runs |-> Nothing]
  /\ landed = [r \in Runs |-> NoRow]

-------------------------------------------------------------------------------
\* `enabled_specs(session) or None`, and None means SEARCHES.
SpecsOf(e) == IF e = <<>> THEN Searches ELSE e

Start(r) ==
  /\ stage[r] = "idle"
  /\ stage' = [stage EXCEPT ![r] = "resolve"]
  /\ \E e \in Enabled : specs' = [specs EXCEPT ![r] = SpecsOf(e)]
  /\ BeginResolve(r)
  /\ UNCHANGED <<next, asked, part, merged, landed>>

Resolve(r) ==
  /\ stage[r] = "resolve"
  /\ ResolveKey(r)
  /\ stage' = [stage EXCEPT ![r] = IF Cardinality(todo[r]) = 1 THEN "collect" ELSE "resolve"]
  /\ UNCHANGED <<specs, next, asked, part, merged, landed>>

\* collect_one: the boards of a search in order, a sleep before each but the first.
ConfigLive(r) == [k \in Keys |-> Effective(k)]  \* Mutant: read at each use, as before the refactoring.
ConfigOf(r) == config[r]

Sleeps(r) == next[r] > 1 /\ ConfigOf(r)[DELAY] > 0

CountOf(c, s) == IF s \in DOMAIN c THEN c[s] ELSE 0
Counted(c, s, n) == [t \in DOMAIN c \cup {s} |-> IF t = s THEN CountOf(c, s) + n ELSE c[t]]

Query(r) ==
  /\ stage[r] = "collect" /\ specs[r] # <<>> /\ next[r] <= Len(Head(specs[r]))
  /\ LET s == Head(specs[r])[next[r]]  limit == ConfigOf(r)[LIMIT] IN
     \E n \in 0..limit, raised \in BOOLEAN :
       /\ raised => n = 0
       /\ asked' = [asked EXCEPT ![r] = Append(asked[r],
            [search |-> Len(specs[r]), site |-> s, limit |-> limit, slept |-> Sleeps(r),
             rows |-> n, raised |-> raised])]
       /\ part' = [part EXCEPT ![r] =
            [records |-> [part[r].records EXCEPT ![s] = @ + n],
             counts |-> Counted(part[r].counts, s, n),
             errors |-> IF raised THEN part[r].errors \cup {s} ELSE part[r].errors]]
  /\ next' = [next EXCEPT ![r] = @ + 1]
  /\ UNCHANGED <<settingsVars, stage, specs, merged, landed>>

\* collect_all, at the end of a search.
MergedLast(m, p) ==  \* Mutant: update() for the counts too.
  [records |-> [s \in Sites |-> m.records[s] + p.records[s]],
   counts |-> [s \in DOMAIN m.counts \cup DOMAIN p.counts |->
                 IF s \in DOMAIN p.counts THEN p.counts[s] ELSE m.counts[s]],
   errors |-> m.errors \cup p.errors]
Merged(m, p) ==
  [records |-> [s \in Sites |-> m.records[s] + p.records[s]],
   counts |-> [s \in DOMAIN m.counts \cup DOMAIN p.counts |->
                 CountOf(m.counts, s) + CountOf(p.counts, s)],
   errors |-> m.errors \cup p.errors]

EndSearch(r) ==
  /\ stage[r] = "collect" /\ specs[r] # <<>> /\ next[r] > Len(Head(specs[r]))
  /\ merged' = [merged EXCEPT ![r] = Merged(merged[r], part[r])]
  /\ part' = [part EXCEPT ![r] = Nothing]
  /\ specs' = [specs EXCEPT ![r] = Tail(@)]
  /\ next' = [next EXCEPT ![r] = 1]
  /\ UNCHANGED <<settingsVars, stage, asked, landed>>

\* run_collect's commit: the rows, and on the run their counts and errors.
Land(r) ==
  /\ stage[r] = "collect" /\ specs[r] = <<>>
  /\ landed' = [landed EXCEPT ![r] = merged[r]]
  /\ stage' = [stage EXCEPT ![r] = "landed"]
  /\ UNCHANGED <<settingsVars, specs, next, asked, part, merged>>

\* The process dies, or the database refuses: everything was in memory.
Die(r) ==
  /\ stage[r] \in {"resolve", "collect"}
  /\ stage' = [stage EXCEPT ![r] = "dead"]
  /\ UNCHANGED <<settingsVars, specs, next, asked, part, merged, landed>>

Proceed(r) == Start(r) \/ Resolve(r) \/ Query(r) \/ EndSearch(r) \/ Land(r)

Next ==
  \/ SettingsNext /\ UNCHANGED collecting
  \/ \E r \in Runs : Proceed(r) \/ Die(r)

Spec == Init /\ [][Next]_vars

\* The web server carries an accepted save through; a row that is released goes
\* to the transaction waiting for it.
FairSpec == Spec /\ \A a \in Savers : WF_vars(ServeSave(a) /\ UNCHANGED collecting)

-------------------------------------------------------------------------------
\* Properties.

\* A save during which no other commits leaves the settings exactly as its form
\* had them ("validate and persist a full set", set_many).
SaveIsWhole ==
  [][\A a \in Savers : at[a] = "commit" /\ at'[a] = "saved" /\ ~joined[a]
       => \A k \in Keys : Effective(k)' = want[a][k]]_vars

\* Saves that overlap take their rows in one order: each ends, none waits for ever.
EverySaveEnds ==
  \A a \in Savers : at[a] \in {"read", "write", "commit"} ~> at[a] \in {"saved", "failed"}

\* What a run works with was in effect at some moment since it began, never older
\* ("changed settings take effect on subsequent runs", FR-014); and is the whole
\* of one state of the settings if they were not saved meanwhile.
ConfigIsCurrent ==
  \A r \in Runs : \A k \in DOMAIN config[r] : config[r][k] \in current[r][k]

\* A run is one configuration from its first request to its last, whatever is
\* saved while it collects ("fixed for its duration", RunConfig): no request has
\* another limit, and a delay is kept between the boards of all its searches or
\* of none.
OneConfigPerRun ==
  \A r \in Runs : \A i \in DOMAIN asked[r] :
    /\ asked[r][i].limit = config[r][LIMIT]
    /\ asked[r][i].rows <= config[r][LIMIT]
    /\ i > 1 /\ asked[r][i].search = asked[r][i - 1].search
         => (asked[r][i].slept <=> config[r][DELAY] > 0)

\* The books of a run balance: each board it queried has its count, zero included,
\* over all its searches, no board has one that was not queried, the counts add up
\* to the rows landed, and a board that raised once is named whatever it did later
\* (design 7.4: this is how silent decay is seen).
CountsAccount ==
  \A r \in Runs : landed[r] # NoRow =>
    LET Of(s) == {i \in DOMAIN asked[r] : asked[r][i].site = s}
        RowsOf(s) == UNION {{i} \X (1..asked[r][i].rows) : i \in Of(s)}
    IN /\ DOMAIN landed[r].counts = {asked[r][i].site : i \in DOMAIN asked[r]}
       /\ \A s \in DOMAIN landed[r].counts :
            landed[r].counts[s] = Cardinality(RowsOf(s)) /\ landed[r].records[s] = landed[r].counts[s]
       /\ landed[r].errors = {asked[r][i].site : i \in {j \in DOMAIN asked[r] : asked[r][j].raised}}
===============================================================================
