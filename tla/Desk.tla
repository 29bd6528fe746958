--------------------------------- MODULE Desk ---------------------------------
(***************************************************************************)
(* The operator at the desk while the pipeline runs: Triage.tla and        *)
(* Ingest.tla on one postings table.  What each of them takes for a single *)
(* step of the other is here the other's transaction: the rows a request   *)
(* locks are the rows stage 2 updates, and what stage 2 commits is what    *)
(* requests select.                                                        *)
(*                                                                         *)
(* The database starts with one run behind it, folded before the history   *)
(* table was there.  The clock stands still: nothing said here reads it.   *)
(***************************************************************************)
EXTENDS Triage

CONSTANTS Runs, Normalisers, Listings, Sites, Roles, Employers,
          SiteOf, RoleOf, EmployerOf, IdOf, Defect, Offers, MaxFaults,  \* as in Ingest
          Past    \* the run the database has behind it

VARIABLES run_status, raw, link, posting, employers,
          stage, batch, plan, known, writes, held, verdict, faults

Pipeline == INSTANCE Ingest WITH status <- run_status, pc <- stage, todo <- writes

Jobs     == Runs \cup Normalisers
pipeline == <<run_status, raw, link, posting, employers, stage, batch, plan, known, writes, held,
              verdict, faults>>
desk     == <<vars, pipeline>>

Landed == UNION Offers[Past]

ASSUME DeskAssumption ==
  /\ Pipeline!IngestAssumption
  /\ Postings = {IdOf[f] : f \in Roles}
  /\ Requests \cap Jobs = {}
  /\ Past \in Runs /\ Landed \in Offers[Past] /\ \A l \in Landed : Defect[l] = "none"

\* The unique key of a posting's row, as stage 2 holds it.
KeyOf(p) == <<"posting", CHOOSE f \in Roles : IdOf[f] = p>>

DeskInit ==
  /\ Init
  /\ Existing = {IdOf[f] : f \in Pipeline!RolesOf(Landed)}
  /\ run_status = [r \in Runs |-> IF r = Past THEN "success" ELSE "none"]
  /\ raw = [r \in Runs |-> IF r = Past THEN Landed ELSE {}]
  /\ link = {Past} \X Landed
  /\ posting = {[role |-> f, born |-> Past,
                 sources |-> [s \in Sites |->
                                IF \E l \in Landed : RoleOf[l] = f /\ SiteOf[l] = s
                                THEN Past ELSE Nobody]] : f \in Pipeline!RolesOf(Landed)}
  /\ employers = {EmployerOf[f] : f \in Pipeline!RolesOf(Landed)}
  /\ stage = [j \in Jobs |-> IF j = Past THEN "ok" ELSE "idle"]
  /\ batch = [j \in Jobs |-> IF j = Past THEN Past ELSE Nobody]
  /\ plan = [j \in Jobs |-> {}]
  /\ known = [j \in Jobs |-> {}]
  /\ writes = [j \in Jobs |-> <<>>]
  /\ held = [k \in Pipeline!Key |-> Nobody]
  /\ verdict = [j \in Jobs |-> "ok"]
  /\ faults = 0

-------------------------------------------------------------------------------
\* Who waits for whom: a request for a row that a run has updated, a run for a
\* row that a request has locked, each for its own kind.

RequestWaitsFor(r) ==
  IF pc[r] = "locking" THEN (UNION {{lock[p], held[KeyOf(p)]} : p \in NextRow(r)}) \ {Nobody}
  ELSE {}

\* An INSERT waits for no row lock: what it collides with is committed or not.
RowsAwaited(j) ==
  {IdOf[k[2]] : k \in {x \in Pipeline!Key : x[1] = "posting" /\ Pipeline!Ready(j, x)
                                             /\ ~Pipeline!Inserts(j, x)}}
JobWaitsFor(j) == (Pipeline!WaitsFor(j) \cup {lock[p] : p \in RowsAwaited(j)}) \ {Nobody}

WaitsFor(a) == IF a \in Jobs THEN JobWaitsFor(a) ELSE RequestWaitsFor(a)

InCircle(a) ==   \* a is reached from itself
  /\ WaitsFor(a) # {}
  /\ \A C \in SUBSET (Jobs \cup Requests) :
       WaitsFor(a) \subseteq C /\ (\A b \in C : WaitsFor(b) \subseteq C) => a \in C

\* PostgreSQL fails one transaction of a circle, whoever it is: the request gets
\* an error page and its session is rolled back, the run ends as Ingest.tla says.
Victim(a) ==
  /\ InCircle(a)
  /\ \/ a \in Requests /\ Abort(a) /\ UNCHANGED pipeline
     \/ a \in Jobs /\ Pipeline!DatabaseError(a, "deadlock") /\ UNCHANGED <<faults, vars>>

-------------------------------------------------------------------------------
\* The two systems, step by step.

\* The UPDATE of observe() names the columns that changed; status is not one.
StatusAfterReset(j, p) == STATUS_NEW   \* Mutant: a posting seen again is new again.
StatusAfterObserve(j, p) == status[p]

\* A commit of stage 2, as the operator sees it: postings created are new, and
\* those seen again are as they were triaged.
Publish(j) ==
  /\ \/ Pipeline!Commit(j)
     \/ j \in Runs /\ Pipeline!CommitFailed(j)
  /\ LET touched == {IdOf[f] : f \in Pipeline!RolesOf(plan[j])} IN
     status' = [p \in Postings |-> IF p \notin touched THEN status[p]
                                   ELSE IF status[p] = NoStatus THEN STATUS_NEW
                                   ELSE StatusAfterObserve(j, p)]
  /\ UNCHANGED <<history, status_changed_at, lock, clock, pc, request, rows, todo, seen, now>>

JobStep(j) ==
  \/ Publish(j)
  \/ /\ \/ j \in Runs /\ (Pipeline!Collect(j) \/ Pipeline!Close(j))
        \/ Pipeline!Load(j) \/ Pipeline!LookUp(j) \/ Pipeline!WriteNothing(j)
        \/ Pipeline!GiveUp(j) \/ Pipeline!Relink(j)
        \/ \E k \in Pipeline!Key : \/ Pipeline!Collide(j, k)
                                   \/ (\A p \in RowsAwaited(j) : lock[p] = Nobody) /\ Pipeline!Write(j, k)
     /\ UNCHANGED vars

RequestStep(r) ==
  /\ Serve(r)
  /\ pc[r] = "locking" => \A p \in NextRow(r) : held[KeyOf(p)] = Nobody
  /\ UNCHANGED pipeline

Submit(r) ==
  /\ \/ Refuse(r)
     \/ \E p \in Postings, s \in STATUSES : SetStatus(r, p, s)
     \/ \E S \in SUBSET Postings, s \in STATUSES : SetStatusBulk(r, S, s)
     \/ Abort(r)
  /\ UNCHANGED pipeline

Start ==
  /\ \/ \E r \in Runs : Pipeline!Open(r)
     \/ \E c \in Normalisers, r \in Runs : Pipeline!StartNormalise(c, r)
  /\ UNCHANGED vars

Fault(j) ==
  /\ \/ j \in Runs /\ Pipeline!Fail(j)
     \/ Pipeline!LoseConnection(j)
     \/ Pipeline!Crash(j)
  /\ UNCHANGED vars

DeskNext ==
  \/ Start
  \/ \E j \in Jobs : JobStep(j) \/ Fault(j)
  \/ \E r \in Requests : Submit(r) \/ RequestStep(r)
  \/ \E a \in Jobs \cup Requests : Victim(a)

DeskSpec == DeskInit /\ [][DeskNext]_desk

-------------------------------------------------------------------------------
\* Properties.  HistoryChain and AllOrNothing of Triage hold of the composition
\* too: a run may lie between the lock of a request and its commit, a request
\* between the lookup of a run and its UPDATE, and no transition is lost.

\* A run that makes no posting, as one that finds again what is known does, never
\* waits in a circle: its UPDATEs leave in one flush, in the order of the ids, and
\* bulk requests lock in that order too ("ordered by id, avoiding deadlock",
\* set_status_bulk).  A circle needs a run that inserts.
Observers ==
  {j \in Jobs : stage[j] = "write" /\ Pipeline!RolesOf(raw[batch[j]]) \subseteq Pipeline!KnownRoles(known[j])}
CirclesNeedInsert ==
  \A C \in SUBSET (Observers \cup Requests) : C # {} => \E a \in C : WaitsFor(a) \cap C = {}
===============================================================================
