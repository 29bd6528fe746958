-------------------------------- MODULE Ingest --------------------------------
(***************************************************************************)
(* The pipeline: pipeline/runner.py (track_run, _run), collect_stage.py    *)
(* and normalise_stage.py, as several processes run it at once on one      *)
(* PostgreSQL database.  A run is one job of the scheduler, of the web's   *)
(* "run now" or of the CLI's run-all, with its own session; `normalise`    *)
(* on the CLI is a job of its own that folds an existing run and opens no  *)
(* run record, and `collect` there is a run of stage 1 alone.  Nothing     *)
(* keeps two jobs from overlapping.                                        *)
(*                                                                         *)
(* A listing stands for one raw payload: its board, and the role           *)
(* (fingerprint) and employer that normalise/ derives from it.  An INSERT  *)
(* or UPDATE is one step that takes the row (or the unique key) until the  *)
(* transaction ends; commit publishes everything at once.                  *)
(*                                                                         *)
(* Left out: descriptions, dates, employer enrichment, the counters of     *)
(* runs; of urls all but whether one has changed.                          *)
(***************************************************************************)
EXTENDS Naturals, SequencesExt

CONSTANTS Runs,        \* run ids; a run and the job that drives it share a name
          Normalisers, \* `normalise` invocations on the CLI
          Listings, Sites, Roles, Employers,
          SiteOf, RoleOf, EmployerOf,   \* of a listing, a listing, a role
          IdOf,        \* postings.id of a role: the primary key its row has or will get
          Defect,      \* of a listing: what in its payload its posting cannot be made of
          Offers,      \* Offers[r]: the batches the boards may return to run r
          Nobody,      \* no job
          MaxFaults    \* bound on crashes, lost connections and exceptions of stage 1

ASSUME IngestAssumption ==
  /\ SiteOf \in [Listings -> Sites]
  /\ RoleOf \in [Listings -> Roles]
  /\ EmployerOf \in [Roles -> Employers]
  /\ IdOf \in [Roles -> Nat] /\ \A f, g \in Roles : IdOf[f] = IdOf[g] => f = g
  /\ Defect \in [Listings -> {"none", "company", "title", "wide"}]
  /\ Offers \in [Runs -> SUBSET SUBSET Listings]
  /\ \A r \in Runs : \A S \in Offers[r] : IsFiniteSet(S)
  /\ Runs \cap Normalisers = {} /\ Nobody \notin Runs \cup Normalisers
  /\ MaxFaults \in Nat

Jobs == Runs \cup Normalisers

VARIABLES status,     \* status[r]: runs.status, "none" before the run is opened
          raw,        \* raw[r]: committed raw_postings of run r
          link,       \* committed raw_posting_normalizations: rows <<run, listing>>
          posting,    \* committed postings: who inserted it, sources: site -> first_seen
          employers,  \* committed employers.normalised_name
          pc, batch,  \* of a job: where it is, which run it folds (Nobody: none)
          plan,       \* rows of the batch it has read; once looked up, those it folds
          known,      \* postings as its batch lookup read them
          todo,       \* keys it has still to write, in the order of its flushes
          held,       \* held[k]: the job whose open transaction wrote key k
          verdict,    \* of a job: "ok" or the error that ended it
          faults       \* faults so far

store == <<status, raw, link, posting, employers>>
job   == <<pc, batch, plan, known, todo, verdict>>
vars  == <<store, job, held, faults>>

Posting == [role : Roles, born : Jobs, sources : [Sites -> Jobs \cup {Nobody}]]
Key     == ({"employer"} \X Employers) \cup ({"posting"} \X Roles)
Ended   == {"ok", "error", "dead"}
Working == {"open", "load", "lookup", "write", "commit", "close"}

Verdicts == {"ok", "exception", "duplicate", "already linked", "deadlock", "rejected", "lost"}

TypeOK ==
  /\ status \in [Runs -> {"none", "running", "success", "failed"}]
  /\ raw \in [Runs -> SUBSET Listings]
  /\ link \subseteq {x \in Runs \X Listings : x[2] \in raw[x[1]]}
  /\ posting \subseteq Posting
  /\ employers \subseteq Employers
  /\ pc \in [Jobs -> {"idle"} \cup Working \cup Ended]
  /\ batch \in [Jobs -> Runs \cup {Nobody}]
  /\ plan \in [Jobs -> SUBSET Listings]
  /\ known \in [Jobs -> SUBSET Posting]
  /\ todo \in [Jobs -> Seq(Key)]
  /\ held \in [Key -> Jobs \cup {Nobody}]
  /\ verdict \in [Jobs -> Verdicts]
  /\ faults \in 0..MaxFaults

Init ==
  /\ status = [r \in Runs |-> "none"]
  /\ raw = [r \in Runs |-> {}]
  /\ link = {} /\ posting = {} /\ employers = {}
  /\ pc = [j \in Jobs |-> "idle"]
  /\ batch = [j \in Jobs |-> Nobody]
  /\ plan = [j \in Jobs |-> {}]
  /\ known = [j \in Jobs |-> {}]
  /\ todo = [j \in Jobs |-> <<>>]
  /\ held = [k \in Key |-> Nobody]
  /\ verdict = [j \in Jobs |-> "ok"]
  /\ faults = 0

-------------------------------------------------------------------------------
\* How a job ends.

Release(j) == held' = [k \in Key |-> IF held[k] = j THEN Nobody ELSE held[k]]

\* The session is closed: locks go and so does what the job had in memory.
End(j, how, why) ==
  /\ pc' = [pc EXCEPT ![j] = how]
  /\ verdict' = [verdict EXCEPT ![j] = why]
  /\ plan' = [plan EXCEPT ![j] = {}]
  /\ known' = [known EXCEPT ![j] = {}]
  /\ todo' = [todo EXCEPT ![j] = <<>>]
  /\ Release(j)
  /\ UNCHANGED batch

\* A database error inside a flush rolls the transaction back and leaves the
\* session unusable until rollback() is called.  track_run's handler sets
\* 'failed' and calls commit() instead, which raises in its turn; then
\* session_scope rolls back.  No write of the job survives, its status included.
DatabaseErrorKeeps(j, why) ==  \* Mutant: flushed postings survive the failure.
  /\ End(j, "error", why)
  /\ posting' = posting \cup {[role |-> k[2], born |-> j, sources |-> [s \in Sites |-> j]] :
                               k \in {x \in Key : held[x] = j /\ x[1] = "posting" /\ x[2] \notin {p.role : p \in posting}}}
  /\ UNCHANGED <<status, raw, link, employers>>
DatabaseError(j, why) == End(j, "error", why) /\ UNCHANGED store

-------------------------------------------------------------------------------
\* track_run and stage 1.

\* `collect` ends with stage 1; every other run folds what it landed.
Open(r) ==
  /\ pc[r] = "idle"
  /\ status' = [status EXCEPT ![r] = "running"]
  /\ pc' = [pc EXCEPT ![r] = "open"]
  /\ \E b \in {r, Nobody} : batch' = [batch EXCEPT ![r] = b]
  /\ UNCHANGED <<raw, link, posting, employers, plan, known, todo, verdict, held,
                 faults>>

\* run_collect: a board that fails contributes no rows; what arrived is landed
\* in one commit.
Collect(r) ==
  /\ pc[r] = "open"
  /\ \E S \in Offers[r] : raw' = [raw EXCEPT ![r] = S]
  /\ pc' = [pc EXCEPT ![r] = IF batch[r] = r THEN "load" ELSE "close"]
  /\ UNCHANGED <<status, link, posting, employers, batch, plan, known, todo, verdict,
                 held, faults>>

\* An exception that is not the database's, while nothing is pending: no such
\* profile, a setting that does not validate.  The handler's commit succeeds.
Fail(r) ==
  /\ pc[r] = "open" /\ faults < MaxFaults
  /\ faults' = faults + 1
  /\ status' = [status EXCEPT ![r] = "failed"]
  /\ End(r, "error", "exception")
  /\ UNCHANGED <<raw, link, posting, employers>>

\* The connection is lost, or a statement fails for no fault of the data, in
\* whatever a job is doing: a commit, a lookup, the commit that lands its rows.
LoseConnection(j) ==
  /\ pc[j] \in Working /\ faults < MaxFaults
  /\ faults' = faults + 1
  /\ DatabaseError(j, "lost")

-------------------------------------------------------------------------------
\* Stage 2.

\* The CLI's `normalise`: any run on record, as often as the operator likes.
StartNormalise(c, r) ==
  /\ pc[c] \in {"idle", "ok", "error"}
  /\ status[r] # "none"
  /\ pc' = [pc EXCEPT ![c] = "load"]
  /\ batch' = [batch EXCEPT ![c] = r]
  /\ verdict' = [verdict EXCEPT ![c] = "ok"]
  /\ UNCHANGED <<store, plan, known, todo, held, faults>>

RolesOf(S) == {RoleOf[l] : l \in S}
KnownRoles(P) == {p.role : p \in P}

\* The batch lookups: plain SELECTs, no lock, each with a snapshot of its own.
\* First the rows and the postings of their roles; a run's rows never change once
\* it has landed them, so the two are one step, ...
RowsOfNew(r) == {l \in raw[r] : RoleOf[l] \notin KnownRoles(posting)}  \* Mutant: known roles are skipped.
RowsOf(r) == raw[r]

Load(j) ==
  /\ pc[j] = "load"
  /\ plan' = [plan EXCEPT ![j] = RowsOf(batch[j])]
  /\ known' = [known EXCEPT ![j] = {p \in posting : p.role \in RolesOf(RowsOf(batch[j]))}]
  /\ pc' = [pc EXCEPT ![j] = "lookup"]
  /\ UNCHANGED <<store, batch, todo, verdict, held, faults>>

\* ... then the employers.  What the loop does is decided with that: given the
\* roles F and the employers E found, in the order `rows` the rows came in, ...
Orders(S) == SetToSeqs(S)

\* ... a row makes its posting if it is the first of a role not found, ...
Makes(rows, F) == {i \in DOMAIN rows : /\ RoleOf[rows[i]] \notin F
                                       /\ \A h \in 1..(i - 1) : RoleOf[rows[h]] # RoleOf[rows[i]]}

\* ... and hires if its employer is new: it flushes what is pending, and the
\* employer with it, before it makes its posting.
Hires(rows, F, E) ==
  LET Name(i) == EmployerOf[RoleOf[rows[i]]] IN
    {i \in Makes(rows, F) : /\ Name(i) \notin E
                            /\ \A h \in Makes(rows, F) : h < i => Name(h) # Name(i)}

\* A company that is not a string cannot be stripped into a name, a title that is
\* none cannot be cut to its width: the row raises, each time it would make its
\* posting, and the loop ends there.
Raises(rows, F, E) ==
  {i \in Makes(rows, F) : \/ Defect[rows[i]] = "title"
                          \/ Defect[rows[i]] = "company" /\ i \in Hires(rows, F, E)}
Folds(rows, F, E) == {i \in DOMAIN rows : \A h \in Raises(rows, F, E) : i < h}
Hired(rows, F, E) ==      \* the row that raises over its title has hired before
  {i \in Hires(rows, F, E) : \A h \in Raises(rows, F, E) :
                                i < h \/ (i = h /\ Defect[rows[h]] = "title")}

\* Within a flush SQLAlchemy sends the new employer, then the UPDATEs of
\* postings in the order of their ids, then the INSERTs as they were added.
Before(a, b) ==
  \/ a.flush < b.flush
  \/ a.flush = b.flush /\ (a.turn < b.turn \/ (a.turn = b.turn /\ a.rank < b.rank))

UpdateRankByRow(rows, i) == i   \* Mutant: a flush after every row sends the UPDATEs as the rows come.
UpdateRank(rows, i) == IdOf[RoleOf[rows[i]]]

\* What folding the rows writes, H of them hiring, each key where the job first
\* takes it: a row's flush is the one that follows the hires before it, and its own.
Pending(rows, F, E, H) ==
  LET Role(i) == RoleOf[rows[i]]
      seen == {i \in Folds(rows, F, E) : Role(i) \in F /\ \A h \in 1..(i - 1) : Role(h) # Role(i)}
  IN  {[flush |-> Cardinality({h \in H : h < i}), turn |-> 0, rank |-> 0,
        key |-> <<"employer", EmployerOf[Role(i)]>>] : i \in H}
      \cup {[flush |-> Cardinality({h \in H : h < i}), turn |-> 1, rank |-> UpdateRank(rows, i),
             key |-> <<"posting", Role(i)>>] : i \in seen}
      \cup {[flush |-> Cardinality({h \in H : h <= i}), turn |-> 2, rank |-> i,
             key |-> <<"posting", Role(i)>>] : i \in Makes(rows, F) \cap Folds(rows, F, E)}

\* INSERTs of a value its column does not take (location_raw is 256 wide, job_type
\* 64; num_employees is 64, and enrich_from cuts at 1024).
Refused(rows, S) == {a \in S : a.turn = 2 /\ Defect[rows[a.rank]] = "wide"}

\* The keys of a set of writes in the order of the flushes.
Place(a, S) == Cardinality({b \in S : Before(b, a)})
InOrder(S) == [n \in 1..Cardinality(S) |-> (CHOOSE a \in S : Place(a, S) = n - 1).key]

\* The last flush is the commit's, of run_normalise or of track_run's handler;
\* `normalise` has no handler, and what it had not flushed when a row raised is
\* never sent.  Nor is what comes after a write that is refused.
LookUp(j) ==
  /\ pc[j] = "lookup"
  /\ \E rows \in Orders(plan[j]), F \in {KnownRoles(known[j])} :
     \E H \in {Hired(rows, F, employers)}, raised \in {Raises(rows, F, employers) # {}} :
     \E S \in {{a \in Pending(rows, F, employers, H) :
                 j \in Runs \/ ~raised \/ a.flush < Cardinality(H)}} :
     \E sent \in {{a \in S : \A b \in Refused(rows, S) : Before(a, b)}} :
     \E how \in {IF sent # S THEN "rejected" ELSE IF raised THEN "exception" ELSE "ok"} :
       /\ todo' = [todo EXCEPT ![j] = InOrder(sent)]
       /\ verdict' = [verdict EXCEPT ![j] = how]
       /\ plan' = [plan EXCEPT ![j] = IF how = "ok" \/ (how = "exception" /\ j \in Runs)
                                     THEN {rows[i] : i \in Folds(rows, F, employers)} ELSE {}]
  /\ pc' = [pc EXCEPT ![j] = "write"]
  /\ UNCHANGED <<store, batch, known, held, faults>>

Ready(j, k) == pc[j] = "write" /\ todo[j] # <<>> /\ k = Head(todo[j])

Inserts(j, k) == k[1] = "employer" \/ k[2] \notin KnownRoles(known[j])

\* The unique indexes: postings.fingerprint and employers.normalised_name.
TakenUnindexed(k) == FALSE   \* Mutant: no unique constraint.
Taken(k) == IF k[1] = "employer" THEN k[2] \in employers ELSE k[2] \in KnownRoles(posting)

\* An UPDATE, or an INSERT of a key nobody has.  A key another transaction has
\* written and not committed makes the job wait, whichever it is.
Write(j, k) ==
  /\ Ready(j, k) /\ held[k] = Nobody
  /\ ~(Inserts(j, k) /\ Taken(k))
  /\ held' = [held EXCEPT ![k] = j]
  /\ todo' = [todo EXCEPT ![j] = Tail(@)]
  /\ pc' = [pc EXCEPT ![j] = IF Len(todo[j]) = 1 THEN "commit" ELSE "write"]
  /\ UNCHANGED <<store, batch, plan, known, verdict, faults>>

\* Nothing to write: an empty batch.
WriteNothing(j) ==
  /\ pc[j] = "write" /\ todo[j] = <<>>
  /\ pc' = [pc EXCEPT ![j] = "commit"]
  /\ UNCHANGED <<store, batch, plan, known, todo, verdict, held, faults>>

\* The lookup is out of date: another job has inserted the role or the employer.
CollideRetries(j, k) ==  \* Mutant: the error is caught and the batch folded again, on the old lookup.
  /\ Ready(j, k) /\ held[k] = Nobody
  /\ Inserts(j, k) /\ Taken(k)
  /\ Release(j)
  /\ todo' = [todo EXCEPT ![j] = <<>>]
  /\ pc' = [pc EXCEPT ![j] = "lookup"]
  /\ UNCHANGED <<store, batch, plan, known, verdict, faults>>
Collide(j, k) ==
  /\ Ready(j, k) /\ held[k] = Nobody
  /\ Inserts(j, k) /\ Taken(k)
  /\ DatabaseError(j, "duplicate")
  /\ UNCHANGED faults

\* An INSERT is refused; or `normalise` ends in the exception of a row, and
\* session_scope rolls back what it had flushed.
GiveUp(j) ==
  /\ pc[j] = "commit"
  /\ verdict[j] = "rejected" \/ (verdict[j] = "exception" /\ j \in Normalisers)
  /\ DatabaseError(j, verdict[j])
  /\ UNCHANGED faults

\* PostgreSQL breaks a cycle of waiting transactions by failing one of them.
WaitsFor(j) == {held[k] : k \in {x \in Key : Ready(j, x)}} \ {Nobody}
Stuck(j) == WaitsFor(j) # {}
OnCycle(j) ==              \* j is reached from itself through waiting jobs
  \A C \in SUBSET Jobs :
    WaitsFor(j) \subseteq C /\ (\A i \in C : Stuck(i) => WaitsFor(i) \subseteq C) => j \in C

DeadlockVictim(j) ==
  /\ Stuck(j) /\ OnCycle(j)
  /\ DatabaseError(j, "deadlock")
  /\ UNCHANGED faults

BatchOfNew(j) ==           \* Mutant: only rows that made a posting are linked.
  {batch[j]} \X {l \in plan[j] : RoleOf[l] \notin KnownRoles(known[j])}
Batch(j) == {batch[j]} \X plan[j]

\* Posting.create: born with the sources of the rows of this batch.
FreshUnowned(j, f) == [role |-> f, born |-> Nobody, sources |-> [s \in Sites |-> Nobody]]  \* Mutant.
Fresh(j, f) == [role |-> f, born |-> j, sources |-> [s \in Sites |-> Nobody]]

\* Posting.observe on the row as the lookup read it: a board already there keeps
\* its first_seen, a new one is added.
ObserveResets(j, p) ==     \* Mutant: an existing first_seen is overwritten.
  [p EXCEPT !.sources =
     [s \in Sites |-> IF \E l \in plan[j] : RoleOf[l] = p.role /\ SiteOf[l] = s
                      THEN j ELSE p.sources[s]]]
Observe(j, p) ==
  [p EXCEPT !.sources =
     [s \in Sites |-> IF p.sources[s] = Nobody /\ \E l \in plan[j] : RoleOf[l] = p.role /\ SiteOf[l] = s
                      THEN j ELSE p.sources[s]]]

\* The UPDATE writes the whole `sources` value if it differs from the one read,
\* over whatever the row holds by now; otherwise it leaves the column alone.  It
\* differs by a board that is new, or by the url of one already there: `again` are
\* the roles found at another url.
Updated(j, p, again) ==
  IF \E q \in known[j] : q.role = p.role /\ q.born = p.born /\ (Observe(j, q) # q \/ p.role \in again)
  THEN Observe(j, CHOOSE q \in known[j] : q.role = p.role /\ q.born = p.born)
  ELSE p

Folded(j, again) ==
  {Updated(j, p, again) : p \in posting}
    \cup {Observe(j, Fresh(j, f)) : f \in RolesOf(plan[j]) \ KnownRoles(known[j])}

\* The employers flushed are those it holds, the one of a row that raised included.
Publish(j) ==
  /\ \E again \in SUBSET (RolesOf(plan[j]) \cap KnownRoles(known[j])) : posting' = Folded(j, again)
  /\ employers' = employers \cup {e \in Employers : held[<<"employer", e>>] = j}
  /\ link' = link \cup Batch(j)
  /\ UNCHANGED raw

\* run_normalise's commit, every row of the batch folded and linked.
Commit(j) ==
  /\ pc[j] = "commit" /\ verdict[j] = "ok"
  /\ Batch(j) \cap link = {}
  /\ Publish(j)
  /\ IF j \in Runs THEN pc' = [pc EXCEPT ![j] = "close"] ELSE pc' = [pc EXCEPT ![j] = "ok"]
  /\ Release(j)
  /\ known' = [known EXCEPT ![j] = {}]
  /\ plan' = [plan EXCEPT ![j] = {}]
  /\ UNCHANGED <<status, batch, todo, verdict, faults>>

\* track_run's handler after an exception in the loop: one commit closes the run
\* as failed and, with it, publishes the part of the batch already folded.
CommitFailed(r) ==
  /\ pc[r] = "commit" /\ verdict[r] = "exception"
  /\ Batch(r) \cap link = {}
  /\ Publish(r)
  /\ status' = [status EXCEPT ![r] = "failed"]
  /\ End(r, "error", "exception")
  /\ UNCHANGED faults

\* raw_posting_id is unique: a batch with a row that is already linked cannot
\* be folded again, in whole or in part.
Relink(j) ==
  /\ pc[j] = "commit"
  /\ Batch(j) \cap link # {}
  /\ DatabaseError(j, "already linked")
  /\ UNCHANGED faults

\* track_run's last commit.
Close(r) ==
  /\ pc[r] = "close"
  /\ status' = [status EXCEPT ![r] = "success"]
  /\ pc' = [pc EXCEPT ![r] = "ok"]
  /\ UNCHANGED <<raw, link, posting, employers, batch, plan, known, todo, verdict, held,
                 faults>>

\* The process dies (or is interrupted: track_run catches Exception only).
Crash(j) ==
  /\ pc[j] \in Working /\ faults < MaxFaults
  /\ faults' = faults + 1
  /\ End(j, IF j \in Runs THEN "dead" ELSE "error", "lost")
  /\ UNCHANGED store

Step(j) ==
  \/ j \in Runs /\ (Collect(j) \/ CommitFailed(j) \/ Close(j))
  \/ Load(j) \/ LookUp(j) \/ WriteNothing(j) \/ Commit(j) \/ GiveUp(j) \/ Relink(j) \/ DeadlockVictim(j)
  \/ \E k \in Key : Write(j, k) \/ Collide(j, k)

Next ==
  \/ \E r \in Runs : Open(r) \/ Fail(r)
  \/ \E c \in Normalisers, r \in Runs : StartNormalise(c, r)
  \/ \E j \in Jobs : Step(j) \/ LoseConnection(j) \/ Crash(j)

Spec == Init /\ [][Next]_vars

\* A job that runs goes on.  Strong fairness, because PostgreSQL queues the
\* transactions that wait for a row and wakes the first when the row is released.
\* The operator who finds rows left behind by a run tries `normalise` again.
FairSpec ==
  /\ Spec
  /\ \A j \in Jobs : SF_vars(Step(j))
  /\ \A c \in Normalisers, r \in Runs : SF_vars(StartNormalise(c, r))

-------------------------------------------------------------------------------
\* Properties.

\* One posting per role, however many runs find the role at the same moment:
\* the batch lookup goes stale, the unique index does not.
OnePostingPerRole == \A p, q \in posting : p.role = q.role => p = q

\* The rows of a run are folded all together or not at all, except where an
\* exception in the loop made track_run's handler commit a part of them.
FoldAllOrNothing ==
  \A r \in Runs : status[r] # "failed" =>
    \/ \A l \in raw[r] : <<r, l>> \notin link
    \/ \A l \in raw[r] : <<r, l>> \in link

\* A run of both stages is closed as a success only when every row it landed is
\* folded, by itself or by an operator who was faster.
SuccessMeansFolded ==
  \A r \in Runs : status[r] = "success" /\ batch[r] = r => \A l \in raw[r] : <<r, l>> \in link

\* However often and by whomever a posting is observed again, it keeps a board
\* whose first_seen is that of the job that created it.
OriginKept == \A p \in posting : \E s \in Sites : p.sources[s] = p.born

\* Every job that starts ends: no two wait for each other for ever.
EveryJobEnds == \A j \in Jobs : pc[j] \in Working ~> pc[j] \in Ended

\* A run that lost its stage 2 to a collision, a deadlock, the connection or a
\* crash loses nothing: `normalise`, tried again, folds all it landed.  But for a
\* run with a payload that no posting can be made of: it is refused each time,
\* unless other runs have made the posting (or, for a company, the employer) since.
Foldable(r) ==
  \A l \in raw[r] : \/ Defect[l] = "none" \/ RoleOf[l] \in KnownRoles(posting)
                    \/ Defect[l] = "company" /\ EmployerOf[RoleOf[l]] \in employers
Recoverable ==
  \A r \in Runs :
    (pc[r] \in Ended /\ raw[r] # {} /\ Foldable(r) /\ \A l \in raw[r] : <<r, l>> \notin link)
      ~> (\A l \in raw[r] : <<r, l>> \in link)

\* Each transaction lands a batch or folds rows of one run into their roles,
\* and nothing else happens to the store.
Ledger == INSTANCE DedupLedger WITH roles <- KnownRoles(posting)
ImplementsDedup == Ledger!Spec

\* "Re-runnable: processing the same raw rows again converges on the same state"
\* (normalise_stage.py, docstring).
NormaliseReRunnable == \A c \in Normalisers : verdict[c] # "already linked"

\* "A run left at 'running' means the process died outright" (track_run).
RunningMeansAliveOrDead ==
  \A r \in Runs : status[r] = "running" => pc[r] \in Working \cup {"dead"}

\* "Provenance is merged" (Posting.observe): every board whose row was folded
\* into a posting is among its sources.
ProvenanceComplete ==
  \A x \in link : \E p \in posting :
    p.role = RoleOf[x[2]] /\ p.sources[SiteOf[x[2]]] # Nobody
===============================================================================
