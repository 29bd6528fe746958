------------------------------ MODULE DeskProofs ------------------------------
(***************************************************************************)
(* Triage and the pipeline keep their promises on one table.  For any      *)
(* number of requests and runs, what the requests do is a behaviour of     *)
(* Triage.tla, in which a commit of stage 2 creates some postings or none; *)
(* and the invariant of Ingest.tla survives the waiting and the deadlocks  *)
(* that requests add.  What each proof says of its module it therefore     *)
(* says of the two together.  And one order, that of the ids, keeps        *)
(* requests and the runs that insert nothing from waiting in a circle.     *)
(***************************************************************************)
EXTENDS Desk, TriageLocks

\* The module `Pipeline` of Desk.tla again, with what is proved about it.
Stage2 == INSTANCE IngestProofs WITH status <- run_status, pc <- stage, todo <- writes

\* The postings a stage 2 commit of job j brings into the world.
NewBorn(j) ==
  {p \in Postings : status[p] = NoStatus /\ p \in {IdOf[f] : f \in Pipeline!RolesOf(plan[j])}}

LEMMA PublishMaps ==
  ASSUME TypeOK, NEW j \in Jobs, Publish(j)
  PROVE  [Next]_vars
<1> DEFINE S == NewBorn(j)
<1>1. status' = [p \in Postings |-> IF p \in S THEN STATUS_NEW ELSE status[p]]
  BY DEF Publish, NewBorn, StatusAfterObserve
<1>2. UNCHANGED <<history, status_changed_at, lock, clock, pc, request, rows, todo, seen, now>>
  BY DEF Publish
<1>3. S \in SUBSET Postings /\ S \cap Existing = {}
  BY DEF NewBorn, Existing
<1> HIDE DEF S
<1>4. CASE S = {}
  <2>1. status' = status
    BY <1>1, <1>4 DEF TypeOK
  <2> QED
    BY <1>2, <2>1 DEF vars, store
<1>5. CASE S # {}
  <2>1. Create(S)
    BY <1>1, <1>2, <1>3, <1>5 DEF Create
  <2> QED
    BY <1>3, <2>1 DEF Next
<1> QED
  BY <1>4, <1>5

\* Every other step of the composition is a step of a request or leaves triage
\* as it is.
LEMMA DeskStepMaps == TypeOK /\ [DeskNext]_desk => [Next]_vars
<1> SUFFICES ASSUME TypeOK, [DeskNext]_desk PROVE [Next]_vars
  OBVIOUS
<1>1. CASE UNCHANGED desk
  BY <1>1 DEF desk
<1>2. CASE Start
  BY <1>2 DEF Start
<1>3. ASSUME NEW j \in Jobs, JobStep(j)  PROVE [Next]_vars
  <2>1. CASE Publish(j)
    BY <2>1, PublishMaps
  <2>2. CASE ~Publish(j)
    BY <1>3, <2>2 DEF JobStep
  <2> QED
    BY <2>1, <2>2
<1>4. ASSUME NEW j \in Jobs, Fault(j)  PROVE [Next]_vars
  BY <1>4 DEF Fault
<1>5. ASSUME NEW r \in Requests, Submit(r)  PROVE [Next]_vars
  BY <1>5 DEF Submit, Next
<1>6. ASSUME NEW r \in Requests, RequestStep(r)  PROVE [Next]_vars
  BY <1>6 DEF RequestStep, Next
<1>7. ASSUME NEW a \in Jobs \cup Requests, Victim(a)  PROVE [Next]_vars
  <2>1. CASE a \in Requests /\ Abort(a)
    BY <2>1 DEF Next
  <2>2. CASE UNCHANGED vars
    BY <2>2
  <2> QED
    BY <1>7, <2>1, <2>2 DEF Victim
<1> QED
  BY <1>1, <1>2, <1>3, <1>4, <1>5, <1>6, <1>7 DEF DeskNext

\* The composition implements triage: a request sees of the pipeline what
\* Triage.tla says it may see, postings that appear.
THEOREM DeskImplementsTriage == DeskSpec => Spec
<1>1. DeskInit => Init
  BY DEF DeskInit
<1>2. IInv => TypeOK
  BY DEF IInv
<1> QED
  BY <1>1, <1>2, InitIInv, StepIInv, DeskStepMaps, PTL DEF DeskSpec, Spec

-------------------------------------------------------------------------------
\* The pipeline's side.

LEMMA Stage2Constants == Stage2!IngestAssumption
BY DeskAssumption DEF Pipeline!IngestAssumption, Stage2!IngestAssumption, Pipeline!IsFiniteSet,
                      Stage2!IsFiniteSet

\* `Pipeline` and `Stage2` are one module.
LEMMA SameCommits ==
  ASSUME NEW j \in Jobs
  PROVE  /\ Pipeline!Commit(j) <=> Stage2!Commit(j)
         /\ Pipeline!CommitFailed(j) <=> Stage2!CommitFailed(j)
BY DEF Pipeline!Commit, Stage2!Commit, Pipeline!CommitFailed, Stage2!CommitFailed,
       Pipeline!End, Stage2!End, Pipeline!Batch, Stage2!Batch, Pipeline!Publish,
       Stage2!Publish, Pipeline!Release, Stage2!Release, Pipeline!Key, Stage2!Key, Pipeline!Folded,
       Stage2!Folded, Pipeline!Updated, Stage2!Updated, Pipeline!Observe, Stage2!Observe,
       Pipeline!Fresh, Stage2!Fresh, Pipeline!RolesOf, Stage2!RolesOf, Pipeline!KnownRoles,
       Stage2!KnownRoles

LEMMA SameLookUp ==
  ASSUME NEW j \in Jobs
  PROVE  Pipeline!LookUp(j) <=> Stage2!LookUp(j)
BY DEF Pipeline!LookUp, Stage2!LookUp, Pipeline!Orders, Stage2!Orders, Pipeline!SetToSeqs,
       Stage2!SetToSeqs, Pipeline!Cardinality, Stage2!Cardinality, Pipeline!Makes, Stage2!Makes,
       Pipeline!Hires, Stage2!Hires, Pipeline!Raises, Stage2!Raises, Pipeline!Folds, Stage2!Folds,
       Pipeline!Hired, Stage2!Hired, Pipeline!Pending, Stage2!Pending, Pipeline!UpdateRank,
       Stage2!UpdateRank, Pipeline!Refused, Stage2!Refused, Pipeline!Before, Stage2!Before,
       Pipeline!Place, Stage2!Place, Pipeline!InOrder, Stage2!InOrder, Pipeline!KnownRoles,
       Stage2!KnownRoles, Pipeline!store, Stage2!store

LEMMA SameSteps ==
  ASSUME NEW j \in Jobs
  PROVE  /\ Pipeline!Collect(j) <=> Stage2!Collect(j)
         /\ Pipeline!Close(j) <=> Stage2!Close(j)
         /\ Pipeline!Load(j) <=> Stage2!Load(j)
         /\ Pipeline!WriteNothing(j) <=> Stage2!WriteNothing(j)
         /\ Pipeline!GiveUp(j) <=> Stage2!GiveUp(j)
         /\ Pipeline!Relink(j) <=> Stage2!Relink(j)
         /\ Pipeline!Fail(j) <=> Stage2!Fail(j)
         /\ Pipeline!LoseConnection(j) <=> Stage2!LoseConnection(j)
         /\ Pipeline!Crash(j) <=> Stage2!Crash(j)
<1>1. Pipeline!Load(j) <=> Stage2!Load(j)
  BY DEF Pipeline!Load, Stage2!Load, Pipeline!RowsOf, Stage2!RowsOf, Pipeline!RolesOf,
         Stage2!RolesOf, Pipeline!store, Stage2!store
<1>2. /\ Pipeline!Collect(j) <=> Stage2!Collect(j)
      /\ Pipeline!Close(j) <=> Stage2!Close(j)
      /\ Pipeline!WriteNothing(j) <=> Stage2!WriteNothing(j)
  BY DEF Pipeline!Collect, Stage2!Collect, Pipeline!Close, Stage2!Close, Pipeline!WriteNothing,
         Stage2!WriteNothing, Pipeline!store, Stage2!store
<1>3. /\ Pipeline!GiveUp(j) <=> Stage2!GiveUp(j)
      /\ Pipeline!Relink(j) <=> Stage2!Relink(j)
      /\ Pipeline!Fail(j) <=> Stage2!Fail(j)
      /\ Pipeline!LoseConnection(j) <=> Stage2!LoseConnection(j)
      /\ Pipeline!Crash(j) <=> Stage2!Crash(j)
  BY DEF Pipeline!GiveUp, Stage2!GiveUp, Pipeline!Relink, Stage2!Relink, Pipeline!Fail, Stage2!Fail,
         Pipeline!LoseConnection, Stage2!LoseConnection, Pipeline!Crash, Stage2!Crash,
         Pipeline!DatabaseError, Stage2!DatabaseError, Pipeline!End, Stage2!End, Pipeline!Release,
         Stage2!Release, Pipeline!Key, Stage2!Key, Pipeline!store, Stage2!store, Pipeline!Batch,
         Stage2!Batch, Pipeline!Working, Stage2!Working
<1> QED
  BY <1>1, <1>2, <1>3

LEMMA SameWrite ==
  ASSUME NEW j \in Jobs, NEW k \in Pipeline!Key
  PROVE  /\ k \in Stage2!Key
         /\ Pipeline!Write(j, k) <=> Stage2!Write(j, k)
         /\ Pipeline!Collide(j, k) <=> Stage2!Collide(j, k)
BY DEF Pipeline!Write, Stage2!Write, Pipeline!Collide, Stage2!Collide, Pipeline!Ready, Stage2!Ready,
       Pipeline!Inserts, Stage2!Inserts, Pipeline!Taken, Stage2!Taken, Pipeline!KnownRoles,
       Stage2!KnownRoles, Pipeline!DatabaseError, Stage2!DatabaseError, Pipeline!End, Stage2!End,
       Pipeline!Release, Stage2!Release, Pipeline!Key, Stage2!Key, Pipeline!store, Stage2!store

LEMMA Stage2Init == DeskInit => Stage2!IInv
<1> SUFFICES ASSUME DeskInit PROVE Stage2!IInv
  OBVIOUS
<1> USE Stage2Constants, DeskAssumption DEF Stage2!IngestAssumption
<1> DEFINE F == Pipeline!RolesOf(Landed)
<1>1. Landed \subseteq Listings /\ Stage2!IsFiniteSet(Landed) /\ Past \in Runs
  OBVIOUS
<1>2. F \subseteq Roles /\ \A f \in F : \E l \in Landed : RoleOf[l] = f /\ SiteOf[l] \in Sites
  BY <1>1 DEF Pipeline!RolesOf
<1> DEFINE row(f) == [role |-> f, born |-> Past,
                      sources |-> [s \in Sites |->
                                     IF \E l \in Landed : RoleOf[l] = f /\ SiteOf[l] = s
                                     THEN Past ELSE Nobody]]
<1>3. posting = {row(f) : f \in F}
  BY DEF DeskInit
<1>4. ASSUME NEW f \in F
      PROVE  /\ row(f) \in Stage2!Posting /\ row(f).role = f
             /\ \E s \in Sites : row(f).sources[s] = row(f).born
  BY <1>1, <1>2, <1>4 DEF Stage2!Posting, Stage2!Jobs
<1> HIDE DEF row, F
<1>5. Stage2!TypeOK
  <2>1. posting \subseteq Stage2!Posting
    BY <1>3, <1>4
  <2>2. employers \subseteq Employers
    BY <1>2 DEF DeskInit, F
  <2>3. run_status \in [Runs -> {"none", "running", "success", "failed"}]
        /\ raw \in [Runs -> SUBSET Listings]
        /\ link \subseteq {x \in Runs \X Listings : x[2] \in raw[x[1]]}
    BY <1>1 DEF DeskInit
  <2>4. /\ stage \in [Stage2!Jobs -> {"idle"} \cup Stage2!Working \cup Stage2!Ended]
        /\ batch \in [Stage2!Jobs -> Runs \cup {Nobody}]
        /\ plan \in [Stage2!Jobs -> SUBSET Listings]
        /\ known \in [Stage2!Jobs -> SUBSET Stage2!Posting]
        /\ writes \in [Stage2!Jobs -> Seq(Stage2!Key)]
        /\ held \in [Stage2!Key -> Stage2!Jobs \cup {Nobody}]
        /\ verdict \in [Stage2!Jobs -> Stage2!Verdicts]
        /\ faults \in 0..MaxFaults
    BY DEF DeskInit, Jobs, Stage2!Jobs, Stage2!Ended, Stage2!Key, Pipeline!Key, Stage2!Verdicts
  <2> QED
    BY <2>1, <2>2, <2>3, <2>4 DEF Stage2!TypeOK
<1>6. \A j \in Stage2!Jobs : stage[j] \in {"ok", "idle"} /\ ~ Stage2!InHand(j) /\ ~ Stage2!HasRead(j)
  BY DEF DeskInit, Jobs, Stage2!Jobs, Stage2!InHand, Stage2!HasRead
<1>7. Stage2!RunsTrack
  <2>1. \A r \in Runs : raw[r] = IF r = Past THEN Landed ELSE {}
    BY DEF DeskInit
  <2>2. \A r \in Runs : Stage2!IsFiniteSet(raw[r])
    BY <1>1, <2>1, Stage2!FS_EmptySet
  <2> QED
    BY <1>1, <1>6, <2>2 DEF DeskInit, Stage2!RunsTrack, Jobs, Stage2!Jobs
<1>8. /\ Stage2!NormalisersTrack /\ Stage2!PlanIsBatch /\ Stage2!Claims /\ Stage2!NothingLeft
      /\ Stage2!KnownStays /\ Stage2!KnownOrigins /\ Stage2!Ascends
  BY <1>6 DEF Stage2!Ascends, Stage2!NormalisersTrack, Stage2!PlanIsBatch, Stage2!Claims, Stage2!NothingLeft,
              Stage2!KnownStays, Stage2!KnownOrigins, Stage2!Jobs
<1>9. Stage2!OnePostingPerRole /\ Stage2!OriginKept
  BY <1>3, <1>4 DEF Stage2!OnePostingPerRole, Stage2!OriginKept
<1>10. Stage2!HeldInHand
  BY DEF DeskInit, Stage2!HeldInHand, Stage2!Key, Pipeline!Key, Stage2!Jobs
<1>11. Stage2!FoldAllOrNothing
  BY DEF DeskInit, Stage2!FoldAllOrNothing
<1> QED
  BY <1>5, <1>7, <1>8, <1>9, <1>10, <1>11 DEF Stage2!IInv

\* A step of Ingest.tla's own.
LEMMA OwnStep ==
  ASSUME Stage2!IInv, NEW j \in Jobs,
         Stage2!Step(j) \/ (j \in Runs /\ Stage2!Fail(j)) \/ Stage2!LoseConnection(j) \/ Stage2!Crash(j)
  PROVE  Stage2!IInv'
<1>1. Stage2!Next
  BY DEF Stage2!Next, Jobs, Stage2!Jobs
<1> QED
  BY <1>1, Stage2Constants, Stage2!StepIInv

\* A run that fails in a circle with requests fails as in one of runs alone.
LEMMA VictimStep ==
  ASSUME Stage2!IInv, NEW a \in Jobs, InCircle(a), Pipeline!DatabaseError(a, "deadlock"),
         UNCHANGED faults
  PROVE  Stage2!IInv'
<1>1. stage[a] \in Stage2!Working
  BY DEF InCircle, WaitsFor, JobWaitsFor, RowsAwaited, Pipeline!WaitsFor, Pipeline!Ready,
         Stage2!Working
<1>2. Stage2!DatabaseError(a, "deadlock")
  BY DEF Pipeline!DatabaseError, Stage2!DatabaseError, Pipeline!End, Stage2!End, Pipeline!Release,
         Stage2!Release, Pipeline!Key, Stage2!Key, Pipeline!store, Stage2!store
<1>3. faults' \in 0..MaxFaults /\ "deadlock" \in Stage2!Verdicts /\ a \in Stage2!Jobs
  BY DEF Stage2!IInv, Stage2!TypeOK, Stage2!Verdicts, Jobs, Stage2!Jobs
<1> QED
  BY <1>1, <1>2, <1>3, Stage2Constants, Stage2!DatabaseErrorStep

LEMMA Stage2Step == Stage2!IInv /\ [DeskNext]_desk => Stage2!IInv'
<1> SUFFICES ASSUME Stage2!IInv, [DeskNext]_desk PROVE Stage2!IInv'
  OBVIOUS
<1>1. ASSUME UNCHANGED pipeline  PROVE Stage2!IInv'
  <2>1. UNCHANGED Stage2!vars
    BY <1>1 DEF pipeline, Stage2!vars, Stage2!store, Stage2!job
  <2> QED
    BY <2>1, Stage2Constants, Stage2!StepIInv
<1>2. CASE Start
  <2>1. ASSUME NEW r \in Runs, Pipeline!Open(r)  PROVE Stage2!Open(r)
    BY <2>1 DEF Pipeline!Open, Stage2!Open
  <2>2. ASSUME NEW c \in Normalisers, NEW r \in Runs, Pipeline!StartNormalise(c, r)
        PROVE  Stage2!StartNormalise(c, r)
    BY <2>2 DEF Pipeline!StartNormalise, Stage2!StartNormalise, Pipeline!store, Stage2!store
  <2>3. Stage2!Next
    BY <1>2, <2>1, <2>2 DEF Start, Stage2!Next
  <2> QED
    BY <2>3, Stage2Constants, Stage2!StepIInv
<1>3. ASSUME NEW j \in Jobs, JobStep(j)  PROVE Stage2!IInv'
  <2>1. CASE Pipeline!Commit(j) \/ (j \in Runs /\ Pipeline!CommitFailed(j))
    BY <2>1, SameCommits, OwnStep DEF Stage2!Step
  <2>2. CASE j \in Runs /\ (Pipeline!Collect(j) \/ Pipeline!Close(j))
    BY <2>2, SameSteps, OwnStep DEF Stage2!Step
  <2>3. CASE \/ Pipeline!Load(j) \/ Pipeline!LookUp(j) \/ Pipeline!WriteNothing(j)
             \/ Pipeline!GiveUp(j) \/ Pipeline!Relink(j)
    BY <2>3, SameSteps, SameLookUp, OwnStep DEF Stage2!Step
  <2>4. ASSUME NEW k \in Pipeline!Key, Pipeline!Collide(j, k) \/ Pipeline!Write(j, k)
        PROVE  Stage2!IInv'
    BY <2>4, SameWrite, OwnStep DEF Stage2!Step
  <2> QED
    BY <1>3, <2>1, <2>2, <2>3, <2>4 DEF JobStep, Publish
<1>4. ASSUME NEW j \in Jobs, Fault(j)  PROVE Stage2!IInv'
  BY <1>4, SameSteps, OwnStep DEF Fault
<1>5. ASSUME NEW r \in Requests, Submit(r) \/ RequestStep(r)  PROVE Stage2!IInv'
  BY <1>1, <1>5 DEF Submit, RequestStep
<1>6. ASSUME NEW a \in Jobs \cup Requests, Victim(a)  PROVE Stage2!IInv'
  BY <1>1, <1>6, VictimStep DEF Victim
<1>7. CASE UNCHANGED desk
  BY <1>1, <1>7 DEF desk
<1> QED
  BY <1>2, <1>3, <1>4, <1>5, <1>6, <1>7 DEF DeskNext

-------------------------------------------------------------------------------
\* The two together.

DInv == IInv /\ Stage2!IInv

LEMMA DeskInvariance == DeskSpec => []DInv
<1>1. DeskInit => DInv
  <2> SUFFICES ASSUME DeskInit PROVE DInv
    OBVIOUS
  <2>1. IInv
    BY InitIInv DEF DeskInit
  <2> QED
    BY <2>1, Stage2Init DEF DInv
<1>2. DInv /\ [DeskNext]_desk => DInv'
  <2>1. IInv /\ [DeskNext]_desk => IInv'
    BY DeskStepMaps, StepIInv DEF IInv
  <2> QED
    BY <2>1, Stage2Step DEF DInv
<1> QED
  BY <1>1, <1>2, PTL DEF DeskSpec

-------------------------------------------------------------------------------
\* Who waits for whom, row by row.

Wants(a, p) ==
  \/ a \in Requests /\ pc[a] = "locking" /\ p \in NextRow(a)
  \/ a \in Jobs /\ \E k \in Stage2!Key : Stage2!Ready(a, k) /\ k[1] = "posting" /\ p = IdOf[k[2]]
Has(a, p) ==
  \/ a \in Requests /\ lock[p] = a
  \/ a \in Jobs /\ \E k \in Stage2!Key : held[k] = a /\ k[1] = "posting" /\ p = IdOf[k[2]]

LEMMA KeyOfId == ASSUME NEW f \in Roles PROVE KeyOf(IdOf[f]) = <<"posting", f>>
BY DeskAssumption DEF Pipeline!IngestAssumption, KeyOf

\* The next key of an observer is a posting's.
LEMMA ObserverNext ==
  ASSUME DInv, NEW a \in Observers, NEW k \in Stage2!Key, Stage2!Ready(a, k)
  PROVE  /\ k[1] = "posting" /\ k[2] \in Roles
         /\ \A x \in Stage2!Key : held[x] = a => x[1] = "posting" /\ IdOf[x[2]] < IdOf[k[2]]
<1>1. a \in Stage2!Jobs /\ Stage2!ByIds(writes[a], {x \in Stage2!Key : held[x] = a})
  <2>1. a \in Stage2!Jobs /\ stage[a] = "write"
        /\ Stage2!RolesOf(raw[batch[a]]) \subseteq Stage2!KnownRoles(known[a])
    BY DEF Observers, Jobs, Stage2!Jobs, Pipeline!RolesOf, Stage2!RolesOf, Pipeline!KnownRoles,
           Stage2!KnownRoles
  <2> QED
    BY <2>1 DEF DInv, Stage2!IInv, Stage2!Ascends
<1>2. writes[a] \in Seq(Stage2!Key) /\ writes[a] # <<>> /\ k = Head(writes[a])
  BY <1>1 DEF DInv, Stage2!IInv, Stage2!TypeOK, Stage2!Ready
<1>3. 1 \in DOMAIN writes[a] /\ k = writes[a][1]
  BY <1>2
<1>4. k[1] = "posting" /\ \A x \in Stage2!Key : held[x] = a => x[1] = "posting" /\ IdOf[x[2]] < IdOf[k[2]]
  BY <1>1, <1>3 DEF Stage2!ByIds
<1> QED
  BY <1>4 DEF Stage2!Key

\* Somebody waits for a row another has.
LEMMA WaitsForARow ==
  ASSUME DInv, NEW a \in Observers \cup Requests, NEW b \in WaitsFor(a)
  PROVE  \E p \in Postings : Wants(a, p) /\ Has(b, p)
<1>0. /\ Postings = {IdOf[f] : f \in Roles} /\ Requests \cap Jobs = {} /\ Nobody \notin Requests \cup Jobs
      /\ Jobs = Stage2!Jobs
  BY DeskAssumption, TriageAssumption DEF Pipeline!IngestAssumption, Jobs, Stage2!Jobs
<1>1. lock \in [Postings -> Requests \cup {Nobody}] /\ held \in [Stage2!Key -> Jobs \cup {Nobody}]
  BY <1>0 DEF DInv, IInv, TypeOK, Stage2!IInv, Stage2!TypeOK
<1>2. CASE a \in Requests
  <2>0. b \in RequestWaitsFor(a)
    BY <1>0, <1>2 DEF WaitsFor
  <2>1. pc[a] = "locking" /\ b # Nobody
    <3>1. CASE pc[a] = "locking"
      <4> DEFINE U == UNION {{lock[p], held[KeyOf(p)]} : p \in NextRow(a)}
      <4>1. RequestWaitsFor(a) = U \ {Nobody}
        BY <3>1, Zenon DEF RequestWaitsFor
      <4> HIDE DEF U
      <4> QED
        BY <2>0, <3>1, <4>1
    <3>2. CASE pc[a] # "locking"
      BY <2>0, <3>2 DEF RequestWaitsFor
    <3> QED
      BY <3>1, <3>2
  <2>2. PICK p \in NextRow(a) : b \in {lock[p], held[KeyOf(p)]}
    BY <2>0, <2>1, Zenon DEF RequestWaitsFor
  <2>3. p \in Postings
    BY <1>2 DEF NextRow, DInv, IInv, TypeOK
  <2>4. PICK f \in Roles : p = IdOf[f]
    BY <1>0, <2>3
  <2>5. KeyOf(p) = <<"posting", f>> /\ <<"posting", f>> \in Stage2!Key
    BY <2>4, KeyOfId DEF Stage2!Key
  <2>6. Has(b, p)
    BY <1>1, <2>1, <2>2, <2>3, <2>4, <2>5 DEF Has
  <2> QED
    BY <1>2, <2>1, <2>3, <2>6 DEF Wants
<1>3. CASE a \in Observers
  <2>1. a \in Jobs /\ b \in JobWaitsFor(a)
    BY <1>3 DEF Observers, WaitsFor
  <2>2. b # Nobody
    BY <2>1 DEF JobWaitsFor
  <2>3. PICK k \in Stage2!Key : /\ Stage2!Ready(a, k)
                                /\ b = held[k] \/ (k[1] = "posting" /\ b = lock[IdOf[k[2]]])
    BY <2>1 DEF JobWaitsFor, RowsAwaited, Pipeline!WaitsFor, Pipeline!Key, Stage2!Key, Pipeline!Ready,
                Stage2!Ready
  <2>4. k[1] = "posting" /\ k[2] \in Roles
    BY <1>3, <2>3, ObserverNext
  <2>5. IdOf[k[2]] \in Postings
    BY <1>0, <2>4
  <2>6. Wants(a, IdOf[k[2]])
    BY <2>1, <2>3, <2>4 DEF Wants
  <2>7. Has(b, IdOf[k[2]])
    BY <1>1, <2>2, <2>3, <2>4, <2>5 DEF Has
  <2> QED
    BY <2>5, <2>6, <2>7
<1> QED
  BY <1>2, <1>3

\* Whoever has a row and wants another wants a greater one.
LEMMA WantsGreater ==
  ASSUME DInv, LocksAscend, NEW a \in Observers \cup Requests, NEW p \in Postings, NEW q \in Postings,
         Wants(a, p), Has(a, q)
  PROVE  q < p
<1>0. Requests \cap Jobs = {}
  BY DeskAssumption
<1>1. CASE a \in Requests
  <2>1. pc[a] = "locking" /\ p \in todo[a] /\ lock[q] = a
    BY <1>0, <1>1 DEF Wants, Has, NextRow
  <2>2. q \in rows[a] \ todo[a]
    BY <1>1, <2>1 DEF DInv, IInv, LocksHeld
  <2> QED
    BY <1>1, <2>1, <2>2 DEF LocksAscend
<1>2. CASE a \in Observers
  <2>1. a \in Jobs
    BY <1>2 DEF Observers
  <2>2. PICK k \in Stage2!Key : Stage2!Ready(a, k) /\ p = IdOf[k[2]]
    BY <1>0, <2>1 DEF Wants
  <2>3. PICK x \in Stage2!Key : held[x] = a /\ q = IdOf[x[2]]
    BY <1>0, <2>1 DEF Has
  <2> QED
    BY <1>2, <2>2, <2>3, ObserverNext
<1> QED
  BY <1>1, <1>2

\* Of the rows some member of a circle wants from another, take the greatest:
\* who has it wants a greater one.
LEMMA NoCircleOfObservers ==
  ASSUME NEW N \in Nat, Postings \subseteq 0..N, DInv, LocksAscend
  PROVE  CirclesNeedInsert
<1> SUFFICES ASSUME NEW C \in SUBSET (Observers \cup Requests), C # {},
                    \A a \in C : WaitsFor(a) \cap C # {}
             PROVE  FALSE
  BY DEF CirclesNeedInsert
<1> DEFINE Wanted == {p \in Postings : \E a, b \in C : Wants(a, p) /\ Has(b, p)}
<1>1. ASSUME NEW a \in C  PROVE \E p \in Wanted : Wants(a, p)
  <2>1. PICK b \in C : b \in WaitsFor(a)
    OBVIOUS
  <2>2. PICK p \in Postings : Wants(a, p) /\ Has(b, p)
    BY <2>1, WaitsForARow
  <2> QED
    BY <2>2
<1>2. Wanted \in SUBSET (0..N) /\ Wanted # {}
  BY <1>1
<1>3. PICK p \in Wanted : \A y \in Wanted : y <= p
  BY <1>2, GreatestElement
<1>4. PICK b \in C : Has(b, p)
  OBVIOUS
<1>5. PICK y \in Wanted : Wants(b, y)
  BY <1>1
<1>6. p < y
  BY <1>4, <1>5, WantsGreater
<1>7. y <= p /\ y \in 0..N /\ p \in 0..N
  BY <1>2, <1>3, <1>5
<1> QED
  BY <1>6, <1>7

-------------------------------------------------------------------------------
\* Theorems.

\* A run that observes postings again while requests move them, and inserts
\* others, breaks no posting's history: run_normalise's UPDATE leaves the status
\* alone, and its INSERT comes without a history row.
THEOREM DeskHistoryIsChained == DeskSpec => []HistoryChain
<1>1. DInv => HistoryChain
  BY DEF DInv, IInv
<1> QED
  BY <1>1, DeskInvariance, PTL

\* A request is whole also when a run makes it wait, or a deadlock with a run
\* ends it: in the composition, too, it is one step of the ledger or none.
THEOREM DeskRequestsAreAtomic == DeskSpec => []AllOrNothing /\ ImplementsLedger
<1> QED
  BY DeskImplementsTriage, RequestsAreAllOrNothing, RequestsAreAtomic, PTL

\* What run_normalise promises it keeps among requests that hold its rows, make
\* it wait and cost it its transaction.
THEOREM DeskPipelineKeepsFaith ==
  DeskSpec => [](/\ Pipeline!OnePostingPerRole /\ Pipeline!FoldAllOrNothing
                 /\ Pipeline!SuccessMeansFolded /\ Pipeline!OriginKept)
<1>1. DInv => /\ Pipeline!OnePostingPerRole /\ Pipeline!FoldAllOrNothing
              /\ Pipeline!SuccessMeansFolded /\ Pipeline!OriginKept
  BY DEF DInv, Stage2!IInv, Stage2!OnePostingPerRole, Pipeline!OnePostingPerRole,
         Stage2!FoldAllOrNothing, Pipeline!FoldAllOrNothing, Stage2!RunsTrack,
         Pipeline!SuccessMeansFolded, Stage2!OriginKept, Pipeline!OriginKept
<1> QED
  BY <1>1, DeskInvariance, PTL

\* Runs that only find again what is known, and requests, never wait in a circle:
\* run_normalise's UPDATEs leave in one flush by id, and set_status_bulk locks by
\* id too.  Ids are bounded: the column is an INTEGER.
THEOREM DeskCirclesNeedInsert ==
  ASSUME NEW N \in Nat, Postings \subseteq 0..N
  PROVE  DeskSpec => []CirclesNeedInsert
<1>1. DInv /\ LInv => CirclesNeedInsert
  BY NoCircleOfObservers DEF LInv
<1> QED
  BY <1>1, DeskInvariance, DeskImplementsTriage, LInvariance, PTL

===============================================================================
