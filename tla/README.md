# Formal model of the job-discovery pipeline

TLA+ modules, TLC configurations and TLAPS proofs for the application under
`src/app`: a pipeline that collects job listings from boards, folds them into
one posting per real-world role, and a web interface in which an operator
triages them. Paths below are relative to `src/app/src/app` unless they begin
with `src/`. `PROJECT.json` maps each definition to the lines it stands for.

Run everything from this directory:

    tlc -workers 2 -config Triage.cfg MCTriage     # likewise for the other runs
    tlapm TriageProofs.tla                          # and TriageLocks, IngestProofs,
      # DeskProofs, SchedulerProofs, VisibilityProofs, CollectProofs, FingerprintProofs

## 1. The system

Two long-lived processes (`src/app/docker-compose.yml`) and a command line
share one PostgreSQL database and nothing else: the **web** container, whose
plain handlers run in a thread pool and whose `async` ones (settings, profile
create and update) hold the event loop; the **scheduler** container, whose jobs
run in APScheduler's threads; and `python -m app <stage>`, by hand. No code
takes a lock outside the database, and every transaction is READ COMMITTED. So
what is hard is: two requests on one row; two runs that see one role; a read
made of several statements; a read that is written back later; a process that
dies between two commits; a session left unusable by an error; configuration
and schedules that are edited while they are in use.

| Component | State | Operations | Meets others through | Correct when | Hard part |
|---|---|---|---|---|---|
| Triage (`services/triage.py`, `Posting.transition_to`) | `postings.status`, `status_changed_at`, `posting_status_history` | `set_status`, `set_status_bulk` | row locks on `postings`; stage 2 creates postings | history is a chain ending at the status; a request is atomic; no deadlock | lock order, time of the stamp, abort in the middle |
| Runs and stage 2 (`pipeline/runner.py`, `normalise_stage.py`) | `runs`, `raw_postings`, links, `postings`, `employers` | `track_run`, `run_normalise`, CLI `collect`, `normalise`, `run-all`, web "run now" | unique keys; `sources` read early and written late | one posting per role; rows folded together; nothing landed is lost; provenance complete | lookups go stale; deadlock; errors in the handler; crashes; re-runs |
| Collection (`collect/client.py`, `collect_stage.py`) | a `CollectionResult` in memory | `collect_one`, `collect_all`, `run_collect` | the boards, through JobSpy; `RunConfig` | the books balance; one delay and limit for the whole run | boards that fail in one search and not in the next |
| Settings (`services/settings.py`, `config.py`) | `app_settings` | `set_many`, `get`, `RunConfig.resolve` | runs that resolve while it saves | a save is whole; a run has one configuration, once in effect | autoflush takes rows key by key; nine reads |
| Scheduler (`scheduler.py`) | jobs and a signature, in memory | reload, register, fire | polls `search_profiles` | enabled profiles, and only those, have jobs | two reads, error between them, restart |
| Profiles (`services/profiles.py`) | `search_profiles` | create, update, enable, delete | polled by the scheduler; read by runs | names unique, schedule as entered | edits that cross |
| Blacklist and visibility (`services/blacklist.py`, `db/visibility.py`) | `employers.suppressed` | blacklist, lift, `not_suppressed` | every read over postings | hidden everywhere, restored exactly | reads made of several statements |
| Read models and reports (`services/queries.py`, `reports.py`) | none | list, totals, facets, reports | all tables | figures of a page agree; pages partition | same |
| Fingerprints (`normalise/`) | none | `build_fingerprint` and its parts | decides what one role is | equal for one role over boards, different for two roles | rules whose order matters; bilingual names; tags on titles |
| Schema, migrations, CLI, templates, deployment | — | — | — | — | — |

The hazards this leads to, each at its line, are in `PROJECT.json` under
`hazards`, with the properties aimed at them or the reason there is none.

## 2. The modules

| Module | What it is | Implements / extends |
|---|---|---|
| `TriageLedger` | what triage promises: a request is one step | — |
| `Triage` | triage requests as transactions | implements `TriageLedger` |
| `DedupLedger` | what the pipeline promises: batches land, rows fold into their role | — |
| `Ingest` | runs and stage 2 as concurrent jobs | implements `DedupLedger` |
| `Desk` | triage requests and pipeline runs on one `postings` table | extends `Triage`, instantiates `Ingest` |
| `Fingerprint` | which listings are one role | what `RoleOf` and `EmployerOf` of `Ingest` stand for |
| `Visibility` | blacklist, lift, and the reads of the list, the blacklist page and the reports | takes triage and stage 2 as whole steps |
| `Scheduler` | profile edits and the polling scheduler | — |
| `Settings` | saves and the resolution of a run's configuration | — |
| `Collect` | stage 1 composed with `Settings` | extends `Settings` |
| `MC*` | the small instances | extend the module they are named for |
| `*Proofs` | theorems for every value of the constants | extend the module they are named for; `DeskProofs` also builds on those of `Triage` and `Ingest`, `CollectProofs` covers `Settings` |
| `TriageLocks` | theorems about the order of locks and clock reads | extends `TriageProofs` |

### Triage

`pc[r]` is where a request is in its handler: `select` before the
`SELECT ... FOR UPDATE` is sent, `locking` while PostgreSQL takes its row locks
one by one, `transition` with all of them, `commit` when the flush is done.
`Arrive` is the route up to the service; `Select` fixes which rows match (the
statement's snapshot), `Lock` takes the next row and reads it as it then is,
`Transition` reads the clock in `set_status` (`set_status_bulk` read it on
arrival, before its locks), `Commit` publishes status, timestamp and history
row together, `Abort` is `get_db` closing the session after a lost connection
or a dying container. `Create(S)` is what a commit of stage 2 does here: it brings
the new postings of a batch into the world, all at once. `Init` is a database after
the migration that introduced the history: an existing posting has one baseline row.

### Ingest

A job is a run of `track_run` (`open`, `load`, `lookup`, `write`, `commit`,
`close`) or a `normalise` from the command line. `Load` reads the raw rows and the
postings of their roles, `LookUp` the employers, in a snapshot of its own, and
decides what the loop makes of the batch, given the order in which the query
returned the rows (there is no ORDER BY, so any): which rows make a posting
(`Makes`), which hire (`Hires`), at which the loop raises (`Raises`), and the
INSERTs and UPDATEs in the order SQLAlchemy sends them (`Pending` holds the writes
with what their order depends on, `InOrder` puts them in it; a batch is finite). A
row with a new employer flushes everything pending, and then the employer; within a
flush a new employer goes first, then UPDATEs by id, then INSERTs as added.

What a payload can have that no posting can be made of is `Defect`, a constant of
the listing: it is there again each time the batch is read. A company that is not a
string raises when an employer is made of it, a title that is not one when a posting
is, and a value too wide for its column is refused by the database when its INSERT
is sent. `todo` ends at the write that fails. `Write` is one statement and takes its
key until the transaction ends; `Collide` is the insert of a key that another job
has committed since the lookup; `DeadlockVictim` is PostgreSQL breaking a circle.
After an exception of the program `track_run`'s handler commits, and with the status
publishes the part of the batch that was folded, its new employers included
(`CommitFailed`); `normalise` has no such handler and rolls back (`GiveUp`). After a
*database* error, in stage 2 or at any statement before or after it
(`LoseConnection`), the handler's commit raises, so nothing is written at all, the
status included (`DatabaseError`). `Observe` computes `sources` from the lookup's
value and `Updated` writes it over whatever is there, as the ORM does if the value
differs from the one read: by a new board, or by a new url of one already listed
(`again`).

### Desk

`Triage` and `Ingest` each take the other's commits for granted; here both run,
on the same rows. `Pipeline` is `Ingest` with its control variables renamed
(`run_status`, `stage`, `writes`). A request that wants a row stage 2 has updated
waits, and the other way round (`RequestWaitsFor`, `JobWaitsFor`; an INSERT waits
for no row lock); `InCircle` is what PostgreSQL's deadlock detector looks for, over
requests and jobs together, and `Victim` fails one of the circle, whichever it is.
That the detector breaks every circle is PostgreSQL's merit and no property here;
which circles this code can make at all is one (`CirclesNeedInsert`): none of
requests and runs that only observe, since both take their rows by id. `Publish` is a stage 2
commit as triage sees it: new postings are `new`, observed ones keep their
status, since `observe` assigns no triage column. What `Ingest` assumes of its constants is
assumed here too, and that ids of postings are those of roles (`DeskAssumption`).
`DeskInit` has one folded run
behind it, so that the next observes postings and creates others.

### Fingerprint

A text is a sequence of tokens: a word up to case and accents, a dotted acronym,
a number, a gender marker or a mark (`-`, `|`). `Listings` is what boards make of
a role: the employer with or without its legal form and its Arabic name, the
title with tags and markers, the location with or without country and postcode.
The operators follow the functions step by step, in their order. The module has
one action, `Build`; its properties compare what it yields with the role the
listing was made from. Nothing in it is recursive: what a rule drops it drops
wherever it stands, so `At` picks the tokens of a text at some positions and
`Without` those it keeps. Which words are names, forms, tags, places and noise is
free within four assumptions, each about the vocabulary of the boards and of the
code's tables, none about the rules. The cases the rules cannot decide are named and left out
of what the properties promise (section 6).

### Visibility

One step per SQL statement: a reader's `pc` names the statement it sends next,
`got` is what it has been told. Writers (a posting collected, a triage request,
a flag) commit between any two. A country or figure is kept as the set of
postings it counts, so that "the figures agree" can be said of sets.
`began`, `clean`, `judged` and `steady` are history: how many writes there had been,
which employers were not suppressed at some moment of the request, the status each
posting was given last, by the operator or at birth, and the postings that since the
request began nobody moved and no blacklist reached. `judged` is written by
`Collect` and triage and never by a flag, so that "as the operator last judged it"
has a meaning apart from `status`. `BulkThenList` is
`POST /postings/status`: it commits and renders the list in the same session,
which (`expire_on_commit=False`) still holds the objects it changed, so `Rows`
shows those as held and the others as read (`session`). An object nothing refers
to may be collected at any time; `alive` is the set that was not. `everything` is
`show_suppressed` or `show_disabled`.

### Scheduler

`Reload` reads the signature and stores it; `RemoveJob`, `ReadSpecs`, `AddJob`,
`Added` are `_register_jobs`; edits commit between any two of them. `updated_at`
is `func.now()`, different for different transactions, so the edit's request
stands for it. `ReadFails` is a database error in either session: the first
time it ends `build_scheduler` and the process, later only the reload job's
call. `polled`, `torn` and `cut` are history: what was enabled at the last
poll, whether the second read saw a different table, whether an error ended
the registration.

### Settings and Collect

`ReadKey`/`WriteKey` are one turn of `set_many`'s loop: `session.get`, which
autoflushes the write of the turn before, then the assignment. A save holds the
event loop of its web process, so two saves overlap only when two web processes
run (the container and a host-side `python -m app web`, which the development
guide describes); each saver of the model is of a process of its own.
`Resolve` reads one key; `Query` is one board of one search; `EndSearch` merges
as `collect_all` does; `Land` is the one commit.

## 3. What the runs check

| Run | States | Shows |
|---|---|---|
| `Triage` | 148 000 | chain, atomicity, no circular wait, ordered stamps, refinement; every request ends |
| `Ingest` | 61 000 | one posting per role; a run's rows are folded together unless an exception in the loop cut them; success means folded; an origin is never lost; every job ends; what a failure left is folded by a later `normalise`, unless a payload no posting can be made of is in it; refinement |
| `Desk` | 943 000 | with a run and a `normalise` over the same postings the history stays a chain; no circle of waiting requests and runs without a run that inserts |
| `Fingerprint` | 836 000 | employer and title of a fingerprint are those of the role; the country is never guessed, but for the cases named; roles stay apart |
| `Visibility` | 1 578 000 | nothing hidden shows; a quiet page's figures agree, also the reports' with the list's; pages partition the list; what a blacklist hid a lift brings back, as last judged; a flag request takes effect; the list after a bulk change shows no status from before it |
| `Scheduler` | 598 000 | jobs mirror the profiles as polled; a registration read later than its signature, and not noticed by the next poll, lacks no enabled profile; in step in the end |
| `Collect` | 475 000 | a configuration is current and fixed, delay included; the books balance; a save is whole and ends |

Five runs find the code to differ from what the repository says of it. The
`findings` of `PROJECT.json` quote both sides.

| Run | Difference |
|---|---|
| `IngestRerun` | stage 2 is "re-runnable" and idempotent; the second time it raises |
| `IngestRunning` | "left at 'running' means the process died"; a database error leaves it so too, whichever statement fails |
| `IngestProvenance` | "provenance is merged"; overlapping runs lose a board, also when the second merely saw a new url of an old one |
| `VisibilityProfiles` | blacklisting hides from "every operator-facing view"; the report by profile counts on |
| `SchedulerFault` | each enabled profile runs on its schedule; one failed read ends that for all |

Two more things one might expect do not hold; no run is spent on them. A bulk
request reads the clock before it waits for its locks, so the history row with
the greatest `changed_at` is not always the last of the chain (what does hold is
`SingleStampsNeverBackdate`). `collect_one` skips the delay for the first board of
*each* search, so the last request of one search and the first of the next follow
each other at once, on the same boards (within a search the delay is that of the
run's configuration, `OneConfigPerRun`), although FR-6
(`src/Docs/software-requirements-specification.md:136`) wants an "inter-request
delay" and the comment at `collect/client.py:69` one "between successive requests to
the boards".

### Bounds

That nothing larger breaks a safety property or a refinement is proved (section 5).
The bounds have to be enough for liveness, for the mutants, and for the cases a
property is about to happen at all.

* `Triage`: two requests, two postings, two statuses, one clock tick. Two of
  each is what every property compares. Each request is submitted once.
* `Ingest`: two runs and one `normalise` that may be repeated; six listings of
  three roles and two employers, three of them with a defect, one of each kind. The
  runs share two roles, one on two boards, and through different roles one employer,
  so that both are contested and the flush order can close a circle over an employer
  and a posting; a batch has a title that is none beside a sound listing (a partial
  fold), or two defects at once. `MaxFaults` = 1 crash, lost connection or exception
  of stage 1. `IngestProvenance` needs three runs: one creates, two observe.
* `Desk`: one folded run behind it and one at work, a `normalise` that may fold
  beside it, one request of either kind, three postings (two observed, one created,
  or not, for its title) of two employers, one fault; the clock stands still. So
  circles of a request with a run, with `normalise` and with both can form, and
  those through the new employer do.
* `Fingerprint`: nine employers, six titles, four places, four legal forms, four
  tags. Each is there for a rule: a descriptor (`acme technologies`), a legal form
  at the front (`company of egypt`), a name within a name (`coca`), a part that is
  a number (`studio - 737`), a title that ends like the start of a tag (`dream
  job`), a tag of two parts, a state's code that is a country's. Every combination is a
  listing.
* `Visibility`: one reader (only `BulkThenList` writes, once, and before it
  reads), two flag requests, three postings of which two tie on `first_seen_at`,
  with a race of two boards, a tie of two and an unreadable stamp, page size 2,
  `MaxWrites` = 2 commits, from a database with or without a blacklisted employer,
  so that a posting can be triaged or collected while hidden and then come back. The
  flag requests are symmetric. Bulk changes are of one set (`Ticked`), whose postings
  may be hidden; ids without a posting, which the code skips, are in `Triage`.
* `Scheduler`: two profiles, two times, two edits, one fault, one crash. Two
  edits make the second read late and then undo what it saw.
* `Collect`: two keys stand for the nine (one read early, one late), two forms,
  two saves, one run of at most two searches that share a board.

`CHECK_DEADLOCK FALSE` is set everywhere: requests, runs and edits are finite in
number and the system stops when they are done. That nothing stops *early* is
what `EveryRequestEnds`, `EveryJobEnds`, `EverySaveEnds` and `EventuallyInStep` are
for.

### Fairness

* `Triage`: weak fairness of a request's own steps. The server runs an accepted
  request to its end and a free row lock is granted. Nothing is assumed of
  operators, of the clock or of connections.
* `Ingest`: strong fairness of a job's steps, because a waiting transaction is
  queued by PostgreSQL and woken when its row is released; strong fairness of
  `normalise` is the assumption behind `Recoverable` alone: an operator who
  finds rows left behind tries again. A defect is not a fault that passes: trying
  again meets it again.
* `Desk`: none; what is said of it is safety.
* `Scheduler`: weak fairness of the container's restart (`unless-stopped`), of
  the interval job and of a registration under way. No edit is due.
* `Collect`: weak fairness of a save's own steps.

## 4. Abstract specifications

`TriageLedger` has a request as one atomic step that appends rows which know
what they replaced. `Triage` implements it with its committed variables as they
are. `DedupLedger` has two steps, landing a batch and folding rows of one run
into their roles; `Ingest` implements it with `roles` read off the postings.
Both refinements are checked as properties of a run and proved. `Triage` is in turn
the abstract specification of what requests do in `Desk`: for triage a commit of
stage 2 is a `Create` or nothing, so `DeskSpec => Spec`, and with it
`DeskSpec => ImplementsLedger`. This one is proved and not run; what TLC checks of
`Desk` is the chain and the circles.

## 5. What is proved

Every safety invariant, every action property and every refinement that a passing
run checks, for every value of the constants: any number of requests, postings,
runs, boards, profiles, edits, saves and readers, any page size and vocabulary. A
proof assumes what the named assumptions of its module say of the constants:
ids are naturals, as the columns are; sentinels are not members of the sets they
are sentinels for; tables, batches and pages are finite; functions have the
domains they are used with. TLC evaluates every one of them on its runs.

* `TriageProofs` (`TriageAssumption`). The chain is not inductive: that `Commit`
  appends a row that starts at the present status needs that the status read is
  still that of the row. `IInv` adds it: `LocksHeld` (a request holds exactly the
  rows it has locked), `RowsInHand` (what it still has to lock), `SeenIsFresh`
  (under a lock, what was read is what is committed), `NoRowsBeforeBirth`. `EInv`
  adds `AllOrNothing`, a bound on the clock and that a request before its SELECT
  has no rows. `RequestsAreAtomic` is `Spec => ImplementsLedger`: a commit maps to
  `Moved`, a creation to `Born`, everything else to a stutter.
* `TriageLocks`. `LInv` adds that locks are taken in ascending order
  (`LocksAscend`) and that stamps are past (`StampsArePast`). `NoDeadlock`: among
  the requests that wait, the holder of the greatest contested row waits for
  nothing; this uses that ids are bounded (`Postings \subseteq 0..N`), as the
  column is. `SingleStampsInOrder`: `set_status` reads the clock under the lock.
* `IngestProofs` (`IngestAssumption`). A lookup is stale when the job writes, so
  that a role is missing says nothing by itself. `Claims` does: each role of the
  plan is still to be written, or the job holds its key and, if it is to insert it,
  no row has the key. A key is taken only when it is free, kept to the end of the
  transaction, and a committed key sends the job to `Collide`; hence one posting
  per role. That the commit holds every key of its batch needs that `LookUp` lists
  every role it plans, in any order of the query and with the loop cut at any row,
  which `LookUpPlans` establishes from the definition (no induction: the order is
  total, so a write's place is the number of those before it). `HeldInHand` (keys are
  held by jobs that write) and `Ascends` (a run that makes no posting writes and holds
  rows in the order of ids) are for `Desk`. `PlanIsBatch`, `RunsTrack` and
  `NormalisersTrack` relate batch, plan and outcome for `RunsFoldWhole` and
  `SuccessIsComplete`; `KnownStays` and `KnownOrigins` are for `OriginSurvives`.
  `IngestImplementsDedup` maps `Land` to landing, a commit of stage 2 to folding,
  everything else to a stutter.
* `DeskProofs` (`DeskAssumption`). `DeskImplementsTriage` maps every step to one
  of `Triage`, whose theorems then hold of it. The other half is that the pipeline
  keeps its invariant among requests that make it wait and lose deadlocks; the
  lemmas of `IngestProofs` are used through an instance, one per action. `DInv` is
  both invariants. `DeskPipelineKeepsFaith` is the four invariants of `Ingest`.
  `DeskCirclesNeedInsert`: whoever waits, request or observing run, wants a row
  greater than all it has (`LocksAscend` and `Ascends`), and waits for one who has it;
  so in a circle the wanted rows would increase for ever, and ids are bounded.
* `SchedulerProofs` (`SchedulerAssumption`). Signature and profiles are read in
  two transactions. `updated_at` names one version of a row (`VersionsOver`:
  whoever stamped it is done, and stamps no other), so a profile that matches the
  signature is what it was when the signature was read (`SignatureStands`,
  `SpecsFit`), and a registration that read something else differs from what it is
  filed under. An unnoticed one is of profiles that were enabled in between and are
  not any more, so that those enabled now all have their jobs (`TornIsNoticed`).
  `FiledHaveJobs` and `WholeRegistration` say what the job table has while a
  registration is under way.
* `VisibilityProofs` (`VisibilityAssumption`, `AskedAssumption`). `CleanNow`: an
  employer unsuppressed at one of the request's statements is in `clean` and stays
  there; with it each answer is checked against one set instead of a history
  (`AllDiscreet`). `SawFlag` and `HeldIsCurrent` tie what a request has read before
  its write to the table. `QuietFiguresAgree` has an invariant of its own, by the
  position of the reader's statement: while no write falls in the request, every
  answer so far is what the same statement would say now. `LiftsBringBack` adds what an
  answer owes the postings in `steady`, statement by statement (`InSight`), whatever
  else is written meanwhile, and that `judged` is `status`. `PagesArePartition`
  divides a sorted list: every position is on one page and the pages up to the
  last one cover it.
* `CollectProofs` (`SettingsAssumption`, `CollectAssumption`). `Secured`: until
  another save commits, each key a save is done with is stored as its form says or
  held by it, so its commit publishes the form whole (`SavesAreWhole`). A run reads
  each key once, and the value it read was in effect at that moment (`Run(r)`). `Books`
  counts rows as pairs of a request and a number, so that a count is a cardinality and the searches done and
  the one under way add up over disjoint sets; which request has slept is a matter of
  the positions of one search's requests (`SearchByOne`, `OneDelay`).
* `FingerprintProofs` (`VocabularyAssumption` and three more). No induction over
  texts: what the rules drop, they drop at any position, so `Without` distributes
  over concatenation, and a listing's text is a concatenation of a name or title
  and what boards add to it. `EmployerKeysAreNames`, `TitleKeysAreTitles`,
  `CountriesAreNotGuessed`; `RolesAreToldApart` follows from the first two and from
  what a payload tells (`PayloadTells`: the separator is in neither key, so equal
  payloads have equal keys).

Proving changed the models in places where they were narrower than the code or not
fit to reason about: a batch creates its postings in one step of `Triage`; the
writes of a batch are a sort instead of a recursion; `Fingerprint` has no recursive
operator and states what it assumes of its vocabulary; saves and runs of `Settings`
are disjoint. Two cases in which the rules lose part of a name or title came out of
failed proofs (section 6, "Studio - 737" and "Dream Job").

Model-checked only:

* liveness: `EveryRequestEnds`, `EveryJobEnds`, `Recoverable`, `EverySaveEnds` and
  `EventuallyInStep`. The prover has neither fairness nor ENABLED;
* the five disagreements, which are counterexamples.

## 6. What is not modelled

* Characters. `Fingerprint` has words; what case folding, NFKD and the
  punctuation pattern do to one word is not in it.
* Listings `Fingerprint` has, and promises nothing about, each an operator of its
  own: an employer called like a legal form ("KK": the empty key, and all such
  employers are one); an Arabic name with a Latin form (only the form is taken
  for the name, and the key is empty); a hyphenated name run together with its
  Arabic form (a part is lost); a bilingual name with a part that is only a number
  ("Studio - 737": the number is lost); a title that ends like a tag ("ID
  Verification") or in a word that begins one ("Dream Job" before "ID 9981"); a
  gender marker behind a tag (the tag stays); a state's code that is also a
  country's, where no country follows: the code takes it for the country ("San
  Francisco, CA" is in Canada).
* Stages 3 and 4: not implemented in the repository. `published`, `score`: set
  by nothing.
* `source_health`, `recent_runs`, `known_sites`, `get_posting`, the text and
  remote filters, distinct titles and dates of the reports: single reads whose
  answer is what they select.
* `sources` as `Visibility` reads it stands still, and so do the profiles of the
  report by profile: what changes them is in `Ingest` and `Scheduler`.
* Enrichment of employers by `enrich_from`. What it writes is data; but the
  UPDATE of an employer known from before is one more row that two runs can wait
  for, and that is left out. Only a row that makes a posting enriches, so what is said
  of runs that observe (`CirclesNeedInsert`) is not touched by it.

What is in the models, and no property promises better, because the code does it:

* A batch with a payload no posting can be made of (`Defect`) is refused each time it
  is folded, its sound rows with it; `Recoverable` is about the others (`Foldable`).
* A run whose loop raised has a part of its rows folded and linked, and a `normalise`
  of it is refused for these (`CommitFailed`, `Relink`).
* A run that resolves its configuration across a save mixes the two; two saves that
  cross may leave a mixture; two edits of a profile merge column by column.
* A blacklist and a lift that cross can lose one of the two; a page that shrinks
  between its count and its rows comes back empty.

Further not modelled:

* Migrations as steps. The backfill `b2c3d4e5f6a7` links every raw row whose role
  has a posting, so also some rows of a run whose stage 2 never ran; `normalise`
  then refuses that run, for the reason `IngestRerun` shows.
* The firing of scheduled jobs, `misfire_grace_time`, `coalesce`. In particular
  a registration in the very minute of a profile's schedule, which removes and
  re-adds its job, is not.
* A job whose profile was enabled after the signature was read and disabled
  before the next poll stays until some other edit: `Scheduler` has the
  behaviour, and its properties exclude it by name (`torn`).
* Names and validation of profiles; the fields of forms; templates; routing.
* `src/Docs/operations-guide.md:152-156` still describes the blacklist that
  ADR-0015 replaced (it "sets every posting ... to Rejected"); the mutant
  `StampedByFlag` is that design, and `LiftBringsBack` refutes it.

## 7. Plan

Done: the modules above, in the order triage, pipeline, visibility, scheduler,
settings and collection, by how much is lost when each goes wrong; then their
composition (`Desk`), the fingerprint, the remaining reports and the page rendered
after a bulk change.

Done too: every safety invariant, action property and refinement that a passing
run checks is a theorem (section 5).

Next, the model, with the theorems carried along:

1. `Ingest`: the updates of employers (`enrich_from`), one more row two runs wait for.
2. The names of profiles, their uniqueness and their validation.
3. `Scheduler`: the firing of jobs, as far as it is this code's and not APScheduler's.
4. `Visibility` over the profiles as `Scheduler` changes them.

And what liveness rests on, as far as it is a matter of states: in `Ingest` and
`Desk` a waiting job or request waits, over some others, for one that does not
wait, or is in a circle the detector finds.
