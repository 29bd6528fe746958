------------------------------ MODULE Visibility ------------------------------
(***************************************************************************)
(* Who sees which posting: the suppression seam (db/visibility.py), the    *)
(* blacklist (services/blacklist.py) and the reads that adopt the seam,    *)
(* the triage list with its figures and facets (services/queries.py) and   *)
(* the reports (services/reports.py), while postings arrive, are triaged   *)
(* and their employers are blacklisted and lifted.                         *)
(*                                                                         *)
(* A page is rendered from several SELECTs.  At READ COMMITTED each has a  *)
(* snapshot of its own, so each is a step; what is written in between is   *)
(* seen by the later ones only.  A figure is kept as the set it counts.    *)
(*                                                                         *)
(* `score` and `published` never change from NULL and false (no code sets  *)
(* them): what they order or count is left out, as are the filters on      *)
(* further immutable columns (title, remote).  `sources`, which stage 2    *)
(* adds to (Ingest.tla), stands still.                                     *)
(***************************************************************************)
EXTENDS Integers, SequencesExt

CONSTANTS Readers,      \* GET requests; they write nothing, so one is as good as many
          Admins,       \* POST .../blacklist and .../unblacklist requests
          Postings,     \* ids
          Employers, EmployerOf,
          STATUSES, STATUS_NEW, STATUS_REJECTED, NoStatus, AnyStatus,
          CountryOf, COUNTRY_UNKNOWN, AnyCountry,
          FirstSeen,    \* of a posting: its first_seen_at
          Sites, AnySource,
          SourcesOf,    \* of a posting: first_seen by board; NoStamp if it cannot be read
          NoStamp,
          Profiles, Disabled,   \* search profiles, and those of them not enabled
          SurfacedBy,   \* of a profile: postings reached from its runs
          Stocks,       \* bound: sets of postings there may be at the start
          Blacklists,   \* bound: sets of employers that may be blacklisted by then
          Asked,        \* bound: the filters and pages asked for
          Ticked,       \* bound: the postings selected for a bulk change
          PAGE_SIZE,
          LIMIT,        \* employer_activity's limit
          MaxWrites     \* bound on the commits of the other requests together

ASSUME VisibilityAssumption ==
  /\ Postings \subseteq Nat /\ IsFiniteSet(Postings)
  /\ EmployerOf \in [Postings -> Employers]
  /\ STATUS_NEW \in STATUSES /\ STATUS_REJECTED \in STATUSES
  /\ {NoStatus, AnyStatus} \cap STATUSES = {}
  /\ FirstSeen \in [Postings -> Nat]
  /\ IsFiniteSet(Sites)
  /\ \A p \in Postings : DOMAIN SourcesOf[p] \subseteq Sites
                          /\ \A s \in DOMAIN SourcesOf[p] : SourcesOf[p][s] \in Nat \cup {NoStamp}
  /\ AnySource \notin Sites /\ Disabled \subseteq Profiles
  /\ PAGE_SIZE \in Nat \ {0} /\ LIMIT \in Nat /\ MaxWrites \in Nat

VARIABLES suppressed,          \* employers.suppressed
          status, changed_at,  \* postings.status and status_changed_at; 0 is NULL
          writes,              \* commits so far: the clock and the bound
          admin,               \* of a flag request: step, employer, what it wants and read
          overtaken,           \* history: another has written the flag since it was read
          pc, ask,             \* of a read: the statement to send next; what was asked
          session,             \* of a read: <<posting, status>> of the objects it holds
          got,                 \* answers so far
          began, clean,        \* history: writes at its start; employers unsuppressed since
          judged,              \* history: the status a posting was given last, by the operator or at birth
          steady               \* history: postings with one judgement and no suppression since its start

store == <<suppressed, status, changed_at, writes, judged>>
read  == <<pc, ask, session, got, began, clean, steady>>
vars  == <<store, admin, overtaken, read>>

Countries == {CountryOf[p] : p \in Postings} \ {COUNTRY_UNKNOWN}
Filters == [status : STATUSES \cup {AnyStatus},
            country : Countries \cup {AnyCountry, COUNTRY_UNKNOWN},
            source : Sites \cup {AnySource}]

ASSUME AskedAssumption == Asked \subseteq [filter : Filters, page : Int]

AnyFilter == [status |-> AnyStatus, country |-> AnyCountry, source |-> AnySource]

FlagRequest == [at : {"idle", "done"}] \cup
               [at : {"write"}, employer : Employers, want : BOOLEAN, saw : BOOLEAN]

\* `everything`: the report is asked to include what it hides by default.
NoRequest == [filter |-> AnyFilter, page |-> 1, everything |-> FALSE]

NoOverlap == [total |-> {}, per_site |-> {}, contested |-> {}, first_by |-> {}, ties |-> {}]
NoAnswer == [matched |-> {}, number |-> 0, rows |-> <<>>, statuses |-> {}, by_status |-> {},
             postings |-> {}, employers |-> {}, countries |-> {}, unknown |-> FALSE,
             ranked |-> {}, breakdown |-> {}, tallied |-> {}, overlap |-> NoOverlap,
             blacklist |-> {}]

ExistingUnchecked == Postings  \* Mutant: an id is not looked up.
Existing == {p \in Postings : status[p] # NoStatus}

TypeOK ==
  /\ suppressed \in [Employers -> BOOLEAN]
  /\ status \in [Postings -> STATUSES \cup {NoStatus}]
  /\ changed_at \in [Postings -> 0..MaxWrites] /\ writes \in 0..MaxWrites
  /\ admin \in [Admins -> FlagRequest]
  /\ overtaken \in [Admins -> BOOLEAN]
  /\ \A q \in Readers :
       /\ got[q].matched \cup got[q].postings \cup got[q].overlap.total \subseteq Existing
       /\ \A i \in DOMAIN got[q].rows : got[q].rows[i] \in Existing
       /\ \A x \in session[q] \cup got[q].statuses \cup got[q].by_status \cup got[q].breakdown : x \in Existing \X STATUSES
       /\ \A x \in got[q].ranked : x.employer \in Employers /\ x.postings # {}

Init ==
  /\ \E B \in Blacklists : suppressed = [e \in Employers |-> e \in B]
  /\ \E S \in Stocks :
       status = [p \in Postings |-> IF p \in S THEN STATUS_NEW ELSE NoStatus]
  /\ changed_at = [p \in Postings |-> 0] /\ writes = 0
  /\ admin = [a \in Admins |-> [at |-> "idle"]]
  /\ overtaken = [a \in Admins |-> FALSE]
  /\ pc = [q \in Readers |-> "idle"]
  /\ ask = [q \in Readers |-> NoRequest]
  /\ session = [q \in Readers |-> {}]
  /\ got = [q \in Readers |-> NoAnswer]
  /\ began = [q \in Readers |-> 0]
  /\ clean = [q \in Readers |-> {}]
  /\ judged = status
  /\ steady = [q \in Readers |-> {}]

-------------------------------------------------------------------------------
\* Writers.

\* Every commit counts, and is noted by the reads and flag requests under way.
Committed ==
  /\ writes < MaxWrites
  /\ writes' = writes + 1
  /\ overtaken' = [a \in Admins |-> admin'[a].at = "write" /\
        (overtaken[a] \/ suppressed'[admin[a].employer] # suppressed[admin[a].employer])]

InPlay == {p \in Postings : judged[p] # NoStatus /\ ~suppressed[EmployerOf[p]]}
Undisturbed(q) == {p \in steady[q] : judged'[p] = judged[p] /\ ~suppressed'[EmployerOf[p]]}

CommittedElsewhere ==
  /\ Committed
  /\ clean' = [q \in Readers |-> clean[q] \cup {e \in Employers : ~suppressed'[e]}]
  /\ steady' = [q \in Readers |-> Undisturbed(q)]
  /\ UNCHANGED <<pc, ask, session, got, began>>

\* Stage 2 creates a posting, whatever its employer's standing.
Collect(p) ==
  /\ status[p] = NoStatus
  /\ status' = [status EXCEPT ![p] = STATUS_NEW]
  /\ judged' = [judged EXCEPT ![p] = STATUS_NEW]
  /\ UNCHANGED <<suppressed, changed_at, admin>>
  /\ CommittedElsewhere

\* One triage request, whole (Triage.tla); a suppressed posting can be triaged,
\* from its detail page.
SetStatus(S, s) ==
  /\ S # {} /\ S \subseteq Existing
  /\ status' = [p \in Postings |-> IF p \in S THEN s ELSE status[p]]
  /\ changed_at' = [p \in Postings |-> IF p \in S THEN writes + 1 ELSE changed_at[p]]
  /\ judged' = [p \in Postings |-> IF p \in S THEN s ELSE judged[p]]
  /\ UNCHANGED <<suppressed, admin>>

Triaged(S, s) == SetStatus(S, s) /\ CommittedElsewhere

\* blacklist and lift: session.get, ...
FlagRead(a, e, want) ==
  /\ admin[a].at = "idle"
  /\ admin' = [admin EXCEPT ![a] = [at |-> "write", employer |-> e, want |-> want,
                                    saw |-> suppressed[e]]]
  /\ UNCHANGED <<store, overtaken, read>>

\* ... then the assignment and the commit.  An UPDATE is sent only if the value
\* assigned is not the one read.
FlagToggled(a) == ~admin[a].saw  \* Mutant: the route flips the flag.
FlagAssigned(a) == admin[a].want

\* Mutant: the model ADR-0015 superseded, which stamped the postings.
StampedByFlag(e, want) ==
  [p \in Postings |-> IF p \in Existing /\ EmployerOf[p] = e /\ want THEN STATUS_REJECTED ELSE status[p]]
StatusAfterFlag(e, want) == status

FlagWrite(a) ==
  /\ admin[a].at = "write"
  /\ admin' = [admin EXCEPT ![a] = [at |-> "done"]]
  /\ IF FlagAssigned(a) # admin[a].saw
     THEN /\ suppressed' = [suppressed EXCEPT ![admin[a].employer] = FlagAssigned(a)]
          /\ status' = StatusAfterFlag(admin[a].employer, admin[a].want)
          /\ UNCHANGED <<changed_at, judged>>
          /\ CommittedElsewhere
     ELSE /\ overtaken' = [overtaken EXCEPT ![a] = FALSE]
          /\ UNCHANGED <<store, read>>

-------------------------------------------------------------------------------
\* What the statements select.

AnyEmployer(p) == TRUE  \* Mutant: the predicate does not reach the statements.
not_suppressed(p) == ~suppressed[EmployerOf[p]]
Visible == {p \in Existing : not_suppressed(p)}

Where(f) ==
  {p \in Visible : /\ f.status = AnyStatus \/ status[p] = f.status
                   /\ f.country = AnyCountry \/ CountryOf[p] = f.country
                   /\ f.source = AnySource \/ f.source \in DOMAIN SourcesOf[p]}

\* _ordering: descending on each component; the id makes it total.
KeyWithoutId(f, p) ==  \* Mutant.
  <<IF f.status = STATUS_REJECTED THEN changed_at[p] ELSE FirstSeen[p], 0>>
Key(f, p) == <<IF f.status = STATUS_REJECTED THEN changed_at[p] ELSE FirstSeen[p], p>>

Precedes(f, p, q) == LET k == Key(f, p)  l == Key(f, q)
                     IN  k[1] > l[1] \/ (k[1] = l[1] /\ k[2] > l[2])

\* Rows that tie may come in any order, a different one for each statement.
Ordered(f) == {s \in SetToSeqs(Where(f)) :
                 \A i, j \in DOMAIN s : Precedes(f, s[i], s[j]) => i < j}

AtMost(m, n) == IF m <= n THEN m ELSE n
AtLeast(m, n) == IF m >= n THEN m ELSE n

PagesOfFloor(total) == AtLeast(1, total \div PAGE_SIZE)  \* Mutant: floor for ceiling.
PagesOf(total) == AtLeast(1, (total + PAGE_SIZE - 1) \div PAGE_SIZE)
Clamped(page, total) == AtMost(AtLeast(page, 1), PagesOf(total))

\* OFFSET (n - 1) * PAGE_SIZE LIMIT PAGE_SIZE
PageRows(f, n) == {SubSeq(s, (n - 1) * PAGE_SIZE + 1, AtMost(n * PAGE_SIZE, Len(s))) :
                     s \in Ordered(f)}

-------------------------------------------------------------------------------
\* Reads.

\* Statement `at` is answered with `answer`; `next` is sent after it.
Answer(q, at, answer, next) ==
  /\ pc[q] = at
  /\ got' = [got EXCEPT ![q] = answer]
  /\ pc' = [pc EXCEPT ![q] = next]
  /\ UNCHANGED <<store, admin, overtaken, ask, session, began, clean, steady>>

\* A GET; the session is new and holds nothing.
Arrive(q, at, request) ==
  /\ pc[q] = "idle"
  /\ pc' = [pc EXCEPT ![q] = at]
  /\ ask' = [ask EXCEPT ![q] = request]
  /\ began' = [began EXCEPT ![q] = writes]
  /\ clean' = [clean EXCEPT ![q] = {e \in Employers : ~suppressed[e]}]
  /\ steady' = [steady EXCEPT ![q] = InPlay]
  /\ UNCHANGED <<store, admin, overtaken, session, got>>

Page(x) == [NoRequest EXCEPT !.filter = x.filter, !.page = x.page]

ListPostings(q) == \E x \in Asked : Arrive(q, "count", Page(x))
EmployerReport(q) == \E all \in BOOLEAN : Arrive(q, "rank", [NoRequest EXCEPT !.everything = all])
ProfileReport(q) == \E all \in BOOLEAN : Arrive(q, "tally", [NoRequest EXCEPT !.everything = all])
SourceReport(q) == Arrive(q, "overlap", NoRequest)
BlacklistPage(q) == Arrive(q, "blacklist", NoRequest)

\* POST /postings/status: set_status_bulk commits, and the list is rendered in
\* the same session, which does not expire the objects it has changed.
HeldFromBefore(p, s) == status[p]   \* Mutant: an UPDATE that bypasses the objects.
HeldStatus(p, s) == s

BulkThenList(q) ==
  /\ pc[q] = "idle"
  /\ \E S \in Ticked, s \in STATUSES, x \in Asked :
       /\ SetStatus(S, s)
       /\ session' = [session EXCEPT ![q] = {<<p, HeldStatus(p, s)>> : p \in S}]
       /\ ask' = [ask EXCEPT ![q] = Page(x)]
  /\ Committed
  /\ pc' = [pc EXCEPT ![q] = "count"]
  /\ began' = [began EXCEPT ![q] = writes']
  /\ clean' = [clean EXCEPT ![q] = {e \in Employers : ~suppressed[e]}]
  /\ steady' = [r \in Readers |-> IF r = q THEN InPlay' ELSE Undisturbed(r)]
  /\ UNCHANGED got

\* list_postings: the count, ...
Count(q) ==
  LET W == Where(ask[q].filter) IN
  Answer(q, "count", [got[q] EXCEPT !.matched = W,
                                    !.number = Clamped(ask[q].page, Cardinality(W))], "rows")

\* ... then the rows of the page it was clamped to.  A row of an object the
\* session still holds shows that object as it is, not as the database has it;
\* an object nothing refers to any more may have been collected.
Rows(q) ==
  /\ pc[q] = "rows"
  /\ \E s \in PageRows(ask[q].filter, got[q].number), alive \in SUBSET session[q] :
       LET held == {x[1] : x \in alive}
           page == {s[i] : i \in DOMAIN s}
       IN  Answer(q, "rows",
                  [got[q] EXCEPT !.rows = s,
                                 !.statuses = {x \in alive : x[1] \in page}
                                    \cup {<<p, status[p]>> : p \in page \ held}], "by_status")

\* totals
ByStatus(q) ==
  Answer(q, "by_status", [got[q] EXCEPT !.by_status = {<<p, status[p]>> : p \in Visible}], "total")
Total(q) == Answer(q, "total", [got[q] EXCEPT !.postings = Visible], "employers")
CountEmployers(q) ==
  Answer(q, "employers", [got[q] EXCEPT !.employers = {e \in Employers : ~suppressed[e]}],
         "countries")

\* facets
CountriesOffered(q) ==
  Answer(q, "countries",
         [got[q] EXCEPT !.countries = {CountryOf[p] : p \in Visible} \ {COUNTRY_UNKNOWN}], "unknown")
UnknownOffered(q) ==
  Answer(q, "unknown",
         [got[q] EXCEPT !.unknown = \E p \in Visible : CountryOf[p] = COUNTRY_UNKNOWN], "done")

\* employer_activity: the LIMIT employers with most postings, those suppressed
\* only if they are asked for, ...
RolesOf(e) == {p \in Existing : EmployerOf[p] = e}
Hiring(q) == {e \in Employers : (ask[q].everything \/ ~suppressed[e]) /\ RolesOf(e) # {}}
Rank(q) ==
  /\ pc[q] = "rank"
  /\ \E S \in SUBSET Hiring(q) :
       /\ Cardinality(S) = AtMost(LIMIT, Cardinality(Hiring(q)))
       /\ \A e \in S, d \in Hiring(q) \ S : Cardinality(RolesOf(e)) >= Cardinality(RolesOf(d))
       /\ Answer(q, "rank",
                 [got[q] EXCEPT !.ranked = {[employer |-> e, postings |-> RolesOf(e)] : e \in S}],
                 IF S = {} THEN "done" ELSE "breakdown")

\* ... then their postings by status, for the ids of the first pass and unfiltered.
Shown(q) == {x.employer : x \in got[q].ranked}
ShownAll(q) == Employers  \* Mutant: the second pass not restricted to the ids shown.
IdsShown(q) == Shown(q)
Breakdown(q) ==
  Answer(q, "breakdown",
         [got[q] EXCEPT !.breakdown = {<<p, status[p]>> : p \in UNION {RolesOf(e) : e \in IdsShown(q)}}],
         "done")

\* postings_by_profile_status: every profile counts what its runs surfaced; no
\* predicate over employers at all.
Tally(q) ==
  LET profiles == IF ask[q].everything THEN Profiles ELSE Profiles \ Disabled IN
  Answer(q, "tally",
         [got[q] EXCEPT !.tallied = {<<x[1], x[2], status[x[2]]>> :
                                x \in {y \in profiles \X Existing : y[2] \in SurfacedBy[y[1]]}}],
         "done")

\* source_overlap: every posting, hidden or not.  A race is between boards whose
\* stamps can be read; equal earliest stamps are a tie.
Stamped(p) == {s \in DOMAIN SourcesOf[p] : SourcesOf[p][s] # NoStamp}
Contested == {p \in Existing : Cardinality(Stamped(p)) >= 2}
Winners(p) == {s \in Stamped(p) : \A t \in Stamped(p) : SourcesOf[p][s] <= SourcesOf[p][t]}

Overlap(q) ==
  Answer(q, "overlap",
         [got[q] EXCEPT !.overlap =
            [total |-> Existing,
             per_site |-> {x \in Existing \X Sites : x[2] \in DOMAIN SourcesOf[x[1]]},
             contested |-> Contested,
             first_by |-> {x \in Contested \X Sites : Winners(x[1]) = {x[2]}},
             ties |-> {p \in Contested : Cardinality(Winners(p)) > 1}]], "done")

\* blacklisted_employers: an outer join, so also those without a posting.
Blacklisted(q) ==
  Answer(q, "blacklist",
         [got[q] EXCEPT !.blacklist = {[employer |-> e, postings |-> RolesOf(e)] :
                                         e \in {d \in Employers : suppressed[d]}}], "done")

Statement(q) ==
  \/ Count(q) \/ Rows(q)
  \/ ByStatus(q) \/ Total(q) \/ CountEmployers(q) \/ CountriesOffered(q) \/ UnknownOffered(q)
  \/ Rank(q) \/ Breakdown(q)
  \/ Tally(q) \/ Overlap(q) \/ Blacklisted(q)

Next ==
  \/ \E p \in Postings : Collect(p)
  \/ \E S \in SUBSET Postings, s \in STATUSES : Triaged(S, s)
  \/ \E a \in Admins, e \in Employers, want \in BOOLEAN : FlagRead(a, e, want)
  \/ \E a \in Admins : FlagWrite(a)
  \/ \E q \in Readers :
       \/ ListPostings(q) \/ BulkThenList(q)
       \/ EmployerReport(q) \/ ProfileReport(q) \/ SourceReport(q) \/ BlacklistPage(q)
       \/ Statement(q)

Spec == Init /\ [][Next]_vars

-------------------------------------------------------------------------------
\* Properties.

\* Nothing of an employer that was blacklisted before the request and stayed so
\* reaches the operator: not a row, not a unit of a figure, not a facet, also not
\* by way of a posting collected afterwards (FR-010, System-modeling); but for the
\* report asked to include it, the sources' and the blacklist itself.
NothingHidden ==
  \A q \in Readers : ~ask[q].everything =>
    LET shown == got[q].matched \cup got[q].postings \cup {got[q].rows[i] : i \in DOMAIN got[q].rows}
                   \cup {x[1] : x \in got[q].by_status \cup got[q].breakdown}
    IN /\ \A p \in shown : EmployerOf[p] \in clean[q]
       /\ got[q].employers \cup {x.employer : x \in got[q].ranked} \subseteq clean[q]
       /\ \A c \in got[q].countries : \E p \in Existing : CountryOf[p] = c /\ EmployerOf[p] \in clean[q]

\* When nothing is written while a page is rendered, its parts agree: the pager
\* with the rows, the rows with the filter, the totals with each other, every
\* country offered selects something, the filter by board selects what the
\* report credits to the board, every contested posting has a winner or a tie,
\* and the blacklist page accounts for just what the list hides.
Quiet(q) == pc[q] = "done" /\ began[q] = writes
FiguresAgree ==
  \A q \in Readers : Quiet(q) =>
    LET g == got[q] IN
      /\ g.number > 0 =>
           /\ \A i \in DOMAIN g.rows : g.rows[i] \in g.matched
           /\ Len(g.rows) = AtMost(PAGE_SIZE, Cardinality(g.matched) - (g.number - 1) * PAGE_SIZE)
           /\ g.matched # {} => g.rows # <<>>
           /\ {x[1] : x \in g.by_status} = g.postings /\ g.matched \subseteq g.postings
           /\ \A c \in g.countries : Where([AnyFilter EXCEPT !.country = c]) # {}
           /\ {EmployerOf[p] : p \in g.postings} \subseteq g.employers
      /\ UNION {x.postings : x \in g.ranked} = {x[1] : x \in g.breakdown}
      /\ g.overlap # NoOverlap =>
           /\ \A s \in Sites : Where([AnyFilter EXCEPT !.source = s]) =
                {p \in Visible : <<p, s>> \in g.overlap.per_site}
           /\ Cardinality(g.overlap.first_by) + Cardinality(g.overlap.ties)
                = Cardinality(g.overlap.contested)
      /\ g.blacklist # {} => UNION {x.postings : x \in g.blacklist} = Existing \ Visible

\* The list rendered by a bulk change shows each posting with the status it has,
\* or with the one this request gave it, which another has replaced since; never
\* with one from before ("every changed row is reflected together").
ShownIsTrue ==
  [][\A q \in Readers : pc[q] = "rows" /\ pc'[q] # "rows" =>
       /\ {x[1] : x \in got'[q].statuses} = {got'[q].rows[i] : i \in DOMAIN got'[q].rows}
       /\ \A x \in got'[q].statuses :
            x[2] = status[x[1]] \/ (changed_at[x[1]] > began[q] /\ x \in session[q])]_vars

\* Turning all the pages of a list shows every posting it counts exactly once
\* (_ordering: otherwise "paging would silently repeat or skip them").  Reads
\* write nothing: every store is met with none under way, where it is examined.
PagesPartition ==
  (\A q \in Readers : pc[q] = "idle") => \A f \in Filters :
    LET last == PagesOf(Cardinality(Where(f)))
        Seen(s) == {s[i] : i \in DOMAIN s}
    IN /\ \A m, n \in 1..last : m # n =>
            \A s \in PageRows(f, m), t \in PageRows(f, n) : Seen(s) \cap Seen(t) = {}
       /\ UNION {Seen(CHOOSE s \in PageRows(f, n) : TRUE) : n \in 1..last} = Where(f)

\* What a blacklist hid, a lift brings back as the operator last judged it, triage
\* done on it meanwhile included (FR-012): a posting whose employer is not on the
\* blacklist from before a request to its end, and that nobody moves meanwhile, is
\* found by the filters its judgement passes, counted under that judgement, offered
\* by the facets, and not accounted for on the blacklist page.
LiftBringsBack ==
  \A q \in Readers : pc[q] = "done" =>
    LET g == got[q]
        f == ask[q].filter
        sought == {p \in steady[q] : /\ f.status = AnyStatus \/ judged[p] = f.status
                                     /\ f.country = AnyCountry \/ CountryOf[p] = f.country
                                     /\ f.source = AnySource \/ f.source \in DOMAIN SourcesOf[p]}
    IN /\ g.number > 0 =>
            /\ sought \subseteq g.matched
            /\ \A p \in steady[q] :
                 /\ <<p, judged[p]>> \in g.by_status /\ p \in g.postings
                 /\ EmployerOf[p] \in g.employers
                 /\ IF CountryOf[p] = COUNTRY_UNKNOWN THEN g.unknown ELSE CountryOf[p] \in g.countries
       /\ \A x \in g.blacklist : x.postings \cap steady[q] = {}

\* A flag request leaves the flag as it asked, whatever it found, unless another
\* has written the flag since it looked: asking twice is asking once.
FlagTakesEffect ==
  [][\A a \in Admins :
       admin[a].at = "write" /\ admin'[a].at = "done" /\ ~overtaken[a]
         => suppressed'[admin[a].employer] = admin[a].want]_vars

\* The same as NothingHidden of the report over profiles ("Exclude this
\* employer's postings from every operator-facing view", Employer.blacklist).
ProfileReportHides ==
  \A q \in Readers : \A x \in got[q].tallied : EmployerOf[x[2]] \in clean[q]
===============================================================================
