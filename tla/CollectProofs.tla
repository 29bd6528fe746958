----------------------------- MODULE CollectProofs -----------------------------
(***************************************************************************)
(* What Settings.tla and Collect.tla guarantee for any number of saves and *)
(* runs, keys, boards and searches.  The saves and the runs meet in        *)
(* app_settings only: a save owns the rows it has written until it ends,   *)
(* a run reads a key once and never again.  What a run counts is told      *)
(* apart by request and row, so that its books are a matter of sets.       *)
(***************************************************************************)
EXTENDS Collect, FiniteSetTheorems, SequenceTheorems, TLAPS

Open == {"read", "write", "commit"}
Configs == UNION {[K -> Values] : K \in SUBSET Keys}
Counts == UNION {[K -> Nat] : K \in SUBSET Sites}
Results == [records : [Sites -> Nat], counts : Counts, errors : SUBSET Sites]

SavesTyped ==
  /\ stored \in [Keys -> Values \cup {NoRow}]
  /\ holds \in [Keys -> Savers \cup {Nobody}]
  /\ at \in [Savers -> {"idle", "read", "write", "commit", "saved", "refused", "failed"}]
  /\ todo \in [Savers \cup Runs -> SUBSET Keys]
  /\ want \in [Savers -> Forms]
  /\ saw \in [Savers -> Values \cup {NoRow}]
  /\ joined \in [Savers -> BOOLEAN]

\* A save under way has keys left until it commits, and the rows it holds are its own.
SavesTrack ==
  /\ \A a \in Savers : /\ at[a] \in {"read", "write"} => todo[a] # {}
                       /\ at[a] = "commit" => todo[a] = {}
  /\ \A k \in Keys : holds[k] # Nobody => at[holds[k]] \in Open

\* A key a save is done with holds what its form has, or will when it commits.
Secured ==
  \A a \in Savers : at[a] \in Open /\ ~joined[a] =>
    \A k \in Keys \ todo[a] : holds[k] = a \/ stored[k] = want[a][k]

RunsTyped ==
  /\ config \in [Runs -> Configs]
  /\ current \in [Runs -> [Keys -> SUBSET Values]]
  /\ stage \in [Runs -> {"idle", "resolve", "collect", "landed", "dead"}]
  /\ specs \in [Runs -> Seq(Seq(Sites))]
  /\ next \in [Runs -> Nat \ {0}]
  /\ asked \in [Runs -> Seq(Request)]
  /\ part \in [Runs -> Results] /\ merged \in [Runs -> Results]
  /\ landed \in [Runs -> Results \cup {NoRow}]

\* How far a run has come.
Progress(r) ==
  /\ stage[r] \in {"idle", "resolve"} =>
       asked[r] = <<>> /\ part[r] = Nothing /\ merged[r] = Nothing /\ next[r] = 1
  /\ stage[r] = "idle" => DOMAIN config[r] = {}
  /\ stage[r] = "resolve" =>
       DOMAIN config[r] = Keys \ todo[r] /\ \A k \in Keys : Effective(k) \in current[r][k]
  /\ stage[r] \in {"collect", "landed"} => DOMAIN config[r] = Keys
  /\ specs[r] = <<>> /\ stage[r] = "collect" => next[r] = 1
  /\ next[r] = 1 => part[r] = Nothing
  /\ landed[r] # NoRow => stage[r] = "landed" /\ landed[r] = merged[r] /\ part[r] = Nothing

\* The requests of a search come together, and its searches one after the other.
SearchByOne(r) ==
  stage[r] = "collect" =>
    \A i \in DOMAIN asked[r] : /\ asked[r][i].search >= Len(specs[r])
                               /\ next[r] = 1 => asked[r][i].search > Len(specs[r])

\* The rows a board has brought: a request, and a number in it.
Requests(r, s) == {i \in DOMAIN asked[r] : asked[r][i].site = s}
Rows(r, s) == UNION {{i} \X (1..asked[r][i].rows) : i \in Requests(r, s)}
SitesAsked(r) == {asked[r][i].site : i \in DOMAIN asked[r]}
SitesRaised(r) == {asked[r][i].site : i \in {j \in DOMAIN asked[r] : asked[r][j].raised}}

\* The searches done and the one under way account together for every request.
Books(r) ==
  /\ DOMAIN merged[r].counts \cup DOMAIN part[r].counts = SitesAsked(r)
  /\ merged[r].errors \cup part[r].errors = SitesRaised(r)
  /\ \A s \in Sites :
       /\ IsFiniteSet(Rows(r, s))
       /\ CountOf(merged[r].counts, s) + CountOf(part[r].counts, s) = Cardinality(Rows(r, s))
       /\ merged[r].records[s] = CountOf(merged[r].counts, s)
       /\ part[r].records[s] = CountOf(part[r].counts, s)

CurrentConfig(r) == \A k \in DOMAIN config[r] : config[r][k] \in current[r][k]
OneConfig(r) ==
  \A i \in DOMAIN asked[r] : /\ asked[r][i].limit = config[r][LIMIT]
                             /\ asked[r][i].rows <= config[r][LIMIT]
OneDelay(r) ==
  \A i \in DOMAIN asked[r] :
    i > 1 /\ asked[r][i].search = asked[r][i - 1].search
      => (asked[r][i].slept <=> config[r][DELAY] > 0)

Run(r) == /\ Progress(r) /\ SearchByOne(r) /\ Books(r)
          /\ CurrentConfig(r) /\ OneConfig(r) /\ OneDelay(r)

IInv == SavesTyped /\ SavesTrack /\ Secured /\ RunsTyped /\ \A r \in Runs : Run(r)

-------------------------------------------------------------------------------
LEMMA ResultFacts ==
  ASSUME NEW x \in Results
  PROVE  /\ x.records \in [Sites -> Nat] /\ x.errors \subseteq Sites
         /\ DOMAIN x.counts \subseteq Sites /\ \A s \in DOMAIN x.counts : x.counts[s] \in Nat
         /\ x.counts \in [DOMAIN x.counts -> Nat]
         /\ \A s : CountOf(x.counts, s) \in Nat
<1>1. PICK K \in SUBSET Sites : x.counts \in [K -> Nat]
  BY DEF Results, Counts
<1> QED
  BY <1>1 DEF Results, CountOf

LEMMA ConfigFacts ==
  ASSUME NEW c \in Configs
  PROVE  DOMAIN c \subseteq Keys /\ c \in [DOMAIN c -> Values]
BY DEF Configs

LEMMA NothingFacts ==
  /\ Nothing \in Results
  /\ \A s : CountOf(Nothing.counts, s) = 0
  /\ DOMAIN Nothing.counts = {} /\ Nothing.errors = {} /\ \A s \in Sites : Nothing.records[s] = 0
<1>1. <<>> \in Counts /\ DOMAIN <<>> = {}
  <2>1. <<>> \in [{} -> Nat]
    OBVIOUS
  <2> QED
    BY <2>1 DEF Counts
<1> QED
  BY <1>1 DEF Nothing, Results, CountOf

LEMMA IInvIsTyped == IInv => TypeOK
<1> SUFFICES ASSUME IInv PROVE TypeOK
  OBVIOUS
<1>1. SettingsTypeOK
  <2>1. \A r \in Runs : DOMAIN config[r] \in SUBSET Keys /\ \A k \in DOMAIN config[r] : config[r][k] \in Values
    BY ConfigFacts DEF IInv, RunsTyped
  <2> QED
    BY <2>1 DEF SettingsTypeOK, IInv, SavesTyped, SavesTrack, Open
<1>2. ASSUME NEW r \in Runs
      PROVE  /\ specs[r] \in Seq(Seq(Sites)) /\ next[r] \in Nat \ {0}
             /\ asked[r] \in Seq(Request)
             /\ IsResult(part[r]) /\ IsResult(merged[r])
             /\ landed[r] # NoRow => stage[r] = "landed" /\ IsResult(landed[r])
             /\ stage[r] = "collect" => DOMAIN config[r] = Keys
  <2>1. \A x \in Results : IsResult(x)
    BY ResultFacts DEF IsResult
  <2>2. Progress(r)
    BY DEF IInv, Run
  <2> QED
    BY <2>1, <2>2 DEF IInv, RunsTyped, Progress
<1> QED
  BY <1>1, <1>2 DEF TypeOK, IInv, RunsTyped

\* Without a request there is nothing in the books.
LEMMA EmptyBooks ==
  ASSUME NEW r \in Runs, asked[r] = <<>>, part[r] = Nothing, merged[r] = Nothing
  PROVE  Books(r)
<1>1. SitesAsked(r) = {} /\ SitesRaised(r) = {} /\ \A s : Rows(r, s) = {}
  BY DEF SitesAsked, SitesRaised, Rows, Requests
<1>2. \A s \in Sites : IsFiniteSet(Rows(r, s)) /\ Cardinality(Rows(r, s)) = 0
  BY <1>1, FS_EmptySet
<1>3. \A s : CountOf(merged[r].counts, s) = 0 /\ CountOf(part[r].counts, s) = 0
  BY NothingFacts
<1>4. \A s \in Sites : merged[r].records[s] = 0 /\ part[r].records[s] = 0
  BY NothingFacts
<1>5. DOMAIN merged[r].counts \cup DOMAIN part[r].counts = {} /\ merged[r].errors \cup part[r].errors = {}
  BY NothingFacts
<1> QED
  BY <1>1, <1>2, <1>3, <1>4, <1>5 DEF Books

LEMMA InitIInv == Init => IInv
<1> SUFFICES ASSUME Init PROVE IInv
  OBVIOUS
<1> USE SettingsAssumption, CollectAssumption DEF Init, SettingsInit
<1>1. PICK f \in Forms : stored \in {f, [k \in Keys |-> NoRow]}
  OBVIOUS
<1>2. SavesTyped
  <2>1. (CHOOSE g \in Forms : TRUE) \in Forms
    BY <1>1
  <2> QED
    BY <1>1, <2>1 DEF SavesTyped
<1>3. SavesTrack /\ Secured
  BY DEF SavesTrack, Secured, Open
<1>4. RunsTyped
  <2>1. <<>> \in Configs
    <3>1. <<>> \in [{} -> Values]
      OBVIOUS
    <3> QED
      BY <3>1 DEF Configs
  <2>2. <<>> \in Seq(Seq(Sites)) /\ <<>> \in Seq(Request)
    OBVIOUS
  <2> QED
    BY <2>1, <2>2, NothingFacts DEF RunsTyped
<1>5. ASSUME NEW r \in Runs  PROVE Run(r)
  <2>1. Progress(r)
    BY DEF Progress
  <2>2. Books(r)
    BY EmptyBooks
  <2>3. SearchByOne(r) /\ CurrentConfig(r) /\ OneConfig(r) /\ OneDelay(r)
    BY DEF SearchByOne, CurrentConfig, OneConfig, OneDelay
  <2> QED
    BY <2>1, <2>2, <2>3 DEF Run
<1> QED
  BY <1>2, <1>3, <1>4, <1>5 DEF IInv

-------------------------------------------------------------------------------
\* Who is not concerned by a step.

LEMMA RunKept ==
  ASSUME NEW r \in Runs, RunsTyped, Run(r),
         stage'[r] = stage[r], specs'[r] = specs[r], next'[r] = next[r], asked'[r] = asked[r],
         part'[r] = part[r], merged'[r] = merged[r], landed'[r] = landed[r],
         config'[r] = config[r], todo'[r] = todo[r],
         \A k \in Keys : current[r][k] \subseteq current'[r][k],
         stage[r] = "resolve" => \A k \in Keys : Effective(k)' \in current'[r][k]
  PROVE  Run(r)'
<1> USE DEF Run
<1>1. Progress(r)' /\ SearchByOne(r)'
  BY DEF Progress, SearchByOne
<1>2. Books(r)'
  <2>1. SitesAsked(r)' = SitesAsked(r) /\ SitesRaised(r)' = SitesRaised(r) /\ \A s : Rows(r, s)' = Rows(r, s)
    BY DEF SitesAsked, SitesRaised, Rows, Requests
  <2> QED
    BY <2>1 DEF Books
<1>3. CurrentConfig(r)'
  BY ConfigFacts DEF CurrentConfig, RunsTyped
<1>4. OneConfig(r)' /\ OneDelay(r)'
  BY DEF OneConfig, OneDelay
<1> QED
  BY <1>1, <1>2, <1>3, <1>4

LEMMA SavesKept ==
  ASSUME SavesTyped, SavesTrack, Secured, UNCHANGED <<stored, holds, at, want, saw, joined>>,
         todo' \in [Savers \cup Runs -> SUBSET Keys], \A a \in Savers : todo'[a] = todo[a]
  PROVE  SavesTyped' /\ SavesTrack' /\ Secured'
BY DEF SavesTyped, SavesTrack, Secured

-------------------------------------------------------------------------------
\* Steps of the saves.

\* A step of a save that commits nothing leaves every run as it is.
LEMMA RunsUntouched ==
  ASSUME IInv, UNCHANGED <<collecting, config, stored, current>>, \A r \in Runs : todo'[r] = todo[r]
  PROVE  RunsTyped' /\ \A r \in Runs : Run(r)'
<1> USE DEF collecting
<1>1. \A k : Effective(k)' = Effective(k)
  BY DEF Effective
<1>2. ASSUME NEW r \in Runs  PROVE Run(r)'
  <2>1. RunsTyped /\ Run(r)
    BY DEF IInv
  <2>2. stage[r] = "resolve" => \A k \in Keys : Effective(k)' \in current'[r][k]
    BY <1>1, <2>1 DEF Run, Progress
  <2> QED
    BY <2>1, <2>2, RunKept
<1> QED
  BY <1>2 DEF IInv, RunsTyped

LEMMA SaversAreNotRuns ==
  ASSUME NEW a \in Savers, NEW S, todo \in [Savers \cup Runs -> SUBSET Keys],
         todo' = [todo EXCEPT ![a] = S]
  PROVE  /\ \A r \in Runs : todo'[r] = todo[r]
         /\ \A b \in Savers : b # a => todo'[b] = todo[b]
         /\ todo'[a] = S
BY SettingsAssumption

LEMMA NextKeyFacts ==
  ASSUME NEW x, NEW k \in NextKey(x)
  PROVE  k \in todo[x]
BY DEF NextKey

LEMMA RefuseFormStep ==
  ASSUME IInv, NEW a \in Savers, RefuseForm(a), UNCHANGED collecting
  PROVE  IInv'
<1>1. SavesTyped' /\ SavesTrack' /\ Secured'
  BY DEF RefuseForm, IInv, SavesTyped, SavesTrack, Secured, Open
<1> QED
  BY <1>1, RunsUntouched DEF RefuseForm, IInv

LEMMA BeginSaveStep ==
  ASSUME IInv, NEW a \in Savers, NEW form \in Forms, BeginSave(a, form), UNCHANGED collecting
  PROVE  IInv'
<1> USE DEF BeginSave
<1>1. todo' = [todo EXCEPT ![a] = Keys]
  BY DEF Saved
<1>2. /\ \A r \in Runs : todo'[r] = todo[r]
      /\ \A b \in Savers : b # a => todo'[b] = todo[b]
      /\ todo'[a] = Keys
  BY <1>1, SaversAreNotRuns DEF IInv, SavesTyped
<1>3. SavesTyped'
  BY <1>1 DEF IInv, SavesTyped
<1>4. SavesTrack'
  BY <1>2, SettingsAssumption DEF IInv, SavesTyped, SavesTrack, Open
<1>5. Secured'
  BY <1>2 DEF IInv, SavesTyped, Secured, Open
<1> QED
  BY <1>2, <1>3, <1>4, <1>5, RunsUntouched DEF IInv

\* Going past a key.
LEMMA PastFacts ==
  ASSUME IInv, NEW a \in Savers, at[a] \in {"read", "write"}, NEW k \in todo[a], Past(a, k)
  PROVE  /\ \A r \in Runs : todo'[r] = todo[r]
         /\ \A b \in Savers : b # a => todo'[b] = todo[b] /\ at'[b] = at[b]
         /\ todo'[a] = todo[a] \ {k}
         /\ todo' \in [Savers \cup Runs -> SUBSET Keys]
         /\ at'[a] = IF todo[a] = {k} THEN "commit" ELSE "read"
         /\ at' \in [Savers -> {"idle", "read", "write", "commit", "saved", "refused", "failed"}]
         /\ at'[a] \in Open
         /\ at'[a] \in {"read", "write"} => todo'[a] # {}
         /\ at'[a] = "commit" => todo'[a] = {}
<1> USE DEF Past, IInv, SavesTyped
<1>1. todo' = [todo EXCEPT ![a] = todo[a] \ {k}]
  OBVIOUS
<1>2. /\ \A r \in Runs : todo'[r] = todo[r]
      /\ \A b \in Savers : b # a => todo'[b] = todo[b]
      /\ todo'[a] = todo[a] \ {k}
  BY <1>1, SaversAreNotRuns
<1>3. todo' \in [Savers \cup Runs -> SUBSET Keys]
  BY <1>1
<1>4. at'[a] = IF todo[a] = {k} THEN "commit" ELSE "read"
  OBVIOUS
<1> QED
  BY <1>2, <1>3, <1>4 DEF Open

LEMMA ReadKeyStep ==
  ASSUME IInv, NEW a \in Savers, ReadKey(a), UNCHANGED collecting
  PROVE  IInv'
<1> USE DEF ReadKey
<1>1. PICK k \in NextKey(a) :
        IF stored[k] = want[a][k]
        THEN Past(a, k) /\ UNCHANGED saw
        ELSE /\ at' = [at EXCEPT ![a] = "write"]
             /\ saw' = [saw EXCEPT ![a] = stored[k]]
             /\ UNCHANGED todo
  OBVIOUS
<1>2. k \in todo[a] /\ k \in Keys
  BY NextKeyFacts DEF IInv, SavesTyped
<1>3. CASE stored[k] = want[a][k]
  <2>1. Past(a, k) /\ saw' = saw
    BY <1>1, <1>3
  <2>2. SavesTyped'
    BY <1>2, <2>1, PastFacts DEF IInv, SavesTyped
  <2>3. SavesTrack'
    BY <1>2, <2>1, PastFacts DEF IInv, SavesTyped, SavesTrack, Open
  <2>4. Secured'
    BY <1>2, <1>3, <2>1, PastFacts DEF IInv, Secured, Open
  <2> QED
    BY <1>2, <2>1, <2>2, <2>3, <2>4, PastFacts, RunsUntouched DEF IInv
<1>4. CASE stored[k] # want[a][k]
  <2>1. /\ at' = [at EXCEPT ![a] = "write"] /\ saw' = [saw EXCEPT ![a] = stored[k]]
        /\ todo' = todo
    BY <1>1, <1>4
  <2>2. SavesTyped'
    BY <1>2, <2>1 DEF IInv, SavesTyped
  <2>3. SavesTrack' /\ Secured'
    BY <1>2, <2>1 DEF IInv, SavesTyped, SavesTrack, Secured, Open
  <2> QED
    BY <2>1, <2>2, <2>3, RunsUntouched DEF IInv
<1> QED
  BY <1>3, <1>4

LEMMA WriteKeyStep ==
  ASSUME IInv, NEW a \in Savers, WriteKey(a), UNCHANGED collecting
  PROVE  IInv'
<1> USE DEF WriteKey
<1>1. PICK k \in NextKey(a) : holds[k] = Nobody /\ holds' = [holds EXCEPT ![k] = a] /\ Past(a, k)
  OBVIOUS
<1>2. k \in todo[a] /\ k \in Keys
  BY NextKeyFacts DEF IInv, SavesTyped
<1>3. SavesTyped'
  BY <1>1, <1>2, PastFacts DEF IInv, SavesTyped
<1>4. SavesTrack'
  BY <1>1, <1>2, PastFacts DEF IInv, SavesTyped, SavesTrack, Open
<1>5. Secured'
  <2> SUFFICES ASSUME NEW b \in Savers, at'[b] \in Open, ~joined[b], NEW l \in Keys \ todo'[b]
               PROVE  holds'[l] = b \/ stored[l] = want[b][l]
    BY DEF Secured
  <2>1. CASE b = a
    <3>1. l = k \/ l \in Keys \ todo[a]
      BY <1>1, <1>2, <2>1, PastFacts
    <3> QED
      BY <1>1, <1>2, <2>1, <3>1, SettingsAssumption DEF IInv, SavesTyped, Secured, Open
  <2>2. CASE b # a
    <3>1. at[b] \in Open /\ l \in Keys \ todo[b]
      BY <1>1, <1>2, <2>2, PastFacts
    <3> QED
      BY <1>1, <1>2, <2>2, <3>1, SettingsAssumption DEF IInv, SavesTyped, Secured
  <2> QED
    BY <2>1, <2>2
<1> QED
  BY <1>1, <1>2, <1>3, <1>4, <1>5, PastFacts, RunsUntouched DEF IInv

LEMMA RollbackStep ==
  ASSUME IInv, NEW a \in Savers, Rollback(a), UNCHANGED collecting
  PROVE  IInv'
<1> USE DEF Rollback, Release
<1>1. /\ \A r \in Runs : todo'[r] = todo[r]
      /\ \A b \in Savers : b # a => todo'[b] = todo[b]
  BY SaversAreNotRuns DEF IInv, SavesTyped
<1>2. SavesTyped'
  BY SettingsAssumption DEF IInv, SavesTyped
<1>3. SavesTrack'
  BY <1>1 DEF IInv, SavesTyped, SavesTrack, Open
<1>4. Secured'
  BY <1>1 DEF IInv, SavesTyped, Secured, Open
<1> QED
  BY <1>1, <1>2, <1>3, <1>4, RunsUntouched DEF IInv

\* A commit makes the form's values the stored ones, for the keys it wrote; the
\* save is then whole, unless another committed meanwhile.
LEMMA CommitSaveStep ==
  ASSUME IInv, NEW a \in Savers, CommitSave(a), UNCHANGED collecting
  PROVE  IInv' /\ (~joined[a] => \A k \in Keys : Effective(k)' = want[a][k])
<1> USE DEF CommitSave, Release
<1>1. SavesTyped'
  <2>1. \A k \in Keys : want[a][k] \in Values
    BY SettingsAssumption DEF IInv, SavesTyped
  <2>2. stored' \in [Keys -> Values \cup {NoRow}]
    BY <2>1 DEF IInv, SavesTyped
  <2>3. holds' \in [Keys -> Savers \cup {Nobody}] /\ joined' \in [Savers -> BOOLEAN]
    BY DEF IInv, SavesTyped
  <2> QED
    BY <2>2, <2>3 DEF IInv, SavesTyped
<1>2. SavesTrack'
  BY DEF IInv, SavesTyped, SavesTrack, Open
<1>3. Secured'
  BY DEF IInv, SavesTyped, Secured, Open
<1>4. \A k \in Keys : Effective(k)' \in Values
  BY <1>1, SettingsAssumption DEF Effective, SavesTyped
<1>5. RunsTyped'
  <2>1. current' \in [Runs -> [Keys -> SUBSET Values]]
    BY <1>4 DEF IInv, RunsTyped
  <2> QED
    BY <2>1 DEF IInv, RunsTyped, collecting
<1>6. ASSUME NEW r \in Runs  PROVE Run(r)'
  <2>1. RunsTyped /\ Run(r)
    BY DEF IInv
  <2>2. \A k \in Keys : current'[r][k] = IF current[r][k] = {} THEN {} ELSE current[r][k] \cup {Effective(k)'}
    BY DEF IInv, RunsTyped
  <2>3. stage[r] = "resolve" => \A k \in Keys : Effective(k)' \in current'[r][k]
    BY <2>1, <2>2 DEF Run, Progress
  <2>4. \A k \in Keys : current[r][k] \subseteq current'[r][k]
    BY <2>2
  <2> QED
    BY <2>1, <2>3, <2>4, RunKept DEF collecting
<1>7. ASSUME ~joined[a], NEW k \in Keys  PROVE Effective(k)' = want[a][k]
  <2>1. todo[a] = {} /\ (holds[k] = a \/ stored[k] = want[a][k]) /\ want[a][k] \in Values
    BY <1>7, SettingsAssumption DEF IInv, SavesTyped, SavesTrack, Secured, Open
  <2>2. stored'[k] = want[a][k] /\ want[a][k] # NoRow
    BY <2>1, SettingsAssumption
  <2> QED
    BY <2>2 DEF Effective
<1> QED
  BY <1>1, <1>2, <1>3, <1>5, <1>6, <1>7 DEF IInv

-------------------------------------------------------------------------------
\* Steps of the runs.

LEMMA RunsAreNotSavers ==
  ASSUME NEW r \in Runs, NEW S, todo \in [Savers \cup Runs -> SUBSET Keys],
         todo' = [todo EXCEPT ![r] = S]
  PROVE  /\ \A a \in Savers : todo'[a] = todo[a]
         /\ \A o \in Runs : o # r => todo'[o] = todo[o]
         /\ todo'[r] = S
BY SettingsAssumption

LEMMA SameEffective == UNCHANGED stored => \A k : Effective(k)' = Effective(k)
BY DEF Effective

LEMMA StartStep ==
  ASSUME IInv, NEW r \in Runs, Start(r)
  PROVE  IInv'
<1> USE DEF Start, BeginResolve, saving, IInv
<1>1. todo' = [todo EXCEPT ![r] = Keys] /\ todo' \in [Savers \cup Runs -> SUBSET Keys]
  BY DEF SavesTyped
<1>2. /\ \A a \in Savers : todo'[a] = todo[a]
      /\ \A o \in Runs : o # r => todo'[o] = todo[o]
      /\ todo'[r] = Keys
  BY <1>1, RunsAreNotSavers DEF SavesTyped
<1>3. SavesTyped' /\ SavesTrack' /\ Secured'
  BY <1>1, <1>2, SavesKept
<1>4. PICK e \in Enabled : specs' = [specs EXCEPT ![r] = SpecsOf(e)]
  OBVIOUS
<1>5. \A k \in Keys : Effective(k) \in Values
  BY SettingsAssumption DEF SavesTyped, Effective
<1>6. RunsTyped'
  <2>1. SpecsOf(e) \in Seq(Seq(Sites))
    BY CollectAssumption DEF SpecsOf
  <2>2. current' \in [Runs -> [Keys -> SUBSET Values]]
    BY <1>5 DEF RunsTyped
  <2> QED
    BY <1>4, <2>1, <2>2 DEF RunsTyped
<1>7. Run(r)'
  <2>1. /\ asked'[r] = <<>> /\ part'[r] = Nothing /\ merged'[r] = Nothing /\ next'[r] = 1
        /\ DOMAIN config'[r] = {} /\ landed'[r] = NoRow /\ stage'[r] = "resolve"
    BY DEF RunsTyped, Run, Progress
  <2>2. \A k \in Keys : Effective(k)' \in current'[r][k]
    BY SameEffective DEF RunsTyped
  <2>3. Progress(r)'
    BY <1>2, <2>1, <2>2 DEF Progress
  <2>4. Books(r)'
    <3>1. SitesAsked(r)' = {} /\ SitesRaised(r)' = {} /\ \A s : Rows(r, s)' = {}
      BY <2>1 DEF SitesAsked, SitesRaised, Rows, Requests
    <3>2. \A s \in Sites : IsFiniteSet(Rows(r, s)') /\ Cardinality(Rows(r, s)') = 0
      BY <3>1, FS_EmptySet
    <3>3. \A s : CountOf(merged'[r].counts, s) = 0 /\ CountOf(part'[r].counts, s) = 0
      BY <2>1, NothingFacts
    <3>4. \A s \in Sites : merged'[r].records[s] = 0 /\ part'[r].records[s] = 0
      BY <2>1, NothingFacts
    <3>5. DOMAIN merged'[r].counts \cup DOMAIN part'[r].counts = {} /\ merged'[r].errors \cup part'[r].errors = {}
      BY <2>1, NothingFacts
    <3> QED
      BY <3>1, <3>2, <3>3, <3>4, <3>5 DEF Books
  <2>5. SearchByOne(r)' /\ CurrentConfig(r)' /\ OneConfig(r)' /\ OneDelay(r)'
    BY <2>1 DEF SearchByOne, CurrentConfig, OneConfig, OneDelay
  <2> QED
    BY <2>3, <2>4, <2>5 DEF Run
<1>8. ASSUME NEW o \in Runs, o # r  PROVE Run(o)'
  <2>1. RunsTyped /\ Run(o)
    OBVIOUS
  <2>2. /\ stage'[o] = stage[o] /\ specs'[o] = specs[o] /\ current'[o] = current[o]
        /\ todo'[o] = todo[o]
    BY <1>2, <1>4, <1>8 DEF RunsTyped
  <2>3. stage[o] = "resolve" => \A k \in Keys : Effective(k)' \in current'[o][k]
    BY <2>1, <2>2, SameEffective DEF Run, Progress
  <2> QED
    BY <2>1, <2>2, <2>3, RunKept
<1> QED
  BY <1>3, <1>6, <1>7, <1>8

LEMMA ResolveStep ==
  ASSUME IInv, NEW r \in Runs, Resolve(r)
  PROVE  IInv'
<1> USE DEF Resolve, ResolveKey, saving, IInv
<1>1. PICK k \in NextKey(r) :
        /\ config' = [config EXCEPT ![r] = [l \in DOMAIN @ \cup {k} |-> IF l = k THEN Effective(k) ELSE @[l]]]
        /\ todo' = [todo EXCEPT ![r] = @ \ {k}]
  BY DEF Resolved
<1>2. k \in todo[r] /\ k \in Keys
  BY <1>1, NextKeyFacts DEF SavesTyped
<1>3. todo' = [todo EXCEPT ![r] = todo[r] \ {k}] /\ todo' \in [Savers \cup Runs -> SUBSET Keys]
  BY <1>1 DEF SavesTyped
<1>4. /\ \A a \in Savers : todo'[a] = todo[a]
      /\ \A o \in Runs : o # r => todo'[o] = todo[o]
      /\ todo'[r] = todo[r] \ {k}
  BY <1>3, RunsAreNotSavers DEF SavesTyped
<1>5. SavesTyped' /\ SavesTrack' /\ Secured'
  BY <1>3, <1>4, SavesKept
<1>6. Effective(k) \in Values
  BY <1>2, SettingsAssumption DEF SavesTyped, Effective
<1> DEFINE c == [l \in DOMAIN config[r] \cup {k} |-> IF l = k THEN Effective(k) ELSE config[r][l]]
<1>7. config' = [config EXCEPT ![r] = c]
  BY <1>1
<1>8. config[r] \in Configs /\ DOMAIN config[r] \subseteq Keys /\ config[r] \in [DOMAIN config[r] -> Values]
  BY ConfigFacts DEF RunsTyped
<1>9. c \in Configs
  <2>1. c \in [DOMAIN config[r] \cup {k} -> Values]
    BY <1>6, <1>8
  <2> QED
    BY <1>2, <1>8, <2>1 DEF Configs
<1>10. DOMAIN c = DOMAIN config[r] \cup {k} /\ c[k] = Effective(k)
       /\ \A l \in DOMAIN config[r] : l # k => c[l] = config[r][l]
  OBVIOUS
<1> HIDE DEF c
<1>11. config'[r] = c /\ \A o \in Runs : o # r => config'[o] = config[o]
  BY <1>7 DEF RunsTyped
<1>12. RunsTyped'
  BY <1>7, <1>9 DEF RunsTyped
<1>13. Run(r)'
  <2>1. /\ asked'[r] = <<>> /\ part'[r] = Nothing /\ merged'[r] = Nothing /\ next'[r] = 1
        /\ landed'[r] = NoRow /\ DOMAIN config[r] = Keys \ todo[r]
        /\ \A l \in Keys : Effective(l) \in current[r][l]
    BY DEF Run, Progress
  <2>2. stage'[r] \in {"resolve", "collect"} /\ (stage'[r] = "collect" => todo[r] = {k})
    <3>1. stage'[r] = IF Cardinality(todo[r]) = 1 THEN "collect" ELSE "resolve"
      BY DEF RunsTyped
    <3>2. IsFiniteSet(todo[r])
      BY FS_Subset, SettingsAssumption DEF SavesTyped
    <3>3. Cardinality(todo[r]) = 1 => \E x : todo[r] = {x}
      BY <3>2, FS_Singleton
    <3> QED
      BY <1>2, <3>1, <3>3
  <2>3. DOMAIN config'[r] = Keys \ todo'[r]
    BY <1>2, <1>4, <1>10, <1>11, <2>1
  <2>4. \A l \in Keys : Effective(l)' \in current'[r][l]
    BY <2>1, SameEffective
  <2>5. Progress(r)'
    BY <1>4, <2>1, <2>2, <2>3, <2>4 DEF Progress
  <2>6. Books(r)'
    <3>1. SitesAsked(r)' = SitesAsked(r) /\ SitesRaised(r)' = SitesRaised(r) /\ \A s : Rows(r, s)' = Rows(r, s)
      BY DEF SitesAsked, SitesRaised, Rows, Requests
    <3> QED
      BY <3>1 DEF Run, Books
  <2>7. CurrentConfig(r)'
    BY <1>8, <1>10, <1>11, <2>1, <1>2 DEF Run, CurrentConfig
  <2>8. SearchByOne(r)' /\ OneConfig(r)' /\ OneDelay(r)'
    BY <2>1 DEF SearchByOne, OneConfig, OneDelay
  <2> QED
    BY <2>5, <2>6, <2>7, <2>8 DEF Run
<1>14. ASSUME NEW o \in Runs, o # r  PROVE Run(o)'
  <2>1. RunsTyped /\ Run(o)
    OBVIOUS
  <2>2. stage'[o] = stage[o] /\ config'[o] = config[o] /\ todo'[o] = todo[o]
    BY <1>4, <1>11, <1>14 DEF RunsTyped
  <2>3. stage[o] = "resolve" => \A l \in Keys : Effective(l)' \in current'[o][l]
    BY <2>1, <2>2, SameEffective DEF Run, Progress
  <2> QED
    BY <2>1, <2>2, <2>3, RunKept
<1> QED
  BY <1>5, <1>12, <1>13, <1>14

\* The next steps leave the settings alone.
LEMMA CollectingFrame ==
  ASSUME IInv, UNCHANGED settingsVars, NEW r \in Runs, RunsTyped', Run(r)',
         \A o \in Runs : o # r =>
           /\ stage'[o] = stage[o] /\ specs'[o] = specs[o] /\ next'[o] = next[o]
           /\ asked'[o] = asked[o] /\ part'[o] = part[o] /\ merged'[o] = merged[o]
           /\ landed'[o] = landed[o]
  PROVE  IInv'
<1>1. SavesTyped' /\ SavesTrack' /\ Secured'
  BY SavesKept DEF IInv, settingsVars, saving, SavesTyped
<1>2. ASSUME NEW o \in Runs, o # r  PROVE Run(o)'
  <2>1. RunsTyped /\ Run(o)
    BY DEF IInv
  <2>2. UNCHANGED <<stored, config, todo, current>>
    BY DEF settingsVars, saving
  <2>3. stage[o] = "resolve" => \A l \in Keys : Effective(l)' \in current'[o][l]
    BY <2>1, <2>2, SameEffective DEF Run, Progress
  <2> QED
    BY <1>2, <2>1, <2>2, <2>3, RunKept
<1> QED
  BY <1>1, <1>2 DEF IInv

LEMMA NumberedRows ==
  ASSUME NEW i, NEW n \in Nat
  PROVE  IsFiniteSet({i} \X (1..n)) /\ Cardinality({i} \X (1..n)) = n
<1> DEFINE h == [j \in 1..n |-> <<i, j>>]
           T == {i} \X (1..n)
<1>1. h \in Bijection(1..n, T)
  <2>1. h \in [1..n -> T] /\ \A j, k \in 1..n : h[j] = h[k] => j = k
    OBVIOUS
  <2>2. \A x \in T : \E j \in 1..n : h[j] = x
    <3> SUFFICES ASSUME NEW x \in T  PROVE \E j \in 1..n : h[j] = x
      OBVIOUS
    <3>1. x[2] \in 1..n /\ x = <<i, x[2]>>
      OBVIOUS
    <3>2. h[x[2]] = x
      BY <3>1
    <3> QED
      BY <3>1, <3>2
  <2> HIDE DEF h, T
  <2> QED
    BY <2>1, <2>2 DEF Bijection, Injection, Surjection, IsInjective
<1>2. ExistsBijection(1..n, T)
  BY <1>1 DEF ExistsBijection
<1>3. IsFiniteSet(1..n) /\ Cardinality(1..n) = n
  BY FS_Interval
<1> QED
  BY <1>2, <1>3, FS_Bijection

\* One request more in the books of a run.
LEMMA RequestNoted ==
  ASSUME NEW r \in Runs, asked[r] \in Seq(Request), NEW x \in Request,
         asked'[r] = Append(asked[r], x), \A s \in Sites : IsFiniteSet(Rows(r, s))
  PROVE  /\ SitesAsked(r)' = SitesAsked(r) \cup {x.site}
         /\ SitesRaised(r)' = IF x.raised THEN SitesRaised(r) \cup {x.site} ELSE SitesRaised(r)
         /\ \A s \in Sites \ {x.site} : Rows(r, s)' = Rows(r, s)
         /\ IsFiniteSet(Rows(r, x.site)')
         /\ Cardinality(Rows(r, x.site)') = Cardinality(Rows(r, x.site)) + x.rows
<1> DEFINE A == asked[r]
           B == asked'[r]
           N == Len(A)
<1>1. /\ N \in Nat /\ DOMAIN A = 1..N /\ DOMAIN B = 1..(N + 1)
      /\ \A i \in 1..N : B[i] = A[i]
      /\ B[N + 1] = x
  OBVIOUS
<1>2. x.site \in Sites /\ x.rows \in Nat
  BY DEF Request
<1>3. DOMAIN B = DOMAIN A \cup {N + 1} /\ N + 1 \notin DOMAIN A
  BY <1>1
<1> HIDE DEF A, B, N
<1>4. SitesAsked(r)' = SitesAsked(r) \cup {x.site}
  BY <1>1, <1>3 DEF SitesAsked, A, B
<1>5. SitesRaised(r)' = IF x.raised THEN SitesRaised(r) \cup {x.site} ELSE SitesRaised(r)
  <2>1. \A s : s \in SitesRaised(r) <=> \E i \in DOMAIN A : A[i].raised /\ A[i].site = s
    BY DEF SitesRaised, A
  <2>2. \A s : s \in SitesRaised(r)' <=> \E i \in DOMAIN B : B[i].raised /\ B[i].site = s
    BY DEF SitesRaised, B
  <2>3. \A s : s \in SitesRaised(r)' <=> s \in SitesRaised(r) \/ (x.raised /\ x.site = s)
    BY <1>1, <1>3, <2>1, <2>2
  <2> QED
    BY <2>3
<1>6. \A s : Requests(r, s)' = IF s = x.site THEN Requests(r, s) \cup {N + 1} ELSE Requests(r, s)
  BY <1>1, <1>3 DEF Requests, A, B
<1>7. \A s : Requests(r, s) \subseteq 1..N
  BY <1>1 DEF Requests, A
<1> DEFINE more == {N + 1} \X (1..x.rows)
<1>8. /\ \A s \in Sites \ {x.site} : Rows(r, s)' = Rows(r, s)
      /\ Rows(r, x.site)' = Rows(r, x.site) \cup more
  <2>1. \A s : Rows(r, s) = UNION {{i} \X (1..A[i].rows) : i \in Requests(r, s)}
    BY DEF Rows, A
  <2>2. \A s : Rows(r, s)' = UNION {{i} \X (1..B[i].rows) : i \in Requests(r, s)'}
    BY DEF Rows, B
  <2>3. \A s : \A i \in Requests(r, s) : B[i] = A[i]
    BY <1>1, <1>7
  <2>4. ASSUME NEW s \in Sites \ {x.site}  PROVE Rows(r, s)' = Rows(r, s)
    <3> DEFINE old(i) == {i} \X (1..A[i].rows)
               new(i) == {i} \X (1..B[i].rows)
    <3>1. \A i \in Requests(r, s) : new(i) = old(i)
      BY <2>3
    <3>2. /\ Rows(r, s) = UNION {old(i) : i \in Requests(r, s)}
          /\ Rows(r, s)' = UNION {new(i) : i \in Requests(r, s)}
      BY <1>6, <2>1, <2>2
    <3> HIDE DEF old, new
    <3> QED
      BY <3>1, <3>2
  <2>5. Rows(r, x.site)' = Rows(r, x.site) \cup more
    <3> DEFINE old(i) == {i} \X (1..A[i].rows)
               new(i) == {i} \X (1..B[i].rows)
    <3>1. \A i \in Requests(r, x.site) : new(i) = old(i)
      BY <2>3
    <3>2. new(N + 1) = more
      BY <1>1
    <3>3. /\ Rows(r, x.site) = UNION {old(i) : i \in Requests(r, x.site)}
          /\ Rows(r, x.site)' = UNION {new(i) : i \in Requests(r, x.site) \cup {N + 1}}
      BY <1>6, <2>1, <2>2
    <3> HIDE DEF old, new, more
    <3> QED
      BY <3>1, <3>2, <3>3
  <2> QED
    BY <2>4, <2>5
<1>9. IsFiniteSet(more) /\ Cardinality(more) = x.rows
  BY <1>2, NumberedRows
<1>10. Rows(r, x.site) \cap more = {}
  <2>1. \A y \in Rows(r, x.site) : y[1] \in 1..N
    BY <1>7 DEF Rows
  <2>2. \A y \in more : y[1] = N + 1
    OBVIOUS
  <2> HIDE DEF more
  <2> QED
    BY <1>1, <2>1, <2>2
<1> HIDE DEF more
<1>11. /\ IsFiniteSet(Rows(r, x.site) \cup more)
       /\ Cardinality(Rows(r, x.site) \cup more) = Cardinality(Rows(r, x.site)) + x.rows
  <2>1. IsFiniteSet(Rows(r, x.site)) /\ Cardinality(Rows(r, x.site)) \in Nat
    BY <1>2, FS_CardinalityType
  <2>2. /\ IsFiniteSet(Rows(r, x.site) \cup more)
        /\ Cardinality(Rows(r, x.site) \cup more)
             = Cardinality(Rows(r, x.site)) + Cardinality(more) - Cardinality(Rows(r, x.site) \cap more)
    BY <1>9, <2>1, FS_Union
  <2>3. Cardinality(Rows(r, x.site) \cap more) = 0
    BY <1>10, FS_EmptySet
  <2> QED
    BY <1>2, <1>9, <2>1, <2>2, <2>3
<1> QED
  BY <1>4, <1>5, <1>8, <1>11

LEMMA CountedFacts ==
  ASSUME NEW x \in Results, NEW s \in Sites, NEW n \in Nat
  PROVE  /\ Counted(x.counts, s, n) \in Counts
         /\ DOMAIN Counted(x.counts, s, n) = DOMAIN x.counts \cup {s}
         /\ \A t : CountOf(Counted(x.counts, s, n), t)
                     = IF t = s THEN CountOf(x.counts, t) + n ELSE CountOf(x.counts, t)
<1> DEFINE c == Counted(x.counts, s, n)
           D == DOMAIN x.counts \cup {s}
<1>1. /\ DOMAIN x.counts \subseteq Sites /\ (\A t \in DOMAIN x.counts : x.counts[t] \in Nat)
      /\ \A t : CountOf(x.counts, t) \in Nat
  BY ResultFacts
<1>2. DOMAIN c = D /\ \A t \in D : c[t] = IF t = s THEN CountOf(x.counts, s) + n ELSE x.counts[t]
  BY DEF Counted
<1>3. c \in [D -> Nat]
  <2>1. \A t \in D : c[t] \in Nat
    BY <1>1, <1>2
  <2>2. c = [t \in D |-> c[t]]
    BY DEF Counted
  <2> HIDE DEF c
  <2> QED
    BY <2>1, <2>2
<1> HIDE DEF c
<1>4. c \in Counts
  BY <1>1, <1>3 DEF Counts
<1>5. \A t : CountOf(c, t) = IF t = s THEN CountOf(x.counts, t) + n ELSE CountOf(x.counts, t)
  BY <1>2 DEF CountOf
<1> QED
  BY <1>2, <1>4, <1>5 DEF c

LEMMA QueryStep ==
  ASSUME IInv, NEW r \in Runs, Query(r)
  PROVE  IInv'
<1> USE DEF IInv
<1> DEFINE limit == config[r][LIMIT]
           p == part[r]
           m == merged[r]
<1>0. /\ stage[r] = "collect" /\ specs[r] # <<>> /\ next[r] <= Len(Head(specs[r]))
      /\ next' = [next EXCEPT ![r] = @ + 1]
      /\ UNCHANGED <<settingsVars, stage, specs, merged, landed>>
  BY DEF Query
<1>s. PICK s : s = Head(specs[r])[next[r]]
  OBVIOUS
<1>1. PICK n \in 0..limit, raised \in BOOLEAN :
        /\ asked' = [asked EXCEPT ![r] = Append(asked[r],
             [search |-> Len(specs[r]), site |-> s, limit |-> limit, slept |-> Sleeps(r),
              rows |-> n, raised |-> raised])]
        /\ part' = [part EXCEPT ![r] =
             [records |-> [p.records EXCEPT ![s] = p.records[s] + n],
              counts |-> Counted(p.counts, s, n),
              errors |-> IF raised THEN p.errors \cup {s} ELSE p.errors]]
  BY <1>s DEF Query, ConfigOf
<1>x. PICK x : x = [search |-> Len(specs[r]), site |-> s, limit |-> limit, slept |-> Sleeps(r),
                    rows |-> n, raised |-> raised]
  OBVIOUS
<1> DEFINE p2 == [records |-> [p.records EXCEPT ![s] = p.records[s] + n],
                  counts |-> Counted(p.counts, s, n),
                  errors |-> IF raised THEN p.errors \cup {s} ELSE p.errors]
<1>2. Run(r) /\ Progress(r) /\ Books(r) /\ DOMAIN config[r] = Keys
  BY <1>0 DEF Run, Progress
<1>3. config[r] \in [Keys -> Values] /\ limit \in Values /\ limit \in Nat /\ config[r][DELAY] \in Nat
  BY <1>2, ConfigFacts, CollectAssumption DEF RunsTyped
<1>4. s \in Sites /\ Len(specs[r]) \in Nat
  <2>1. specs[r] \in Seq(Seq(Sites)) /\ next[r] \in Nat \ {0}
    BY DEF RunsTyped
  <2>2. Head(specs[r]) \in Seq(Sites)
    BY <1>0, <2>1
  <2> QED
    BY <1>0, <1>s, <2>1, <2>2
<1>5. n \in Nat /\ n <= limit
  BY <1>3
<1>6. x \in Request
  <2>1. Sleeps(r) \in BOOLEAN
    BY DEF Sleeps
  <2> QED
    BY <1>3, <1>4, <1>5, <1>x, <2>1 DEF Request
<1>7. p \in Results /\ m \in Results /\ asked[r] \in Seq(Request)
  BY DEF RunsTyped
<1>8. /\ Counted(p.counts, s, n) \in Counts
      /\ DOMAIN Counted(p.counts, s, n) = DOMAIN p.counts \cup {s}
      /\ \A t : CountOf(Counted(p.counts, s, n), t)
                  = IF t = s THEN CountOf(p.counts, t) + n ELSE CountOf(p.counts, t)
  BY <1>4, <1>5, <1>7, CountedFacts
<1>9. /\ asked' = [asked EXCEPT ![r] = Append(asked[r], x)]
      /\ part' = [part EXCEPT ![r] = p2]
  BY <1>1, <1>x
<1>10. x.search = Len(specs[r]) /\ x.site = s /\ x.limit = limit /\ x.slept = Sleeps(r)
       /\ x.rows = n /\ x.raised = raised
  BY <1>x
<1>11. /\ p2.counts = Counted(p.counts, s, n)
       /\ p2.records = [p.records EXCEPT ![s] = p.records[s] + n]
       /\ p2.errors = IF raised THEN p.errors \cup {s} ELSE p.errors
       /\ p2 \in Results
  BY <1>4, <1>5, <1>7, <1>8 DEF Results
<1> HIDE DEF limit, p2
<1>12. asked'[r] = Append(asked[r], x) /\ part'[r] = p2 /\ merged'[r] = m /\ next'[r] = next[r] + 1
  BY <1>0, <1>9 DEF RunsTyped
<1>13. RunsTyped'
  <2>1. Append(asked[r], x) \in Seq(Request)
    BY <1>6, <1>7
  <2> QED
    BY <1>0, <1>9, <1>11, <2>1 DEF RunsTyped, settingsVars
<1>14. Progress(r)'
  BY <1>0, <1>2, <1>12, <1>13 DEF Progress, RunsTyped, settingsVars
<1>15. Books(r)'
  <2>1. /\ SitesAsked(r)' = SitesAsked(r) \cup {s}
        /\ SitesRaised(r)' = IF raised THEN SitesRaised(r) \cup {s} ELSE SitesRaised(r)
        /\ \A t \in Sites \ {s} : Rows(r, t)' = Rows(r, t)
        /\ IsFiniteSet(Rows(r, s)')
        /\ Cardinality(Rows(r, s)') = Cardinality(Rows(r, s)) + n
    <3>1. \A t \in Sites : IsFiniteSet(Rows(r, t))
      BY <1>2 DEF Books
    <3>2. /\ SitesAsked(r)' = SitesAsked(r) \cup {x.site}
          /\ SitesRaised(r)' = IF x.raised THEN SitesRaised(r) \cup {x.site} ELSE SitesRaised(r)
          /\ \A t \in Sites \ {x.site} : Rows(r, t)' = Rows(r, t)
          /\ IsFiniteSet(Rows(r, x.site)')
          /\ Cardinality(Rows(r, x.site)') = Cardinality(Rows(r, x.site)) + x.rows
      BY <1>6, <1>7, <1>12, <3>1, RequestNoted
    <3> QED
      BY <1>10, <3>2
  <2>2. \A t : CountOf(p2.counts, t) = IF t = s THEN CountOf(p.counts, t) + n ELSE CountOf(p.counts, t)
    BY <1>8, <1>11
  <2>3. \A t : CountOf(p.counts, t) \in Nat /\ CountOf(m.counts, t) \in Nat
    BY <1>7, ResultFacts
  <2>4. ASSUME NEW t \in Sites
        PROVE  /\ IsFiniteSet(Rows(r, t)')
               /\ CountOf(m.counts, t) + CountOf(p2.counts, t) = Cardinality(Rows(r, t)')
               /\ m.records[t] = CountOf(m.counts, t)
               /\ p2.records[t] = CountOf(p2.counts, t)
    <3>1. /\ IsFiniteSet(Rows(r, t))
          /\ CountOf(m.counts, t) + CountOf(p.counts, t) = Cardinality(Rows(r, t))
          /\ m.records[t] = CountOf(m.counts, t) /\ p.records[t] = CountOf(p.counts, t)
      BY <1>2 DEF Books
    <3>2. p2.records[t] = IF t = s THEN p.records[t] + n ELSE p.records[t]
      BY <1>4, <1>7, <1>11, ResultFacts
    <3>3. CASE t = s
      <4>1. CountOf(p2.counts, t) = CountOf(p.counts, t) + n /\ p2.records[t] = p.records[t] + n
        BY <2>2, <3>2, <3>3
      <4>2. Cardinality(Rows(r, t)') = Cardinality(Rows(r, t)) + n /\ IsFiniteSet(Rows(r, t)')
        BY <2>1, <3>3
      <4>3. CountOf(m.counts, t) + (CountOf(p.counts, t) + n) = (CountOf(m.counts, t) + CountOf(p.counts, t)) + n
        BY <1>5, <2>3
      <4> QED
        BY <3>1, <4>1, <4>2, <4>3
    <3>4. CASE t # s
      BY <2>1, <2>2, <3>1, <3>2, <3>4
    <3> QED
      BY <3>3, <3>4
  <2>5. DOMAIN m.counts \cup DOMAIN p2.counts = SitesAsked(r)'
    BY <1>2, <1>8, <1>11, <2>1 DEF Books
  <2>6. m.errors \cup p2.errors = SitesRaised(r)'
    BY <1>2, <1>11, <2>1 DEF Books
  <2> QED
    BY <1>12, <2>4, <2>5, <2>6 DEF Books
<1>16. LET N == Len(asked[r]) IN
       /\ N \in Nat /\ DOMAIN asked[r] = 1..N /\ DOMAIN asked'[r] = 1..(N + 1)
       /\ \A i \in 1..N : asked'[r][i] = asked[r][i]
       /\ asked'[r][N + 1] = x
  BY <1>7, <1>12
<1> DEFINE N == Len(asked[r])
<1>17. \A i \in DOMAIN asked'[r] : (i \in DOMAIN asked[r] /\ asked'[r][i] = asked[r][i]) \/ (i = N + 1 /\ asked'[r][i] = x)
  BY <1>16
<1>18. SearchByOne(r)'
  BY <1>0, <1>2, <1>4, <1>10, <1>12, <1>17 DEF Run, SearchByOne, RunsTyped
<1>19. CurrentConfig(r)' /\ OneConfig(r)'
  BY <1>0, <1>2, <1>5, <1>10, <1>17 DEF Run, CurrentConfig, OneConfig, settingsVars, limit
<1>20. OneDelay(r)'
  <2> SUFFICES ASSUME NEW i \in DOMAIN asked'[r], i > 1,
                      asked'[r][i].search = asked'[r][i - 1].search
               PROVE  asked'[r][i].slept <=> config[r][DELAY] > 0
    BY <1>0 DEF OneDelay, settingsVars
  <2>1. CASE i \in 1..N
    <3>1. i - 1 \in 1..N
      BY <1>16, <2>1
    <3> QED
      BY <1>2, <1>16, <2>1, <3>1 DEF Run, OneDelay
  <2>2. CASE i = N + 1
    <3>1. N \in 1..N /\ i - 1 = N
      BY <1>16, <2>2
    <3>2. asked[r][N].search = Len(specs[r])
      BY <1>10, <1>16, <2>2, <3>1
    <3>3. ~(next[r] = 1)
      <4>1. next[r] = 1 => asked[r][N].search > Len(specs[r])
        BY <1>0, <1>2, <1>16, <3>1 DEF Run, SearchByOne
      <4> QED
        BY <1>4, <3>2, <4>1
    <3>4. Sleeps(r) <=> config[r][DELAY] > 0
      BY <3>3 DEF Sleeps, ConfigOf, RunsTyped
    <3> QED
      BY <1>10, <1>16, <2>2, <3>4
  <2> QED
    BY <1>16, <2>1, <2>2
<1>21. Run(r)'
  BY <1>14, <1>15, <1>18, <1>19, <1>20 DEF Run
<1>22. \A o \in Runs : o # r =>
         /\ stage'[o] = stage[o] /\ specs'[o] = specs[o] /\ next'[o] = next[o]
         /\ asked'[o] = asked[o] /\ part'[o] = part[o] /\ merged'[o] = merged[o]
         /\ landed'[o] = landed[o]
  BY <1>0, <1>9 DEF RunsTyped
<1> HIDE DEF IInv
<1> QED
  BY <1>0, <1>13, <1>21, <1>22, CollectingFrame

LEMMA MergedFacts ==
  ASSUME NEW m \in Results, NEW p \in Results
  PROVE  /\ Merged(m, p) \in Results
         /\ DOMAIN Merged(m, p).counts = DOMAIN m.counts \cup DOMAIN p.counts
         /\ Merged(m, p).errors = m.errors \cup p.errors
         /\ \A s \in Sites :
              /\ Merged(m, p).records[s] = m.records[s] + p.records[s]
              /\ CountOf(Merged(m, p).counts, s) = CountOf(m.counts, s) + CountOf(p.counts, s)
<1> DEFINE D == DOMAIN m.counts \cup DOMAIN p.counts
           c == [s \in D |-> CountOf(m.counts, s) + CountOf(p.counts, s)]
           e == [s \in Sites |-> m.records[s] + p.records[s]]
<1>1. /\ m.records \in [Sites -> Nat] /\ m.errors \subseteq Sites /\ DOMAIN m.counts \subseteq Sites
      /\ p.records \in [Sites -> Nat] /\ p.errors \subseteq Sites /\ DOMAIN p.counts \subseteq Sites
      /\ \A s : CountOf(m.counts, s) \in Nat /\ CountOf(p.counts, s) \in Nat
  BY ResultFacts
<1>2. Merged(m, p) = [records |-> e, counts |-> c, errors |-> m.errors \cup p.errors]
  BY DEF Merged
<1>3. c \in [D -> Nat] /\ DOMAIN c = D /\ e \in [Sites -> Nat]
  BY <1>1
<1>4. c \in Counts
  BY <1>1, <1>3 DEF Counts
<1>5. \A s : CountOf(c, s) = CountOf(m.counts, s) + CountOf(p.counts, s)
  BY <1>1 DEF CountOf
<1>6. \A s \in Sites : e[s] = m.records[s] + p.records[s]
  OBVIOUS
<1> HIDE DEF c, e
<1>7. Merged(m, p) \in Results
  BY <1>1, <1>2, <1>3, <1>4 DEF Results
<1> QED
  BY <1>2, <1>3, <1>5, <1>6, <1>7

LEMMA EndSearchStep ==
  ASSUME IInv, NEW r \in Runs, EndSearch(r)
  PROVE  IInv'
<1> USE DEF IInv
<1> DEFINE p == part[r]
           m == merged[r]
<1>0. /\ stage[r] = "collect" /\ specs[r] # <<>> /\ next[r] > Len(Head(specs[r]))
      /\ merged' = [merged EXCEPT ![r] = Merged(m, p)]
      /\ part' = [part EXCEPT ![r] = Nothing]
      /\ specs' = [specs EXCEPT ![r] = Tail(specs[r])]
      /\ next' = [next EXCEPT ![r] = 1]
      /\ UNCHANGED <<settingsVars, stage, asked, landed>>
  BY DEF EndSearch
<1>1. /\ merged'[r] = Merged(m, p) /\ part'[r] = Nothing
      /\ specs'[r] = Tail(specs[r]) /\ next'[r] = 1
  BY <1>0 DEF RunsTyped
<1>2. Run(r) /\ Progress(r) /\ Books(r) /\ SearchByOne(r)
  BY DEF Run
<1>3. m \in Results /\ p \in Results
  BY DEF RunsTyped
<1>4. /\ Tail(specs[r]) \in Seq(Seq(Sites))
      /\ Len(specs[r]) \in Nat /\ Len(Tail(specs[r])) = Len(specs[r]) - 1
  <2>1. specs[r] \in Seq(Seq(Sites))
    BY DEF RunsTyped
  <2> QED
    BY <1>0, <2>1
<1>5. RunsTyped'
  BY <1>0, <1>3, <1>4, MergedFacts, NothingFacts DEF RunsTyped, settingsVars
<1>6. Progress(r)'
  BY <1>0, <1>1, <1>2 DEF Progress, settingsVars
<1>7. SearchByOne(r)'
  <2>1. \A i \in DOMAIN asked[r] : asked[r][i].search \in Nat
    <3>1. asked[r] \in Seq(Request)
      BY DEF RunsTyped
    <3>2. \A x \in Request : x.search \in Nat
      BY DEF Request
    <3> QED
      BY <3>1, <3>2
  <2>2. \A i \in DOMAIN asked[r] : asked[r][i].search >= Len(specs[r])
    BY <1>0, <1>2 DEF SearchByOne
  <2>3. \A i \in DOMAIN asked[r] : asked[r][i].search > Len(Tail(specs[r]))
    BY <1>4, <2>1, <2>2
  <2>4. \A i \in DOMAIN asked[r] : asked[r][i].search >= Len(Tail(specs[r]))
    BY <1>4, <2>1, <2>3
  <2>5. asked'[r] = asked[r] /\ specs'[r] = Tail(specs[r])
    BY <1>0, <1>1
  <2> QED
    BY <2>3, <2>4, <2>5 DEF SearchByOne
<1>8. Books(r)'
  <2>1. SitesAsked(r)' = SitesAsked(r) /\ SitesRaised(r)' = SitesRaised(r) /\ \A s : Rows(r, s)' = Rows(r, s)
    BY <1>0 DEF SitesAsked, SitesRaised, Rows, Requests
  <2>2. /\ DOMAIN Merged(m, p).counts = DOMAIN m.counts \cup DOMAIN p.counts
        /\ Merged(m, p).errors = m.errors \cup p.errors
    BY <1>3, MergedFacts
  <2>3. DOMAIN merged'[r].counts \cup DOMAIN part'[r].counts = SitesAsked(r)'
    BY <1>1, <1>2, <2>1, <2>2, NothingFacts DEF Books
  <2>4. merged'[r].errors \cup part'[r].errors = SitesRaised(r)'
    BY <1>1, <1>2, <2>1, <2>2, NothingFacts DEF Books
  <2>5. ASSUME NEW s \in Sites
        PROVE  /\ IsFiniteSet(Rows(r, s)')
               /\ CountOf(merged'[r].counts, s) + CountOf(part'[r].counts, s) = Cardinality(Rows(r, s)')
               /\ merged'[r].records[s] = CountOf(merged'[r].counts, s)
               /\ part'[r].records[s] = CountOf(part'[r].counts, s)
    <3>1. /\ IsFiniteSet(Rows(r, s))
          /\ CountOf(m.counts, s) + CountOf(p.counts, s) = Cardinality(Rows(r, s))
          /\ m.records[s] = CountOf(m.counts, s) /\ p.records[s] = CountOf(p.counts, s)
      BY <1>2 DEF Books
    <3>2. /\ merged'[r].records[s] = m.records[s] + p.records[s]
          /\ CountOf(merged'[r].counts, s) = CountOf(m.counts, s) + CountOf(p.counts, s)
      BY <1>1, <1>3, MergedFacts
    <3>3. part'[r].records[s] = 0 /\ CountOf(part'[r].counts, s) = 0
      BY <1>1, NothingFacts
    <3>4. CountOf(m.counts, s) \in Nat /\ CountOf(p.counts, s) \in Nat
      BY <1>3, ResultFacts
    <3>5. CountOf(merged'[r].counts, s) + CountOf(part'[r].counts, s) = CountOf(m.counts, s) + CountOf(p.counts, s)
      BY <3>2, <3>3, <3>4
    <3>6. IsFiniteSet(Rows(r, s)') /\ Cardinality(Rows(r, s)') = Cardinality(Rows(r, s))
      BY <2>1, <3>1
    <3> QED
      BY <3>1, <3>2, <3>3, <3>5, <3>6
  <2> QED
    BY <2>3, <2>4, <2>5 DEF Books
<1>9. CurrentConfig(r)' /\ OneConfig(r)' /\ OneDelay(r)'
  BY <1>0, <1>2 DEF Run, CurrentConfig, OneConfig, OneDelay, settingsVars
<1>10. Run(r)'
  BY <1>6, <1>7, <1>8, <1>9 DEF Run
<1>11. \A o \in Runs : o # r =>
         /\ stage'[o] = stage[o] /\ specs'[o] = specs[o] /\ next'[o] = next[o]
         /\ asked'[o] = asked[o] /\ part'[o] = part[o] /\ merged'[o] = merged[o]
         /\ landed'[o] = landed[o]
  BY <1>0 DEF RunsTyped
<1> HIDE DEF IInv
<1> QED
  BY <1>0, <1>5, <1>10, <1>11, CollectingFrame

\* What lands is the books of all the searches: no part is under way.
LEMMA LandStep ==
  ASSUME IInv, NEW r \in Runs, Land(r)
  PROVE  IInv'
<1> USE DEF IInv, Land
<1>1. Run(r) /\ Progress(r)
  BY DEF Run
<1>2. RunsTyped'
  BY DEF RunsTyped, settingsVars
<1>3. /\ landed'[r] = merged[r] /\ merged'[r] = merged[r] /\ stage'[r] = "landed"
      /\ next[r] = 1 /\ part'[r] = Nothing
  BY <1>1 DEF RunsTyped, Progress
<1>4. Progress(r)'
  BY <1>1, <1>3 DEF Progress, settingsVars
<1>5. Books(r)'
  <2>1. SitesAsked(r)' = SitesAsked(r) /\ SitesRaised(r)' = SitesRaised(r) /\ \A s : Rows(r, s)' = Rows(r, s)
    BY DEF SitesAsked, SitesRaised, Rows, Requests
  <2> QED
    BY <1>1, <2>1 DEF Run, Books
<1>6. SearchByOne(r)' /\ CurrentConfig(r)' /\ OneConfig(r)' /\ OneDelay(r)'
  BY <1>1, <1>3 DEF Run, SearchByOne, CurrentConfig, OneConfig, OneDelay, settingsVars
<1>7. Run(r)'
  BY <1>4, <1>5, <1>6 DEF Run
<1>8. \A o \in Runs : o # r =>
         /\ stage'[o] = stage[o] /\ specs'[o] = specs[o] /\ next'[o] = next[o]
         /\ asked'[o] = asked[o] /\ part'[o] = part[o] /\ merged'[o] = merged[o]
         /\ landed'[o] = landed[o]
  BY DEF RunsTyped
<1>9. UNCHANGED settingsVars
  OBVIOUS
<1> HIDE DEF IInv, Land
<1> QED
  BY <1>2, <1>7, <1>8, <1>9, CollectingFrame

LEMMA DieStep ==
  ASSUME IInv, NEW r \in Runs, Die(r)
  PROVE  IInv'
<1> USE DEF IInv, Die
<1>1. Run(r) /\ Progress(r)
  BY DEF Run
<1>2. RunsTyped'
  BY DEF RunsTyped, settingsVars
<1>3. stage'[r] = "dead"
  BY DEF RunsTyped
<1>4. Progress(r)'
  BY <1>1, <1>3 DEF Progress, settingsVars
<1>5. Books(r)'
  <2>1. SitesAsked(r)' = SitesAsked(r) /\ SitesRaised(r)' = SitesRaised(r) /\ \A s : Rows(r, s)' = Rows(r, s)
    BY DEF SitesAsked, SitesRaised, Rows, Requests
  <2> QED
    BY <1>1, <2>1 DEF Run, Books
<1>6. SearchByOne(r)' /\ CurrentConfig(r)' /\ OneConfig(r)' /\ OneDelay(r)'
  BY <1>1, <1>3 DEF Run, SearchByOne, CurrentConfig, OneConfig, OneDelay, settingsVars
<1>7. Run(r)'
  BY <1>4, <1>5, <1>6 DEF Run
<1>8. \A o \in Runs : o # r =>
         /\ stage'[o] = stage[o] /\ specs'[o] = specs[o] /\ next'[o] = next[o]
         /\ asked'[o] = asked[o] /\ part'[o] = part[o] /\ merged'[o] = merged[o]
         /\ landed'[o] = landed[o]
  BY DEF RunsTyped
<1>9. UNCHANGED settingsVars
  OBVIOUS
<1> HIDE DEF IInv, Die
<1> QED
  BY <1>2, <1>7, <1>8, <1>9, CollectingFrame

LEMMA StutterStep == IInv /\ UNCHANGED vars => IInv'
<1> SUFFICES ASSUME IInv, UNCHANGED vars PROVE IInv'
  OBVIOUS
<1>1. UNCHANGED <<collecting, config, stored, current>> /\ UNCHANGED <<holds, at, want, saw, joined, todo>>
  BY DEF vars, settingsVars, saving
<1>2. SavesTyped' /\ SavesTrack' /\ Secured'
  BY <1>1, SavesKept DEF IInv, SavesTyped
<1> QED
  BY <1>1, <1>2, RunsUntouched DEF IInv

-------------------------------------------------------------------------------
\* Every step of a save, and what only a commit does.
LEMMA SaveStep ==
  ASSUME IInv, SettingsNext, UNCHANGED collecting
  PROVE  /\ IInv'
         /\ \A a \in Savers : at[a] = "commit" /\ at'[a] = "saved" /\ ~joined[a]
              => \A k \in Keys : Effective(k)' = want[a][k]
<1>1. PICK a \in Savers :
        RefuseForm(a) \/ (\E f \in Forms : BeginSave(a, f)) \/ ServeSave(a) \/ DropSave(a)
  BY DEF SettingsNext
<1>2. at \in [Savers -> {"idle", "read", "write", "commit", "saved", "refused", "failed"}]
  BY DEF IInv, SavesTyped
<1> DEFINE Whole == \A b \in Savers : at[b] = "commit" /\ at'[b] = "saved" /\ ~joined[b]
                      => \A k \in Keys : Effective(k)' = want[b][k]
           NoneSaved == \A b \in Savers : at'[b] = "saved" => at[b] = "saved"
<1>3. NoneSaved => Whole
  OBVIOUS
<1>4. CASE RefuseForm(a)
  <2>1. NoneSaved
    BY <1>2, <1>4 DEF RefuseForm
  <2> QED
    BY <1>3, <1>4, <2>1, RefuseFormStep
<1>5. ASSUME NEW f \in Forms, BeginSave(a, f)  PROVE IInv' /\ Whole
  <2>1. NoneSaved
    BY <1>2, <1>5 DEF BeginSave
  <2> QED
    BY <1>3, <1>5, <2>1, BeginSaveStep
<1>6. CASE ReadKey(a)
  <2>1. NoneSaved
    BY <1>2, <1>6 DEF ReadKey, Past
  <2> QED
    BY <1>3, <1>6, <2>1, ReadKeyStep
<1>7. CASE WriteKey(a)
  <2>1. NoneSaved
    BY <1>2, <1>7 DEF WriteKey, Past
  <2> QED
    BY <1>3, <1>7, <2>1, WriteKeyStep
<1>8. CASE Rollback(a)
  <2>1. NoneSaved
    BY <1>2, <1>8 DEF Rollback
  <2> QED
    BY <1>3, <1>8, <2>1, RollbackStep
<1>9. CASE CommitSave(a)
  <2>1. IInv' /\ (~joined[a] => \A k \in Keys : Effective(k)' = want[a][k])
    BY <1>9, CommitSaveStep
  <2>2. \A b \in Savers : b # a => at'[b] = at[b]
    BY <1>2, <1>9 DEF CommitSave
  <2> QED
    BY <2>1, <2>2
<1>10. Collide(a) \/ DropSave(a) => Rollback(a)
  BY DEF Collide, DropSave
<1> QED
  BY <1>1, <1>4, <1>5, <1>6, <1>7, <1>8, <1>9, <1>10 DEF ServeSave

LEMMA StepIInv == IInv /\ [Next]_vars => IInv'
<1> SUFFICES ASSUME IInv, [Next]_vars PROVE IInv'
  OBVIOUS
<1>1. CASE SettingsNext /\ UNCHANGED collecting
  BY <1>1, SaveStep
<1>2. ASSUME NEW r \in Runs, Proceed(r)  PROVE IInv'
  BY <1>2, StartStep, ResolveStep, QueryStep, EndSearchStep, LandStep DEF Proceed
<1>3. ASSUME NEW r \in Runs, Die(r)  PROVE IInv'
  BY <1>3, DieStep
<1>4. CASE UNCHANGED vars
  BY <1>4, StutterStep
<1> QED
  BY <1>1, <1>2, <1>3, <1>4 DEF Next

LEMMA SpecIInv == Spec => []IInv
BY InitIInv, StepIInv, PTL DEF Spec

-------------------------------------------------------------------------------
\* The variables keep to their types: a save that has keys left is under way, a
\* row is held by a save under way only, a run that collects knows all its keys.
THEOREM CollectTypeCorrect == Spec => []TypeOK
<1>1. IInv => TypeOK
  BY IInvIsTyped
<1> QED
  BY <1>1, SpecIInv, PTL

\* A save during which no other commits leaves every setting as its form had it,
\* though it wrote only the keys that differed from what it read, one at a time
\* (set_many).
THEOREM SavesAreWhole == Spec => SaveIsWhole
<1>1. IInv /\ [Next]_vars =>
        [\A a \in Savers : at[a] = "commit" /\ at'[a] = "saved" /\ ~joined[a]
           => \A k \in Keys : Effective(k)' = want[a][k]]_vars
  <2> SUFFICES ASSUME IInv, Next
               PROVE  \A a \in Savers : at[a] = "commit" /\ at'[a] = "saved" /\ ~joined[a]
                        => \A k \in Keys : Effective(k)' = want[a][k]
    OBVIOUS
  <2>1. CASE SettingsNext /\ UNCHANGED collecting
    BY <2>1, SaveStep
  <2>2. ASSUME NEW r \in Runs, Proceed(r) \/ Die(r)  PROVE at' = at
    BY <2>2 DEF Proceed, Die, Start, BeginResolve, Resolve, ResolveKey, Query, EndSearch, Land,
                settingsVars, saving
  <2> QED
    BY <2>1, <2>2 DEF Next
<1> QED
  BY <1>1, SpecIInv, PTL DEF Spec, SaveIsWhole

\* No run works with a value older than its beginning (FR-014, RunConfig.resolve).
THEOREM RunsUseCurrentSettings == Spec => []ConfigIsCurrent
<1>1. IInv => ConfigIsCurrent
  BY DEF IInv, Run, CurrentConfig, ConfigIsCurrent
<1> QED
  BY <1>1, SpecIInv, PTL

\* Whatever is saved while a run collects, each of its requests has the limit it
\* resolved and brought no more than that, and the requests of its searches follow
\* each other with the delay it resolved, or all without.
THEOREM RunsAreOneConfig == Spec => []OneConfigPerRun
<1>1. IInv => OneConfigPerRun
  BY DEF IInv, Run, OneConfig, OneDelay, OneConfigPerRun
<1> QED
  BY <1>1, SpecIInv, PTL

\* What a run lands accounts for each request it made, over any number of
\* searches and boards: counts, rows and errors.
THEOREM BooksBalance == Spec => []CountsAccount
<1>1. IInv => CountsAccount
  <2> SUFFICES ASSUME IInv, NEW r \in Runs, landed[r] # NoRow
               PROVE  /\ DOMAIN landed[r].counts = SitesAsked(r)
                      /\ \A s \in DOMAIN landed[r].counts :
                           /\ landed[r].counts[s] = Cardinality(Rows(r, s))
                           /\ landed[r].records[s] = landed[r].counts[s]
                      /\ landed[r].errors = SitesRaised(r)
    BY DEF CountsAccount, SitesAsked, SitesRaised, Rows, Requests
  <2>1. Books(r) /\ landed[r] = merged[r] /\ part[r] = Nothing
    BY DEF IInv, Run, Progress
  <2>2. merged[r] \in Results
    BY DEF IInv, RunsTyped
  <2>3. DOMAIN merged[r].counts = SitesAsked(r) /\ merged[r].errors = SitesRaised(r)
    BY <2>1, NothingFacts DEF Books
  <2>4. ASSUME NEW s \in DOMAIN merged[r].counts
        PROVE  merged[r].counts[s] = Cardinality(Rows(r, s)) /\ merged[r].records[s] = merged[r].counts[s]
    <3>1. s \in Sites /\ CountOf(merged[r].counts, s) = merged[r].counts[s]
      BY <2>2, ResultFacts DEF CountOf
    <3>2. CountOf(part[r].counts, s) = 0
      BY <2>1, NothingFacts
    <3>3. CountOf(merged[r].counts, s) + CountOf(part[r].counts, s) = Cardinality(Rows(r, s))
          /\ merged[r].records[s] = CountOf(merged[r].counts, s)
      BY <2>1, <3>1 DEF Books
    <3>4. CountOf(merged[r].counts, s) \in Nat
      BY <2>2, ResultFacts
    <3> QED
      BY <3>1, <3>2, <3>3, <3>4
  <2> QED
    BY <2>1, <2>3, <2>4
<1> QED
  BY <1>1, SpecIInv, PTL
===============================================================================
