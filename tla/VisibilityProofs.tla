--------------------------- MODULE VisibilityProofs ---------------------------
(***************************************************************************)
(* What Visibility.tla guarantees for any number of readers, requests and  *)
(* postings.  A page is put together from statements that each see a store *)
(* of their own; the argument is that what a read has in hand is never     *)
(* worse than what it could read now: a posting once there stays, and an   *)
(* employer unsuppressed at any of its statements is in `clean` for good.  *)
(***************************************************************************)
EXTENDS Visibility, FiniteSetTheorems, SequenceTheorems, WellFoundedInduction, TLAPS

Statements == {"count", "rows", "by_status", "total", "employers", "countries", "unknown",
               "rank", "breakdown", "tally", "overlap", "blacklist"}
Requests == [filter : Filters, page : Int, everything : BOOLEAN]

Standing == Postings \X STATUSES    \* a posting and a status of it
Activity == [employer : Employers, postings : SUBSET Postings]
Overlaps == [total : SUBSET Postings, per_site : SUBSET (Postings \X Sites),
             contested : SUBSET Postings, first_by : SUBSET (Postings \X Sites),
             ties : SUBSET Postings]
Answers == [matched : SUBSET Postings, number : Nat, rows : Seq(Postings),
            statuses : SUBSET Standing, by_status : SUBSET Standing,
            postings : SUBSET Postings, employers : SUBSET Employers,
            countries : SUBSET Countries, unknown : BOOLEAN,
            ranked : SUBSET Activity, breakdown : SUBSET Standing,
            tallied : SUBSET (Profiles \X Postings \X STATUSES), overlap : Overlaps,
            blacklist : SUBSET Activity]

\* What TypeOK says of an answer.
Real(g) ==
  /\ g.matched \cup g.postings \cup g.overlap.total \subseteq Existing
  /\ \A i \in DOMAIN g.rows : g.rows[i] \in Existing
  /\ \A x \in g.statuses \cup g.by_status \cup g.breakdown : x \in Existing \X STATUSES
  /\ \A x \in g.ranked : x.employer \in Employers /\ x.postings # {}

\* What NothingHidden says of an answer: it shows nothing of employers outside C.
Discreet(g, C) ==
  /\ \A p \in g.matched \cup g.postings : EmployerOf[p] \in C
  /\ \A i \in DOMAIN g.rows : EmployerOf[g.rows[i]] \in C
  /\ \A x \in g.by_status \cup g.breakdown : EmployerOf[x[1]] \in C
  /\ g.employers \subseteq C
  /\ \A x \in g.ranked : x.employer \in C
  /\ \A c \in g.countries : \E p \in Existing : CountryOf[p] = c /\ EmployerOf[p] \in C

ReadsTyped ==
  /\ pc \in [Readers -> Statements \cup {"idle", "done"}]
  /\ ask \in [Readers -> Requests]
  /\ session \in [Readers -> SUBSET Standing]
  /\ got \in [Readers -> Answers]
  /\ began \in [Readers -> 0..MaxWrites]
  /\ clean \in [Readers -> SUBSET Employers]
  /\ \A q \in Readers : began[q] <= writes

\* A request that has not come yet has nothing.
Fresh == \A q \in Readers : pc[q] = "idle" => got[q] = NoAnswer /\ session[q] = {}

\* The page whose rows are asked for next is one.
PageChosen == \A q \in Readers : pc[q] = "rows" => got[q].number > 0

\* Whoever is unsuppressed now, a statement sent now may show.
CleanNow == \A q \in Readers : pc[q] # "idle" => {e \in Employers : ~suppressed[e]} \subseteq clean[q]

AllDiscreet == \A q \in Readers : ~ask[q].everything => Discreet(got[q], clean[q])

\* A flag nobody has written since it was read is as it was read.
SawFlag ==
  \A a \in Admins : admin[a].at = "write" /\ ~overtaken[a] =>
    suppressed[admin[a].employer] = admin[a].saw

\* An object a session holds has the status of its row, unless the row was
\* written after the session had written it.
HeldIsCurrent ==
  \A q \in Readers : \A x \in session[q] :
    x[2] = status[x[1]] \/ changed_at[x[1]] > began[q]

IInv == /\ TypeOK
        /\ ReadsTyped
        /\ Fresh
        /\ PageChosen
        /\ CleanNow
        /\ AllDiscreet
        /\ SawFlag
        /\ HeldIsCurrent

-------------------------------------------------------------------------------
\* The parts of the invariant are what the properties say.

LEMMA DiscreetIsNothingHidden == AllDiscreet => NothingHidden
<1> SUFFICES ASSUME AllDiscreet, NEW q \in Readers, ~ask[q].everything
             PROVE  LET shown == got[q].matched \cup got[q].postings \cup {got[q].rows[i] : i \in DOMAIN got[q].rows}
                                   \cup {x[1] : x \in got[q].by_status \cup got[q].breakdown}
                    IN /\ \A p \in shown : EmployerOf[p] \in clean[q]
                       /\ got[q].employers \cup {x.employer : x \in got[q].ranked} \subseteq clean[q]
                       /\ \A c \in got[q].countries : \E p \in Existing : CountryOf[p] = c /\ EmployerOf[p] \in clean[q]
  BY DEF NothingHidden
<1>1. Discreet(got[q], clean[q])
  BY DEF AllDiscreet
<1> QED
  BY <1>1 DEF Discreet

LEMMA NoAnswerFacts ==
  /\ NoAnswer \in Answers
  /\ Real(NoAnswer)
  /\ \A C : Discreet(NoAnswer, C)
<1>1. NoAnswer \in Answers
  BY EmptySeq DEF NoAnswer, NoOverlap, Answers, Overlaps
<1>2. DOMAIN NoAnswer.rows = {}
  BY DEF NoAnswer
<1> QED
  BY <1>1, <1>2 DEF NoAnswer, NoOverlap, Real, Discreet

LEMMA RequestFacts ==
  /\ NoRequest \in Requests
  /\ \A all \in BOOLEAN : [NoRequest EXCEPT !.everything = all] \in Requests
  /\ \A x \in Asked : Page(x) \in Requests
<1>1. AnyFilter \in Filters
  BY DEF AnyFilter, Filters
<1>2. NoRequest \in Requests
  BY <1>1 DEF NoRequest, Requests
<1> QED
  BY <1>2, AskedAssumption DEF Requests, Page

LEMMA InitIInv == Init => IInv
<1> SUFFICES ASSUME Init PROVE IInv
  OBVIOUS
<1> USE VisibilityAssumption DEF Init
<1>1. status \in [Postings -> STATUSES \cup {NoStatus}]
  OBVIOUS
<1>2. TypeOK
  BY <1>1, NoAnswerFacts DEF TypeOK, Real, FlagRequest
<1>3. ReadsTyped
  BY NoAnswerFacts, RequestFacts DEF ReadsTyped
<1>4. Fresh /\ PageChosen /\ CleanNow /\ SawFlag /\ HeldIsCurrent
  BY DEF Fresh, PageChosen, CleanNow, SawFlag, HeldIsCurrent
<1>5. AllDiscreet
  BY NoAnswerFacts DEF AllDiscreet
<1> QED
  BY <1>1, <1>2, <1>3, <1>4, <1>5 DEF IInv

-------------------------------------------------------------------------------
\* Steps of the writers.

\* What is shown stays a posting, and stays shown of somebody it may be shown of.
LEMMA AnswersStand ==
  ASSUME Existing \subseteq Existing', NEW g \in Answers
  PROVE  /\ Real(g) => Real(g)'
         /\ \A C, D : C \subseteq D /\ Discreet(g, C) => Discreet(g, D)'
<1>1. Real(g) => Real(g)'
  BY DEF Real
<1>2. ASSUME NEW C, NEW D, C \subseteq D, Discreet(g, C)  PROVE Discreet(g, D)'
  BY <1>2 DEF Discreet
<1> QED
  BY <1>1, <1>2

LEMMA CommitFacts ==
  ASSUME IInv, Committed,
         admin' \in [Admins -> FlagRequest],
         \A a \in Admins : admin'[a] = admin[a] \/ admin'[a].at = "done"
  PROVE  /\ writes' \in 0..MaxWrites /\ writes' = writes + 1
         /\ overtaken' \in [Admins -> BOOLEAN]
         /\ SawFlag'
<1> USE VisibilityAssumption DEF IInv, TypeOK, Committed
<1>1. writes' \in 0..MaxWrites /\ writes' = writes + 1
  OBVIOUS
<1>2. overtaken' \in [Admins -> BOOLEAN]
  OBVIOUS
<1>3. ASSUME NEW a \in Admins, admin'[a].at = "write", ~overtaken'[a]
      PROVE  suppressed'[admin'[a].employer] = admin'[a].saw
  BY <1>3 DEF SawFlag
<1>4. SawFlag'
  BY <1>3 DEF SawFlag
<1> QED
  BY <1>1, <1>2, <1>4

LEMMA WriterStep ==
  ASSUME IInv, CommittedElsewhere,
         suppressed' \in [Employers -> BOOLEAN],
         status' \in [Postings -> STATUSES \cup {NoStatus}],
         changed_at' \in [Postings -> 0..MaxWrites],
         admin' \in [Admins -> FlagRequest],
         \A a \in Admins : admin'[a] = admin[a] \/ admin'[a].at = "done",
         Existing \subseteq Existing',
         HeldIsCurrent'
  PROVE  IInv'
<1> USE VisibilityAssumption DEF IInv, CommittedElsewhere
<1>1. writes' \in 0..MaxWrites /\ writes' = writes + 1 /\ overtaken' \in [Admins -> BOOLEAN] /\ SawFlag'
  BY CommitFacts
<1>2. \A q \in Readers : got[q] \in Answers /\ Real(got[q])
  BY DEF TypeOK, ReadsTyped, Real
<1>3. \A q \in Readers : clean[q] \subseteq clean'[q]
  BY DEF ReadsTyped
<1>4. TypeOK'
  <2>1. \A q \in Readers : Real(got[q])'
    BY <1>2, AnswersStand
  <2>2. \A q \in Readers : \A x \in session[q] : x \in Existing' \X STATUSES
    BY DEF TypeOK
  <2> QED
    BY <1>1, <2>1, <2>2 DEF TypeOK, Real
<1>5. ReadsTyped'
  BY <1>1 DEF ReadsTyped, TypeOK
<1>6. Fresh' /\ PageChosen'
  BY DEF Fresh, PageChosen
<1>7. CleanNow'
  BY DEF CleanNow, ReadsTyped
<1>8. AllDiscreet'
  <2> SUFFICES ASSUME NEW q \in Readers, ~ask[q].everything  PROVE Discreet(got[q], clean[q])'
    BY DEF AllDiscreet
  <2>1. Discreet(got[q], clean[q])
    BY DEF AllDiscreet
  <2> QED
    BY <2>1, <1>2, <1>3, AnswersStand DEF Discreet
<1> QED
  BY <1>1, <1>4, <1>5, <1>6, <1>7, <1>8

LEMMA CollectStep ==
  ASSUME IInv, NEW p \in Postings, Collect(p)
  PROVE  IInv'
<1> USE VisibilityAssumption DEF IInv, Collect
<1>1. status' \in [Postings -> STATUSES \cup {NoStatus}] /\ Existing \subseteq Existing'
  BY DEF TypeOK, Existing
<1>2. HeldIsCurrent'
  <2> SUFFICES ASSUME NEW q \in Readers, NEW x \in session[q]
               PROVE  x[2] = status'[x[1]] \/ changed_at[x[1]] > began[q]
    BY DEF HeldIsCurrent, CommittedElsewhere
  <2>1. x \in Existing \X STATUSES
    BY DEF TypeOK
  <2>2. status'[x[1]] = status[x[1]]
    BY <2>1 DEF TypeOK, Existing
  <2> QED
    BY <2>2 DEF HeldIsCurrent
<1> QED
  BY <1>1, <1>2, WriterStep DEF TypeOK

LEMMA SetStatusFacts ==
  ASSUME IInv, NEW S, NEW s \in STATUSES, SetStatus(S, s), Committed
  PROVE  /\ status' \in [Postings -> STATUSES \cup {NoStatus}]
         /\ changed_at' \in [Postings -> 0..MaxWrites]
         /\ Existing \subseteq Existing'
         /\ HeldIsCurrent => \A q \in Readers : \A x \in session[q] :
              x[2] = status'[x[1]] \/ changed_at'[x[1]] > began[q]
<1> USE VisibilityAssumption DEF IInv, SetStatus
<1>1. writes + 1 \in 0..MaxWrites /\ S \subseteq Postings
  BY DEF TypeOK, Committed, Existing
<1>2. status' \in [Postings -> STATUSES \cup {NoStatus}]
  BY DEF TypeOK
<1>3. changed_at' \in [Postings -> 0..MaxWrites]
  BY <1>1 DEF TypeOK
<1>4. Existing \subseteq Existing'
  BY DEF TypeOK, Existing
<1>5. ASSUME NEW q \in Readers, NEW x \in session[q]
      PROVE  x[2] = status'[x[1]] \/ changed_at'[x[1]] > began[q]
  <2>1. x[1] \in Postings /\ began[q] <= writes /\ began[q] \in Nat /\ writes \in Nat
    BY DEF TypeOK, Existing, ReadsTyped
  <2>2. CASE x[1] \in S
    BY <2>1, <2>2
  <2>3. CASE x[1] \notin S
    BY <2>1, <2>3 DEF HeldIsCurrent
  <2> QED
    BY <2>2, <2>3
<1> QED
  BY <1>2, <1>3, <1>4, <1>5

LEMMA TriagedStep ==
  ASSUME IInv, NEW S, NEW s \in STATUSES, Triaged(S, s)
  PROVE  IInv'
<1>1. SetStatus(S, s) /\ Committed /\ CommittedElsewhere
  BY DEF Triaged, CommittedElsewhere
<1>2. HeldIsCurrent'
  BY <1>1, SetStatusFacts DEF IInv, HeldIsCurrent, CommittedElsewhere
<1>3. UNCHANGED <<suppressed, admin>>
  BY <1>1 DEF SetStatus
<1> QED
  BY <1>1, <1>2, <1>3, SetStatusFacts, WriterStep DEF IInv, TypeOK

LEMMA FlagRequestFacts ==
  ASSUME NEW r \in FlagRequest, r.at = "write"
  PROVE  r.employer \in Employers /\ r.want \in BOOLEAN /\ r.saw \in BOOLEAN
<1>1. r \in [at : {"write"}, employer : Employers, want : BOOLEAN, saw : BOOLEAN]
  BY DEF FlagRequest
<1> QED
  BY <1>1

LEMMA FlagReadStep ==
  ASSUME IInv, NEW a \in Admins, NEW e \in Employers, NEW want \in BOOLEAN, FlagRead(a, e, want)
  PROVE  IInv'
<1> USE DEF IInv, FlagRead, store, read
<1>1. admin' \in [Admins -> FlagRequest] /\ Existing' = Existing
  BY DEF TypeOK, FlagRequest, Existing
<1>2. TypeOK'
  BY <1>1 DEF TypeOK
<1>3. ReadsTyped' /\ Fresh' /\ PageChosen' /\ CleanNow' /\ HeldIsCurrent'
  BY DEF ReadsTyped, Fresh, PageChosen, CleanNow, HeldIsCurrent
<1>4. SawFlag'
  BY DEF SawFlag, TypeOK
<1>5. AllDiscreet'
  BY <1>1 DEF AllDiscreet, Discreet
<1> QED
  BY <1>2, <1>3, <1>4, <1>5

\* A flag request ends: the flag is as it asked if nobody has written it since it
\* looked, and the postings are as they were.
LEMMA FlagWriteStep ==
  ASSUME IInv, NEW a \in Admins, FlagWrite(a)
  PROVE  /\ IInv'
         /\ ~overtaken[a] => suppressed'[admin[a].employer] = admin[a].want
         /\ UNCHANGED <<status, changed_at>>
         /\ \A b \in Admins : b # a => admin'[b] = admin[b]
<1> USE DEF IInv, FlagWrite
<1>1. admin[a].employer \in Employers /\ admin[a].want \in BOOLEAN /\ admin[a].saw \in BOOLEAN
  BY FlagRequestFacts DEF TypeOK
<1>2. /\ admin' \in [Admins -> FlagRequest]
      /\ \A b \in Admins : b # a => admin'[b] = admin[b]
      /\ admin'[a].at = "done"
  BY DEF TypeOK, FlagRequest
<1>3. CASE FlagAssigned(a) # admin[a].saw
  <2>1. /\ suppressed' = [suppressed EXCEPT ![admin[a].employer] = admin[a].want]
        /\ status' = status /\ changed_at' = changed_at /\ CommittedElsewhere
    BY <1>3 DEF FlagAssigned, StatusAfterFlag
  <2>2. suppressed' \in [Employers -> BOOLEAN] /\ suppressed'[admin[a].employer] = admin[a].want
    BY <1>1, <2>1 DEF TypeOK
  <2>3. Existing' = Existing
    BY <2>1 DEF Existing
  <2>4. HeldIsCurrent'
    BY <2>1 DEF HeldIsCurrent, CommittedElsewhere
  <2>5. IInv'
    BY <1>2, <2>1, <2>2, <2>3, <2>4, WriterStep DEF TypeOK
  <2> QED
    BY <1>2, <2>1, <2>2, <2>5
<1>4. CASE FlagAssigned(a) = admin[a].saw
  <2>1. UNCHANGED <<suppressed, status, changed_at, writes, pc, ask, session, got, began, clean>>
        /\ overtaken' = [overtaken EXCEPT ![a] = FALSE]
    BY <1>4 DEF store, read
  <2>2. Existing' = Existing
    BY <2>1 DEF Existing
  <2>3. TypeOK'
    BY <1>2, <2>1, <2>2 DEF TypeOK
  <2>4. ReadsTyped' /\ Fresh' /\ PageChosen' /\ CleanNow' /\ HeldIsCurrent'
    BY <2>1 DEF ReadsTyped, Fresh, PageChosen, CleanNow, HeldIsCurrent
  <2>5. SawFlag'
    BY <1>2, <2>1 DEF SawFlag, TypeOK
  <2>6. AllDiscreet'
    BY <2>1, <2>2 DEF AllDiscreet, Discreet
  <2>7. ~overtaken[a] => suppressed'[admin[a].employer] = admin[a].want
    BY <1>4, <2>1 DEF SawFlag, FlagAssigned
  <2> QED
    BY <1>2, <2>1, <2>3, <2>4, <2>5, <2>6, <2>7
<1> QED
  BY <1>3, <1>4

-------------------------------------------------------------------------------
\* Steps of the readers.

LEMMA ArriveStep ==
  ASSUME IInv, NEW q \in Readers, NEW at \in Statements \ {"rows"}, NEW request \in Requests,
         Arrive(q, at, request)
  PROVE  IInv'
<1> USE VisibilityAssumption DEF IInv, Arrive, store
<1>1. Existing' = Existing
  BY DEF Existing
<1>2. TypeOK'
  BY <1>1 DEF TypeOK
<1>3. ReadsTyped'
  BY DEF ReadsTyped, TypeOK
<1>4. Fresh' /\ PageChosen' /\ SawFlag'
  BY DEF Fresh, PageChosen, SawFlag, ReadsTyped, Statements
<1>5. CleanNow'
  BY DEF CleanNow, ReadsTyped
<1>6. AllDiscreet'
  <2> SUFFICES ASSUME NEW r \in Readers, ~ask'[r].everything  PROVE Discreet(got[r], clean[r])'
    BY DEF AllDiscreet
  <2>1. CASE r = q
    <3>1. got'[r] = NoAnswer
      BY <2>1 DEF Fresh
    <3> QED
      BY <3>1, <1>1, NoAnswerFacts DEF Discreet
  <2>2. CASE r # q
    <3>1. Discreet(got[r], clean[r])
      BY <2>2 DEF AllDiscreet, ReadsTyped
    <3> QED
      BY <3>1, <2>2, <1>1 DEF Discreet, ReadsTyped
  <2> QED
    BY <2>1, <2>2
<1>7. HeldIsCurrent'
  BY DEF HeldIsCurrent, Fresh, ReadsTyped
<1> QED
  BY <1>2, <1>3, <1>4, <1>5, <1>6, <1>7

LEMMA BulkThenListStep ==
  ASSUME IInv, NEW q \in Readers, BulkThenList(q)
  PROVE  IInv'
<1> USE VisibilityAssumption DEF IInv
<1>1. PICK S \in Ticked, s \in STATUSES, x \in Asked :
        /\ SetStatus(S, s)
        /\ session' = [session EXCEPT ![q] = {<<p, s>> : p \in S}]
        /\ ask' = [ask EXCEPT ![q] = Page(x)]
  BY DEF BulkThenList, HeldStatus
<1>2. /\ pc[q] = "idle" /\ pc' = [pc EXCEPT ![q] = "count"]
      /\ began' = [began EXCEPT ![q] = writes']
      /\ clean' = [clean EXCEPT ![q] = {e \in Employers : ~suppressed[e]}]
      /\ got' = got /\ Committed
  BY DEF BulkThenList
<1>3. UNCHANGED <<suppressed, admin>> /\ S \subseteq Existing
  BY <1>1 DEF SetStatus
<1>4. writes' \in 0..MaxWrites /\ writes' = writes + 1 /\ overtaken' \in [Admins -> BOOLEAN] /\ SawFlag'
  BY <1>2, <1>3, CommitFacts DEF TypeOK
<1>5. /\ status' \in [Postings -> STATUSES \cup {NoStatus}]
      /\ changed_at' \in [Postings -> 0..MaxWrites]
      /\ Existing \subseteq Existing'
      /\ \A r \in Readers : \A y \in session[r] :
           y[2] = status'[y[1]] \/ changed_at'[y[1]] > began[r]
  BY <1>1, <1>2, SetStatusFacts
<1>6. \A r \in Readers : got[r] \in Answers /\ Real(got[r])
  BY DEF TypeOK, ReadsTyped, Real
<1>7. S \subseteq Existing' /\ S \subseteq Postings
  BY <1>3, <1>5 DEF Existing
<1>8. TypeOK'
  <2>1. \A r \in Readers : Real(got[r])'
    BY <1>2, <1>5, <1>6, AnswersStand DEF Real
  <2>2. ASSUME NEW r \in Readers, NEW y \in session'[r]  PROVE y \in Existing' \X STATUSES
    <3>1. CASE r = q
      BY <1>1, <1>7, <3>1 DEF ReadsTyped
    <3>2. CASE r # q
      <4>1. y \in session[r]
        BY <1>1, <3>2 DEF ReadsTyped
      <4> QED
        BY <4>1, <1>5 DEF TypeOK
    <3> QED
      BY <3>1, <3>2
  <2> QED
    BY <1>3, <1>4, <1>5, <2>1, <2>2 DEF TypeOK, Real
<1>9. ReadsTyped'
  <2>1. session' \in [Readers -> SUBSET Standing]
    BY <1>1, <1>7 DEF ReadsTyped, Standing
  <2> QED
    BY <1>1, <1>2, <1>4, <2>1, RequestFacts DEF ReadsTyped, Statements, TypeOK
<1>10. Fresh' /\ PageChosen'
  BY <1>1, <1>2 DEF Fresh, PageChosen, ReadsTyped
<1>11. CleanNow'
  BY <1>2, <1>3 DEF CleanNow, ReadsTyped
<1>12. AllDiscreet'
  <2> SUFFICES ASSUME NEW r \in Readers, ~ask'[r].everything  PROVE Discreet(got[r], clean[r])'
    BY DEF AllDiscreet
  <2>1. CASE r = q
    <3>1. got'[r] = NoAnswer
      BY <1>2, <2>1 DEF Fresh
    <3> QED
      BY <3>1, NoAnswerFacts, AnswersStand, <1>5 DEF Discreet
  <2>2. CASE r # q
    <3>1. Discreet(got[r], clean[r]) /\ got'[r] = got[r] /\ clean'[r] = clean[r]
      BY <1>1, <1>2, <2>2 DEF AllDiscreet, ReadsTyped
    <3> QED
      BY <3>1, <1>5 DEF Discreet
  <2> QED
    BY <2>1, <2>2
<1>13. HeldIsCurrent'
  <2> SUFFICES ASSUME NEW r \in Readers, NEW y \in session'[r]
               PROVE  y[2] = status'[y[1]] \/ changed_at'[y[1]] > began'[r]
    BY DEF HeldIsCurrent
  <2>1. CASE r = q
    BY <1>1, <1>7, <2>1 DEF SetStatus, ReadsTyped
  <2>2. CASE r # q
    BY <1>1, <1>2, <1>5, <2>2 DEF ReadsTyped
  <2> QED
    BY <2>1, <2>2
<1> QED
  BY <1>4, <1>8, <1>9, <1>10, <1>11, <1>12, <1>13

\* A statement keeps the invariant if the answer it leaves is typed, real and discreet.
LEMMA AnswerStep ==
  ASSUME IInv, NEW q \in Readers, NEW at \in Statements, NEW g \in Answers,
         NEW next \in Statements \cup {"done"},
         Answer(q, at, g, next),
         Real(g), ~ask[q].everything => Discreet(g, clean[q]), next = "rows" => g.number > 0
  PROVE  IInv'
<1> USE VisibilityAssumption DEF IInv, Answer, store
<1>1. Existing' = Existing
  BY DEF Existing
<1>2. \A r \in Readers : got'[r] = IF r = q THEN g ELSE got[r]
  BY DEF ReadsTyped
<1>3. TypeOK'
  BY <1>1, <1>2 DEF TypeOK, Real
<1>4. ReadsTyped'
  BY DEF ReadsTyped
<1>5. Fresh' /\ PageChosen'
  BY <1>2 DEF Fresh, PageChosen, ReadsTyped, Statements
<1>6. CleanNow' /\ SawFlag' /\ HeldIsCurrent'
  BY DEF CleanNow, SawFlag, HeldIsCurrent, ReadsTyped, Statements
<1>7. AllDiscreet'
  <2> SUFFICES ASSUME NEW r \in Readers, ~ask[r].everything  PROVE Discreet(got[r], clean[r])'
    BY DEF AllDiscreet
  <2>1. Discreet(got'[r], clean[r])
    BY <1>2 DEF AllDiscreet
  <2> QED
    BY <2>1, <1>1 DEF Discreet
<1> QED
  BY <1>3, <1>4, <1>5, <1>6, <1>7

\* What a statement under way selects may be shown.
LEMMA VisibleFacts ==
  ASSUME IInv, NEW q \in Readers, pc[q] # "idle"
  PROVE  /\ Visible \subseteq Existing /\ Existing \subseteq Postings
         /\ \A p \in Existing : status[p] \in STATUSES /\ EmployerOf[p] \in Employers
         /\ \A p \in Visible : EmployerOf[p] \in clean[q]
         /\ \A f : Where(f) \subseteq Visible
<1> USE VisibilityAssumption DEF IInv
<1>1. Visible \subseteq Existing /\ Existing \subseteq Postings
  BY DEF Visible, Existing
<1>2. \A p \in Existing : status[p] \in STATUSES /\ EmployerOf[p] \in Employers
  BY DEF TypeOK, Existing
<1>3. \A p \in Visible : EmployerOf[p] \in clean[q]
  BY <1>1, <1>2 DEF Visible, not_suppressed, CleanNow
<1>4. \A f : Where(f) \subseteq Visible
  BY DEF Where
<1> QED
  BY <1>1, <1>2, <1>3, <1>4

LEMMA PagesArePositive ==
  ASSUME NEW total \in Nat, NEW page \in Int
  PROVE  PagesOf(total) \in Nat \ {0} /\ Clamped(page, total) \in 1..PagesOf(total)
<1>1. (total + PAGE_SIZE - 1) \div PAGE_SIZE \in Int
  BY VisibilityAssumption
<1> HIDE VisibilityAssumption
<1> DEFINE ceiling == (total + PAGE_SIZE - 1) \div PAGE_SIZE
<1>2. ceiling \in Int
  BY <1>1
<1> HIDE DEF ceiling
<1>3. PagesOf(total) = AtLeast(1, ceiling)
  BY DEF PagesOf, ceiling
<1>4. PagesOf(total) \in Nat \ {0}
  BY <1>2, <1>3 DEF AtLeast
<1> QED
  BY <1>4 DEF Clamped, AtMost, AtLeast

LEMMA WhereIsFinite == \A f : IsFiniteSet(Where(f)) /\ Cardinality(Where(f)) \in Nat
<1> SUFFICES ASSUME NEW f  PROVE IsFiniteSet(Where(f)) /\ Cardinality(Where(f)) \in Nat
  OBVIOUS
<1>1. Where(f) \subseteq Postings
  BY DEF Where, Visible, Existing
<1>2. IsFiniteSet(Where(f))
  BY <1>1, FS_Subset, VisibilityAssumption
<1> QED
  BY <1>2, FS_CardinalityType

\* The rows of a page are rows the list selects.
LEMMA RowsSelected ==
  ASSUME NEW f, NEW n \in Nat \ {0}, NEW s \in PageRows(f, n)
  PROVE  s \in Seq(Postings) /\ \A i \in DOMAIN s : s[i] \in Where(f)
<1> DEFINE N == Cardinality(Where(f))
<1>1. N \in Nat
  BY WhereIsFinite
<1>2. PICK t \in Ordered(f) : s = SubSeq(t, (n - 1) * PAGE_SIZE + 1, AtMost(n * PAGE_SIZE, Len(t)))
  BY DEF PageRows
<1>3. t \in [1..N -> Where(f)]
  BY DEF Ordered, SetToSeqs
<1>4. t \in Seq(Where(f)) /\ Len(t) = N
  BY <1>1, <1>3
<1> DEFINE a == (n - 1) * PAGE_SIZE + 1
           b == AtMost(n * PAGE_SIZE, Len(t))
<1>5. a \in Nat /\ a >= 1
  BY VisibilityAssumption
<1>6. b \in Nat /\ b <= Len(t)
  <2>1. n * PAGE_SIZE \in Nat
    BY VisibilityAssumption
  <2> QED
    BY <2>1, <1>1, <1>4 DEF AtMost
<1> HIDE DEF a, b, N
<1>7. s = SubSeq(t, a, b)
  BY <1>2 DEF a, b
<1>8. s \in Seq(Where(f))
  BY <1>4, <1>5, <1>6, <1>7
<1>9. Where(f) \subseteq Postings
  BY DEF Where, Visible, Existing
<1> QED
  BY <1>8, <1>9

\* The answer a statement extends is itself typed, real and discreet.
LEMMA AnswerSoFar ==
  ASSUME IInv, NEW q \in Readers
  PROVE  got[q] \in Answers /\ Real(got[q]) /\ (~ask[q].everything => Discreet(got[q], clean[q]))
BY DEF IInv, TypeOK, ReadsTyped, Real, AllDiscreet

LEMMA CountStep ==
  ASSUME IInv, NEW q \in Readers, Count(q)
  PROVE  IInv'
<1> DEFINE W == Where(ask[q].filter)
           n == Clamped(ask[q].page, Cardinality(W))
           g == [got[q] EXCEPT !.matched = W, !.number = n]
<1>1. Answer(q, "count", g, "rows") /\ pc[q] = "count"
  BY DEF Count, Answer
<1>2. W \subseteq Visible /\ Visible \subseteq Existing /\ Existing \subseteq Postings
      /\ \A p \in Visible : EmployerOf[p] \in clean[q]
  BY <1>1, VisibleFacts
<1>3. n \in Nat /\ n > 0
  <2>1. Cardinality(W) \in Nat /\ ask[q].page \in Int
    BY WhereIsFinite DEF IInv, ReadsTyped, Requests
  <2>2. n \in 1..PagesOf(Cardinality(W)) /\ PagesOf(Cardinality(W)) \in Nat
    BY <2>1, PagesArePositive
  <2> QED
    BY <2>2
<1> HIDE DEF W, n
<1>4. g \in Answers
  BY <1>2, <1>3, AnswerSoFar DEF Answers
<1>5. Real(g) /\ (~ask[q].everything => Discreet(g, clean[q])) /\ g.number > 0
  BY <1>2, <1>3, AnswerSoFar DEF Answers, Real, Discreet
<1> QED
  BY <1>1, <1>4, <1>5, AnswerStep DEF Statements

\* The rows shown, and what they are shown with.
LEMMA RowsFacts ==
  ASSUME IInv, NEW q \in Readers, Rows(q)
  PROVE  \E s \in Seq(Postings), shown \in SUBSET (Existing \X STATUSES) :
           /\ Answer(q, "rows", [got[q] EXCEPT !.rows = s, !.statuses = shown], "by_status")
           /\ s \in PageRows(ask[q].filter, got[q].number)
           /\ \A i \in DOMAIN s : s[i] \in Where(ask[q].filter)
           /\ {x[1] : x \in shown} = {s[i] : i \in DOMAIN s}
           /\ \A x \in shown : x \in session[q] \/ x[2] = status[x[1]]
<1>1. PICK s \in PageRows(ask[q].filter, got[q].number), alive \in SUBSET session[q] :
        Answer(q, "rows",
               [got[q] EXCEPT !.rows = s,
                              !.statuses = {x \in alive : x[1] \in {s[i] : i \in DOMAIN s}}
                                 \cup {<<p, status[p]>> : p \in {s[i] : i \in DOMAIN s} \ {x[1] : x \in alive}}],
               "by_status")
  BY DEF Rows
<1> DEFINE page == {s[i] : i \in DOMAIN s}
           held == {x[1] : x \in alive}
           shown == {x \in alive : x[1] \in page} \cup {<<p, status[p]>> : p \in page \ held}
<1>2. got[q].number \in Nat \ {0} /\ pc[q] = "rows"
  BY DEF IInv, PageChosen, ReadsTyped, Answers, Rows
<1>3. s \in Seq(Postings) /\ \A i \in DOMAIN s : s[i] \in Where(ask[q].filter)
  BY <1>1, <1>2, RowsSelected
<1>4. page \subseteq Existing /\ \A p \in page : status[p] \in STATUSES
  <2>1. page \subseteq Where(ask[q].filter)
    BY <1>3
  <2> QED
    BY <2>1, <1>2, VisibleFacts
<1>5. \A x \in alive : x \in Existing \X STATUSES
  BY DEF IInv, TypeOK
<1> HIDE DEF page
<1>6. shown \in SUBSET (Existing \X STATUSES)
  BY <1>4, <1>5
<1>7. {x[1] : x \in shown} = page
  <2>1. ASSUME NEW p \in page  PROVE \E x \in shown : x[1] = p
    <3>1. CASE p \in held
      BY <3>1
    <3>2. CASE p \notin held
      <4>1. <<p, status[p]>> \in shown
        BY <3>2
      <4> QED
        BY <4>1
    <3> QED
      BY <3>1, <3>2
  <2>2. ASSUME NEW x \in shown  PROVE x[1] \in page
    OBVIOUS
  <2> QED
    BY <2>1, <2>2
<1>8. \A x \in shown : x \in session[q] \/ x[2] = status[x[1]]
  OBVIOUS
<1> HIDE DEF shown, held
<1>9. Answer(q, "rows", [got[q] EXCEPT !.rows = s, !.statuses = shown], "by_status")
  BY <1>1 DEF shown, held, page
<1> QED
  BY <1>1, <1>3, <1>6, <1>7, <1>8, <1>9 DEF page

LEMMA RowsStep ==
  ASSUME IInv, NEW q \in Readers, Rows(q)
  PROVE  IInv'
<1>1. PICK s \in Seq(Postings), shown \in SUBSET (Existing \X STATUSES) :
        /\ Answer(q, "rows", [got[q] EXCEPT !.rows = s, !.statuses = shown], "by_status")
        /\ \A i \in DOMAIN s : s[i] \in Where(ask[q].filter)
  BY RowsFacts
<1>2. pc[q] = "rows"
  BY DEF Rows
<1>3. Existing \subseteq Postings /\ \A i \in DOMAIN s : s[i] \in Existing /\ EmployerOf[s[i]] \in clean[q]
  BY <1>1, <1>2, VisibleFacts
<1> DEFINE g == [got[q] EXCEPT !.rows = s, !.statuses = shown]
<1>4. g \in Answers
  BY <1>3, AnswerSoFar DEF Answers, Standing
<1>5. Real(g)
  BY <1>3, AnswerSoFar DEF Answers, Real
<1>6. ~ask[q].everything => Discreet(g, clean[q])
  BY <1>3, AnswerSoFar DEF Answers, Discreet
<1> QED
  BY <1>1, <1>4, <1>5, <1>6, AnswerStep DEF Statements

LEMMA ByStatusStep ==
  ASSUME IInv, NEW q \in Readers, ByStatus(q)
  PROVE  IInv'
<1> DEFINE g == [got[q] EXCEPT !.by_status = {<<p, status[p]>> : p \in Visible}]
<1>1. Answer(q, "by_status", g, "total") /\ pc[q] = "by_status"
  BY DEF ByStatus, Answer
<1>2. /\ {<<p, status[p]>> : p \in Visible} \subseteq Existing \X STATUSES /\ Existing \subseteq Postings
      /\ \A x \in {<<p, status[p]>> : p \in Visible} : EmployerOf[x[1]] \in clean[q]
  BY <1>1, VisibleFacts
<1>3. g \in Answers
  BY <1>2, AnswerSoFar DEF Answers, Standing
<1>4. Real(g) /\ (~ask[q].everything => Discreet(g, clean[q]))
  BY <1>2, AnswerSoFar DEF Answers, Real, Discreet
<1> QED
  BY <1>1, <1>3, <1>4, AnswerStep DEF Statements

LEMMA TotalStep ==
  ASSUME IInv, NEW q \in Readers, Total(q)
  PROVE  IInv'
<1> DEFINE g == [got[q] EXCEPT !.postings = Visible]
<1>1. Answer(q, "total", g, "employers") /\ pc[q] = "total"
  BY DEF Total, Answer
<1>2. Visible \subseteq Existing /\ Existing \subseteq Postings
      /\ \A p \in Visible : EmployerOf[p] \in clean[q]
  BY <1>1, VisibleFacts
<1>3. g \in Answers
  BY <1>2, AnswerSoFar DEF Answers
<1>4. Real(g) /\ (~ask[q].everything => Discreet(g, clean[q]))
  BY <1>2, AnswerSoFar DEF Answers, Real, Discreet
<1> QED
  BY <1>1, <1>3, <1>4, AnswerStep DEF Statements

LEMMA CountEmployersStep ==
  ASSUME IInv, NEW q \in Readers, CountEmployers(q)
  PROVE  IInv'
<1> DEFINE g == [got[q] EXCEPT !.employers = {e \in Employers : ~suppressed[e]}]
<1>1. Answer(q, "employers", g, "countries") /\ pc[q] = "employers"
  BY DEF CountEmployers, Answer
<1>2. {e \in Employers : ~suppressed[e]} \subseteq clean[q]
  BY <1>1 DEF IInv, CleanNow
<1>3. g \in Answers
  BY AnswerSoFar DEF Answers
<1>4. Real(g) /\ (~ask[q].everything => Discreet(g, clean[q]))
  BY <1>2, AnswerSoFar DEF Answers, Real, Discreet
<1> QED
  BY <1>1, <1>3, <1>4, AnswerStep DEF Statements

LEMMA CountriesOfferedStep ==
  ASSUME IInv, NEW q \in Readers, CountriesOffered(q)
  PROVE  IInv'
<1> DEFINE cs == {CountryOf[p] : p \in Visible} \ {COUNTRY_UNKNOWN}
           g == [got[q] EXCEPT !.countries = cs]
<1>1. Answer(q, "countries", g, "unknown") /\ pc[q] = "countries"
  BY DEF CountriesOffered, Answer
<1>2. cs \subseteq Countries /\ \A c \in cs : \E p \in Existing : CountryOf[p] = c /\ EmployerOf[p] \in clean[q]
  BY <1>1, VisibleFacts DEF Countries
<1> HIDE DEF cs
<1>3. g \in Answers
  BY <1>2, AnswerSoFar DEF Answers
<1>4. Real(g) /\ (~ask[q].everything => Discreet(g, clean[q]))
  BY <1>2, AnswerSoFar DEF Answers, Real, Discreet
<1> QED
  BY <1>1, <1>3, <1>4, AnswerStep DEF Statements

LEMMA UnknownOfferedStep ==
  ASSUME IInv, NEW q \in Readers, UnknownOffered(q)
  PROVE  IInv'
<1> DEFINE u == \E p \in Visible : CountryOf[p] = COUNTRY_UNKNOWN
           g == [got[q] EXCEPT !.unknown = u]
<1>1. Answer(q, "unknown", g, "done")
  BY DEF UnknownOffered
<1>2. u \in BOOLEAN
  OBVIOUS
<1> HIDE DEF u
<1>3. g \in Answers
  BY <1>2, AnswerSoFar DEF Answers
<1>4. Real(g) /\ (~ask[q].everything => Discreet(g, clean[q]))
  BY AnswerSoFar DEF Answers, Real, Discreet
<1> QED
  BY <1>1, <1>3, <1>4, AnswerStep DEF Statements

LEMMA RankStep ==
  ASSUME IInv, NEW q \in Readers, Rank(q)
  PROVE  IInv'
<1>1. PICK S \in SUBSET Hiring(q) :
        Answer(q, "rank",
               [got[q] EXCEPT !.ranked = {[employer |-> e, postings |-> RolesOf(e)] : e \in S}],
               IF S = {} THEN "done" ELSE "breakdown")
  BY DEF Rank
<1> DEFINE R == {[employer |-> e, postings |-> RolesOf(e)] : e \in S}
           g == [got[q] EXCEPT !.ranked = R]
           next == IF S = {} THEN "done" ELSE "breakdown"
<1>2. pc[q] = "rank"
  BY DEF Rank
<1>3. \A e \in S : e \in Employers /\ RolesOf(e) # {} /\ RolesOf(e) \subseteq Postings
                   /\ (~ask[q].everything => e \in clean[q])
  BY <1>2 DEF Hiring, RolesOf, Existing, IInv, CleanNow
<1>4. R \subseteq Activity
  BY <1>3 DEF Activity
<1>5. \A x \in R : x.employer \in Employers /\ x.postings # {} /\ (~ask[q].everything => x.employer \in clean[q])
  BY <1>3
<1> HIDE DEF R
<1>6. g \in Answers
  BY <1>4, AnswerSoFar DEF Answers
<1>7. Real(g) /\ (~ask[q].everything => Discreet(g, clean[q]))
  BY <1>5, AnswerSoFar DEF Answers, Real, Discreet
<1>8. Answer(q, "rank", g, next) /\ next \in Statements \cup {"done"} /\ next # "rows"
  BY <1>1 DEF R, Statements
<1> QED
  BY <1>6, <1>7, <1>8, AnswerStep DEF Statements

LEMMA BreakdownStep ==
  ASSUME IInv, NEW q \in Readers, Breakdown(q)
  PROVE  IInv'
<1> DEFINE B == {<<p, status[p]>> : p \in UNION {RolesOf(e) : e \in IdsShown(q)}}
           g == [got[q] EXCEPT !.breakdown = B]
<1>1. Answer(q, "breakdown", g, "done") /\ pc[q] = "breakdown"
  BY DEF Breakdown, Answer
<1>2. Existing \subseteq Postings /\ \A p \in Existing : status[p] \in STATUSES
  BY <1>1, VisibleFacts
<1>3. \A x \in B : x \in Existing \X STATUSES /\ EmployerOf[x[1]] \in IdsShown(q)
  BY <1>2 DEF RolesOf
<1>4. \A e \in IdsShown(q) : ~ask[q].everything => e \in clean[q]
  BY AnswerSoFar DEF IdsShown, Shown, Discreet
<1> HIDE DEF B
<1>5. g \in Answers
  BY <1>2, <1>3, AnswerSoFar DEF Answers, Standing
<1>6. Real(g) /\ (~ask[q].everything => Discreet(g, clean[q]))
  BY <1>3, <1>4, AnswerSoFar DEF Answers, Real, Discreet
<1> QED
  BY <1>1, <1>5, <1>6, AnswerStep DEF Statements

LEMMA TallyStep ==
  ASSUME IInv, NEW q \in Readers, Tally(q)
  PROVE  IInv'
<1> DEFINE profiles == IF ask[q].everything THEN Profiles ELSE Profiles \ Disabled
           T == {<<x[1], x[2], status[x[2]]>> :
                   x \in {y \in profiles \X Existing : y[2] \in SurfacedBy[y[1]]}}
           g == [got[q] EXCEPT !.tallied = T]
<1>1. Answer(q, "tally", g, "done") /\ pc[q] = "tally"
  BY DEF Tally, Answer
<1>2. Existing \subseteq Postings /\ \A p \in Existing : status[p] \in STATUSES
  BY <1>1, VisibleFacts
<1>3. T \subseteq Profiles \X Postings \X STATUSES
  BY <1>2
<1> HIDE DEF T
<1>4. g \in Answers
  BY <1>3, AnswerSoFar DEF Answers
<1>5. Real(g) /\ (~ask[q].everything => Discreet(g, clean[q]))
  BY AnswerSoFar DEF Answers, Real, Discreet
<1> QED
  BY <1>1, <1>4, <1>5, AnswerStep DEF Statements

LEMMA OverlapStep ==
  ASSUME IInv, NEW q \in Readers, Overlap(q)
  PROVE  IInv'
<1> DEFINE o == [total |-> Existing,
                 per_site |-> {x \in Existing \X Sites : x[2] \in DOMAIN SourcesOf[x[1]]},
                 contested |-> Contested,
                 first_by |-> {x \in Contested \X Sites : Winners(x[1]) = {x[2]}},
                 ties |-> {p \in Contested : Cardinality(Winners(p)) > 1}]
           g == [got[q] EXCEPT !.overlap = o]
<1>1. Answer(q, "overlap", g, "done")
  BY DEF Overlap
<1>2. Existing \subseteq Postings /\ Contested \subseteq Existing
  BY DEF Existing, Contested
<1>3. o \in Overlaps /\ o.total = Existing
  BY <1>2 DEF Overlaps
<1> HIDE DEF o
<1>4. g \in Answers
  BY <1>3, AnswerSoFar DEF Answers
<1>5. Real(g) /\ (~ask[q].everything => Discreet(g, clean[q]))
  BY <1>3, AnswerSoFar DEF Answers, Real, Discreet
<1> QED
  BY <1>1, <1>4, <1>5, AnswerStep DEF Statements

LEMMA BlacklistedStep ==
  ASSUME IInv, NEW q \in Readers, Blacklisted(q)
  PROVE  IInv'
<1> DEFINE B == {[employer |-> e, postings |-> RolesOf(e)] : e \in {d \in Employers : suppressed[d]}}
           g == [got[q] EXCEPT !.blacklist = B]
<1>1. Answer(q, "blacklist", g, "done")
  BY DEF Blacklisted
<1>2. B \subseteq Activity
  BY DEF Activity, RolesOf, Existing
<1> HIDE DEF B
<1>3. g \in Answers
  BY <1>2, AnswerSoFar DEF Answers
<1>4. Real(g) /\ (~ask[q].everything => Discreet(g, clean[q]))
  BY AnswerSoFar DEF Answers, Real, Discreet
<1> QED
  BY <1>1, <1>3, <1>4, AnswerStep DEF Statements

LEMMA ArrivalStep ==
  ASSUME IInv, NEW q \in Readers,
         ListPostings(q) \/ EmployerReport(q) \/ ProfileReport(q) \/ SourceReport(q) \/ BlacklistPage(q)
  PROVE  IInv'
<1>1. ASSUME ListPostings(q)  PROVE IInv'
  <2>1. PICK x \in Asked : Arrive(q, "count", Page(x))
    BY <1>1 DEF ListPostings
  <2> QED
    BY <2>1, RequestFacts, ArriveStep DEF Statements
<1>2. ASSUME EmployerReport(q)  PROVE IInv'
  <2>1. PICK all \in BOOLEAN : Arrive(q, "rank", [NoRequest EXCEPT !.everything = all])
    BY <1>2 DEF EmployerReport
  <2>2. [NoRequest EXCEPT !.everything = all] \in Requests
    BY RequestFacts
  <2> QED
    BY <2>1, <2>2, ArriveStep DEF Statements
<1>3. ASSUME ProfileReport(q)  PROVE IInv'
  <2>1. PICK all \in BOOLEAN : Arrive(q, "tally", [NoRequest EXCEPT !.everything = all])
    BY <1>3 DEF ProfileReport
  <2>2. [NoRequest EXCEPT !.everything = all] \in Requests
    BY RequestFacts
  <2> QED
    BY <2>1, <2>2, ArriveStep DEF Statements
<1>4. ASSUME SourceReport(q) \/ BlacklistPage(q)  PROVE IInv'
  BY <1>4, RequestFacts, ArriveStep DEF Statements, SourceReport, BlacklistPage
<1> QED
  BY <1>1, <1>2, <1>3, <1>4

LEMMA StatementStep ==
  ASSUME IInv, NEW q \in Readers, Statement(q)
  PROVE  IInv'
BY CountStep, RowsStep, ByStatusStep, TotalStep, CountEmployersStep, CountriesOfferedStep,
   UnknownOfferedStep, RankStep, BreakdownStep, TallyStep, OverlapStep, BlacklistedStep
DEF Statement

LEMMA StutterStep ==
  ASSUME IInv, UNCHANGED vars
  PROVE  IInv'
<1> USE DEF IInv, vars, store, read
<1>1. Existing' = Existing
  BY DEF Existing
<1>2. TypeOK'
  BY <1>1 DEF TypeOK
<1>3. ReadsTyped' /\ Fresh' /\ PageChosen' /\ CleanNow' /\ SawFlag' /\ HeldIsCurrent'
  BY DEF ReadsTyped, Fresh, PageChosen, CleanNow, SawFlag, HeldIsCurrent
<1>4. AllDiscreet'
  BY <1>1 DEF AllDiscreet, Discreet
<1> QED
  BY <1>2, <1>3, <1>4

LEMMA StepIInv == IInv /\ [Next]_vars => IInv'
BY CollectStep, TriagedStep, FlagReadStep, FlagWriteStep, ArrivalStep, BulkThenListStep,
   StatementStep, StutterStep
DEF Next

LEMMA SpecIInv == Spec => []IInv
BY InitIInv, StepIInv, PTL DEF Spec

-------------------------------------------------------------------------------
\* What follows.

\* The state is typed, and an answer names only postings that are there, with
\* statuses they can have.
THEOREM VisibilityTypeCorrect == Spec => []TypeOK
<1>1. IInv => TypeOK
  BY DEF IInv
<1> QED
  BY <1>1, SpecIInv, PTL

\* Nothing of an employer blacklisted before the request, and since, is shown
\* (db/visibility.py adopted by every read of services/queries.py): for any
\* number of postings, reads and writes between the statements of a page.
THEOREM BlacklistedStayHidden == Spec => []NothingHidden
<1>1. IInv => NothingHidden
  BY DiscreetIsNothingHidden DEF IInv
<1> QED
  BY <1>1, SpecIInv, PTL

\* Whatever a step is, it leaves a flag request under way alone or is its write,
\* and a read about to ask for rows alone or asks for them.
LEMMA ReadersLeaveAdmin ==
  ASSUME IInv, NEW q \in Readers,
         \/ ListPostings(q) \/ BulkThenList(q)
         \/ EmployerReport(q) \/ ProfileReport(q) \/ SourceReport(q) \/ BlacklistPage(q)
         \/ Statement(q)
  PROVE  admin' = admin
<1>1. CASE ListPostings(q) \/ EmployerReport(q) \/ ProfileReport(q) \/ SourceReport(q) \/ BlacklistPage(q)
  BY <1>1 DEF ListPostings, EmployerReport, ProfileReport, SourceReport, BlacklistPage, Arrive
<1>2. CASE BulkThenList(q)
  BY <1>2 DEF BulkThenList, SetStatus
<1>3. CASE Statement(q)
  BY <1>3 DEF Statement, Count, Rows, ByStatus, Total, CountEmployers, CountriesOffered,
           UnknownOffered, Rank, Breakdown, Tally, Overlap, Blacklisted, Answer
<1> QED
  BY <1>1, <1>2, <1>3

\* A flag request leaves the flag as it asked unless another wrote it meanwhile
\* (blacklist and lift assign; the UPDATE left out is the one that changes nothing).
THEOREM FlagRequestsTakeEffect == Spec => FlagTakesEffect
<1> DEFINE Effect(a) == admin[a].at = "write" /\ admin'[a].at = "done" /\ ~overtaken[a]
                          => suppressed'[admin[a].employer] = admin[a].want
<1>1. ASSUME IInv, [Next]_vars, NEW a \in Admins  PROVE Effect(a)
  <2>1. ASSUME NEW b \in Admins, FlagWrite(b)  PROVE Effect(a)
    BY <1>1, <2>1, FlagWriteStep
  <2>2. ASSUME NEW b \in Admins, NEW e \in Employers, NEW want \in BOOLEAN, FlagRead(b, e, want)
        PROVE  Effect(a)
    BY <1>1, <2>2 DEF FlagRead, IInv, TypeOK
  <2>3. CASE admin' = admin
    BY <2>3
  <2>4. ASSUME NEW p \in Postings, Collect(p)  PROVE admin' = admin
    BY <2>4 DEF Collect
  <2>5. ASSUME NEW S \in SUBSET Postings, NEW s \in STATUSES, Triaged(S, s)  PROVE admin' = admin
    BY <2>5 DEF Triaged, SetStatus
  <2>6. UNCHANGED vars => admin' = admin
    BY DEF vars
  <2> HIDE DEF Effect
  <2> QED
    BY <1>1, <2>1, <2>2, <2>3, <2>4, <2>5, <2>6, ReadersLeaveAdmin DEF Next
<1>2. IInv /\ [Next]_vars =>
        [\A a \in Admins : admin[a].at = "write" /\ admin'[a].at = "done" /\ ~overtaken[a]
            => suppressed'[admin[a].employer] = admin[a].want]_vars
  BY <1>1
<1> QED
  BY <1>2, SpecIInv, PTL DEF Spec, FlagTakesEffect

LEMMA OnlyRowsLeavesRows ==
  ASSUME IInv, [Next]_vars, NEW q \in Readers, pc[q] = "rows", pc'[q] # "rows"
  PROVE  Rows(q)
<1> USE DEF IInv, ReadsTyped
<1>1. \A p \in Postings : ~Collect(p)
  BY DEF Collect, CommittedElsewhere
<1>2. \A S \in SUBSET Postings, s \in STATUSES : ~Triaged(S, s)
  BY DEF Triaged, CommittedElsewhere
<1>3. \A a \in Admins, e \in Employers, want \in BOOLEAN : ~FlagRead(a, e, want)
  BY DEF FlagRead, read
<1>4. \A a \in Admins : ~FlagWrite(a)
  BY DEF FlagWrite, CommittedElsewhere, read
<1>5. ~ UNCHANGED vars
  BY DEF vars, read
<1>6. PICK r \in Readers :
        \/ ListPostings(r) \/ BulkThenList(r)
        \/ EmployerReport(r) \/ ProfileReport(r) \/ SourceReport(r) \/ BlacklistPage(r)
        \/ Statement(r)
  BY <1>1, <1>2, <1>3, <1>4, <1>5 DEF Next
<1>7. ~ (ListPostings(r) \/ EmployerReport(r) \/ ProfileReport(r) \/ SourceReport(r) \/ BlacklistPage(r))
  BY DEF ListPostings, EmployerReport, ProfileReport, SourceReport, BlacklistPage, Arrive
<1>8. ~ BulkThenList(r)
  BY DEF BulkThenList
<1>9. Statement(r)
  BY <1>6, <1>7, <1>8
<1>10. r = q
  BY <1>9 DEF Statement, Count, Rows, ByStatus, Total, CountEmployers, CountriesOffered,
           UnknownOffered, Rank, Breakdown, Tally, Overlap, Blacklisted, Answer
<1> QED
  BY <1>9, <1>10 DEF Statement, Count, ByStatus, Total, CountEmployers, CountriesOffered,
           UnknownOffered, Rank, Breakdown, Tally, Overlap, Blacklisted, Answer

\* The list a bulk change renders in its own session: each row with the status of
\* its posting, or with the one this request gave it and another has replaced
\* since, whatever objects the session still holds.
THEOREM RowsShowTheTruth == Spec => ShownIsTrue
<1> DEFINE True(q) == pc[q] = "rows" /\ pc'[q] # "rows" =>
             /\ {x[1] : x \in got'[q].statuses} = {got'[q].rows[i] : i \in DOMAIN got'[q].rows}
             /\ \A x \in got'[q].statuses :
                  x[2] = status[x[1]] \/ (changed_at[x[1]] > began[q] /\ x \in session[q])
<1>1. ASSUME IInv, [Next]_vars, NEW q \in Readers  PROVE True(q)
  <2> SUFFICES ASSUME pc[q] = "rows", pc'[q] # "rows"  PROVE True(q)
    OBVIOUS
  <2>1. Rows(q)
    BY <1>1, OnlyRowsLeavesRows
  <2>2. PICK s \in Seq(Postings), shown \in SUBSET (Existing \X STATUSES) :
        /\ Answer(q, "rows", [got[q] EXCEPT !.rows = s, !.statuses = shown], "by_status")
        /\ {x[1] : x \in shown} = {s[i] : i \in DOMAIN s}
        /\ \A x \in shown : x \in session[q] \/ x[2] = status[x[1]]
    BY <1>1, <2>1, RowsFacts
  <2>3. got'[q].rows = s /\ got'[q].statuses = shown
    BY <1>1, <2>2 DEF Answer, IInv, ReadsTyped, Answers
  <2>4. \A x \in shown : x[2] = status[x[1]] \/ (changed_at[x[1]] > began[q] /\ x \in session[q])
    BY <1>1, <2>2 DEF IInv, HeldIsCurrent
  <2> QED
    BY <2>2, <2>3, <2>4
<1>2. IInv /\ [Next]_vars =>
        [\A q \in Readers : pc[q] = "rows" /\ pc'[q] # "rows" =>
           /\ {x[1] : x \in got'[q].statuses} = {got'[q].rows[i] : i \in DOMAIN got'[q].rows}
           /\ \A x \in got'[q].statuses :
                x[2] = status[x[1]] \/ (changed_at[x[1]] > began[q] /\ x \in session[q])]_vars
  BY <1>1
<1> QED
  BY <1>2, SpecIInv, PTL DEF Spec, ShownIsTrue

-------------------------------------------------------------------------------
\* The pages of a list.

\* The id makes the ordering total.
LEMMA PrecedesIsTotal ==
  ASSUME TypeOK, NEW f
  PROVE  /\ \A p, q \in Postings : p # q => Precedes(f, p, q) \/ Precedes(f, q, p)
         /\ \A p, q \in Postings : ~ (Precedes(f, p, q) /\ Precedes(f, q, p))
         /\ \A p, q, r \in Postings : Precedes(f, p, q) /\ Precedes(f, q, r) => Precedes(f, p, r)
<1> DEFINE at(p) == IF f.status = STATUS_REJECTED THEN changed_at[p] ELSE FirstSeen[p]
<1>1. \A p \in Postings : at(p) \in Nat /\ p \in Nat
  BY VisibilityAssumption DEF TypeOK
<1>2. \A p, q : Precedes(f, p, q) <=> at(p) > at(q) \/ (at(p) = at(q) /\ p > q)
  BY DEF Precedes, Key
<1> HIDE DEF at
<1> QED
  BY <1>1, <1>2

LEMMA LeastOfNat ==
  ASSUME NEW T \in SUBSET Nat, T # {}
  PROVE  \E x \in T : \A y \in T : x <= y
<1> DEFINE Less == {ss \in Nat \X Nat : ss[1] < ss[2]}
<1>1. IsWellFoundedOn(Less, Nat)
  BY NatLessThanWellFounded DEF OpToRel
<1> HIDE DEF Less
<1>2. PICK x \in T : \A y \in T : ~ (<<y, x>> \in Less)
  BY <1>1, WFMin
<1>3. \A y \in T : ~(y < x)
  BY <1>2 DEF Less
<1> QED
  BY <1>2, <1>3

\* A sequence of all the elements of a finite set, each once, reaches each.
LEMMA EnumerationFacts ==
  ASSUME NEW S, IsFiniteSet(S), NEW s \in SetToSeqs(S)
  PROVE  /\ Cardinality(S) \in Nat
         /\ s \in [1..Cardinality(S) -> S]
         /\ \A i, j \in 1..Cardinality(S) : s[i] = s[j] => i = j
         /\ \A x \in S : \E i \in 1..Cardinality(S) : s[i] = x
<1> DEFINE N == Cardinality(S)
<1>0. N \in Nat
  BY FS_CardinalityType
<1>1. s \in [1..N -> S] /\ \A i, j \in 1..N : i # j => s[i] # s[j]
  BY DEF SetToSeqs
<1>2. s \in Injection(1..N, S)
  BY <1>1 DEF Injection, IsInjective
<1>3. IsFiniteSet(1..N) /\ Cardinality(1..N) = N
  BY <1>0, FS_Interval
<1>4. s \in Surjection(1..N, S)
  BY <1>2, <1>3, FS_Injection, Zenon
<1> QED
  BY <1>0, <1>1, <1>4 DEF Surjection

\* Two statements list the same rows in the same order.
LEMMA OneOrder ==
  ASSUME TypeOK, NEW f, NEW s \in Ordered(f), NEW t \in Ordered(f)
  PROVE  s = t
<1> DEFINE W == Where(f)
           N == Cardinality(W)
           T == {i \in 1..N : s[i] # t[i]}
<1>1. W \subseteq Postings
  BY DEF Where, Visible, Existing
<1>2. /\ s \in SetToSeqs(W) /\ \A i, j \in DOMAIN s : Precedes(f, s[i], s[j]) => i < j
      /\ t \in SetToSeqs(W) /\ \A i, j \in DOMAIN t : Precedes(f, t[i], t[j]) => i < j
  BY DEF Ordered
<1>3. /\ N \in Nat
      /\ s \in [1..N -> W] /\ t \in [1..N -> W]
      /\ \A i, j \in 1..N : s[i] = s[j] => i = j
      /\ \A i, j \in 1..N : t[i] = t[j] => i = j
      /\ \A x \in W : \E i \in 1..N : s[i] = x
      /\ \A x \in W : \E i \in 1..N : t[i] = x
  BY <1>2, WhereIsFinite, EnumerationFacts
<1> HIDE DEF W, N
<1>4. ASSUME T # {}  PROVE FALSE
  <2>1. T \in SUBSET Nat
    BY <1>3
  <2>2. PICK i \in T : \A j \in T : i <= j
    BY <1>4, <2>1, LeastOfNat
  <2>3. i \in 1..N /\ s[i] \in W /\ t[i] \in W /\ s[i] # t[i]
    BY <1>3, <2>2
  <2>4. \A j \in 1..N : j < i => s[j] = t[j]
    BY <1>3, <2>2, <2>3
  <2>5. PICK j \in 1..N : t[j] = s[i]
    BY <1>3, <2>3
  <2>6. PICK k \in 1..N : s[k] = t[i]
    BY <1>3, <2>3
  <2>7. ~(j < i) /\ ~(k < i)
    BY <1>3, <2>3, <2>4, <2>5, <2>6
  <2>8. Precedes(f, s[i], t[i]) \/ Precedes(f, t[i], s[i])
    BY <1>1, <2>3, PrecedesIsTotal
  <2>9. Precedes(f, t[j], t[i]) \/ Precedes(f, s[k], s[i])
    BY <2>5, <2>6, <2>8
  <2>10. j < i \/ k < i
    BY <1>2, <1>3, <2>3, <2>9
  <2> QED
    BY <2>7, <2>10
<1>5. \A i \in 1..N : s[i] = t[i]
  BY <1>4
<1> QED
  BY <1>3, <1>5

\* And there is such an order: each row comes after those that precede it.
LEMMA SomeOrder ==
  ASSUME TypeOK, NEW f
  PROVE  Ordered(f) # {}
<1> DEFINE W == Where(f)
           N == Cardinality(W)
           Below(p) == {q \in W : Precedes(f, q, p)}
           Place(p) == Cardinality(Below(p)) + 1
<1>0. W \subseteq Postings /\ IsFiniteSet(W) /\ N \in Nat
  BY WhereIsFinite DEF Where, Visible, Existing
<1> HIDE DEF W
<1>1. ASSUME NEW p \in W  PROVE IsFiniteSet(Below(p)) /\ Place(p) \in Nat /\ Place(p) \in 1..N
  <2>1. Below(p) \in SUBSET (W \ {p})
    BY <1>0, PrecedesIsTotal
  <2>2. IsFiniteSet(W \ {p}) /\ Cardinality(W \ {p}) = N - 1
    BY <1>0, FS_RemoveElement
  <2>3. IsFiniteSet(Below(p)) /\ Cardinality(Below(p)) <= N - 1
    BY <2>1, <2>2, FS_Subset
  <2>4. Cardinality(Below(p)) \in Nat
    BY <2>3, FS_CardinalityType
  <2> HIDE DEF Below, N
  <2> QED
    BY <1>0, <2>3, <2>4
<1>2. ASSUME NEW p \in W, NEW q \in W, Precedes(f, p, q)  PROVE Place(p) < Place(q)
  <2>1. Below(p) \in SUBSET Below(q)
    BY <1>0, <1>2, PrecedesIsTotal
  <2>2. p \in Below(q) /\ p \notin Below(p)
    BY <1>0, <1>2, PrecedesIsTotal
  <2>3. Cardinality(Below(p)) <= Cardinality(Below(q)) /\ Cardinality(Below(p)) # Cardinality(Below(q))
    BY <1>1, <2>1, <2>2, FS_Subset
  <2>4. Cardinality(Below(p)) \in Nat /\ Cardinality(Below(q)) \in Nat
    BY <1>1, FS_CardinalityType
  <2> HIDE DEF Below
  <2> QED
    BY <2>3, <2>4
<1>3. ASSUME NEW p \in W, NEW q \in W, Place(p) = Place(q)  PROVE p = q
  <2>1. p # q => Precedes(f, p, q) \/ Precedes(f, q, p)
    BY <1>0, PrecedesIsTotal
  <2>2. Place(p) \in Nat /\ Place(q) \in Nat
    BY <1>1
  <2> HIDE DEF Place, N
  <2> QED
    BY <1>2, <1>3, <2>1, <2>2
<1>4. \A n \in 1..N : \E p \in W : Place(p) = n
  <2> DEFINE g == [p \in W |-> Place(p)]
  <2> HIDE DEF Place
  <2>1. g \in Injection(W, 1..N)
    BY <1>1, <1>3 DEF Injection, IsInjective
  <2>2. IsFiniteSet(1..N) /\ Cardinality(1..N) = N
    BY <1>0, FS_Interval
  <2>3. g \in Surjection(W, 1..N)
    BY <1>0, <2>1, <2>2, FS_Injection, Zenon
  <2> QED
    BY <2>3 DEF Surjection
<1> DEFINE s == [n \in 1..N |-> CHOOSE p \in W : Place(p) = n]
<1> HIDE DEF Place, N
<1>5. \A n \in 1..N : s[n] \in W /\ Place(s[n]) = n
  BY <1>4
<1>6. s \in [1..N -> W]
  BY <1>5
<1> HIDE DEF s
<1>7. \A i, j \in 1..N : i # j => s[i] # s[j]
  BY <1>5
<1>8. \A i, j \in 1..N : Precedes(f, s[i], s[j]) => i < j
  BY <1>2, <1>5
<1>9. s \in Ordered(f)
  BY <1>6, <1>7, <1>8 DEF Ordered, SetToSeqs, W, N
<1> QED
  BY <1>9

\* The indices of the rows of page n, of a list of N rows.
OnPage(n, N) == {i \in 1..N : (n - 1) * PAGE_SIZE < i /\ i <= n * PAGE_SIZE}

Contents(s) == {s[i] : i \in DOMAIN s}
ContentsAt(s, I) == {s[i] : i \in I}

LEMMA DivFacts ==
  ASSUME NEW a \in Nat, NEW b \in Nat \ {0}
  PROVE  a \div b \in Nat /\ b * (a \div b) <= a /\ a < b * (a \div b) + b
OBVIOUS

LEMMA SubSeqFacts ==
  ASSUME NEW S, NEW t \in Seq(S), NEW a \in Nat \ {0}, NEW b \in Nat, b <= Len(t)
  PROVE  /\ Len(SubSeq(t, a, b)) = IF a <= b THEN b - a + 1 ELSE 0
         /\ DOMAIN SubSeq(t, a, b) = 1..(b - a + 1)
         /\ \A i \in 1..(b - a + 1) : SubSeq(t, a, b)[i] = t[a + i - 1]
OBVIOUS

LEMMA PageIs ==
  ASSUME TypeOK, NEW f, NEW o \in Ordered(f), NEW n \in Nat \ {0}
  PROVE  LET N == Cardinality(Where(f)) IN
         /\ PageRows(f, n) # {}
         /\ \A s \in PageRows(f, n) :
              /\ Contents(s) = ContentsAt(o, OnPage(n, N))
              /\ Len(s) = IF (n - 1) * PAGE_SIZE < N
                          THEN AtMost(PAGE_SIZE, N - (n - 1) * PAGE_SIZE) ELSE 0
<1> DEFINE W == Where(f)
           N == Cardinality(W)
           a == (n - 1) * PAGE_SIZE
           z == n * PAGE_SIZE
           b == AtMost(z, N)
           page == SubSeq(o, a + 1, b)
<1>1. N \in Nat /\ o \in [1..N -> W]
  BY WhereIsFinite, EnumerationFacts DEF Ordered
<1>2. o \in Seq(W) /\ Len(o) = N
  BY <1>1
<1>3. a \in Nat /\ z \in Nat /\ z = a + PAGE_SIZE /\ PAGE_SIZE \in Nat \ {0}
  BY VisibilityAssumption
<1>4. PageRows(f, n) = {page}
  <2>1. \A s \in Ordered(f) : s = o
    BY OneOrder
  <2> QED
    BY <1>2, <2>1 DEF PageRows
<1>5. OnPage(n, N) = {i \in 1..N : a < i /\ i <= z}
  BY DEF OnPage
<1> HIDE DEF N, W, a, z
<1>6. b \in Nat /\ b <= N /\ b <= z /\ (b = N \/ b = z)
  BY <1>1, <1>3 DEF AtMost
<1> HIDE DEF b
<1>7. /\ Len(page) = IF a + 1 <= b THEN b - a ELSE 0
      /\ DOMAIN page = 1..(b - a)
      /\ \A i \in 1..(b - a) : page[i] = o[a + i]
  <2>1. a + 1 \in Nat \ {0} /\ b <= Len(o) /\ b - (a + 1) + 1 = b - a
    BY <1>2, <1>3, <1>6
  <2>2. /\ Len(page) = IF a + 1 <= b THEN b - (a + 1) + 1 ELSE 0
        /\ DOMAIN page = 1..(b - (a + 1) + 1)
        /\ \A i \in 1..(b - (a + 1) + 1) : page[i] = o[(a + 1) + i - 1]
    BY <1>2, <1>6, <2>1, SubSeqFacts
  <2>3. \A i \in 1..(b - a) : (a + 1) + i - 1 = a + i
    BY <1>3, <1>6
  <2> HIDE DEF page
  <2> QED
    BY <2>1, <2>2, <2>3
<1> HIDE DEF page
<1>8. Contents(page) = ContentsAt(o, OnPage(n, N))
  <2>1. ASSUME NEW i \in DOMAIN page  PROVE a + i \in OnPage(n, N) /\ page[i] = o[a + i]
    BY <1>1, <1>3, <1>5, <1>6, <1>7
  <2>2. ASSUME NEW j \in OnPage(n, N)  PROVE j - a \in DOMAIN page /\ page[j - a] = o[j]
    <3>1. j \in Nat /\ a < j /\ j <= b
      BY <1>1, <1>5, <1>6
    <3>2. j - a \in 1..(b - a) /\ a + (j - a) = j
      BY <1>3, <1>6, <3>1
    <3> QED
      BY <1>7, <3>2
  <2> QED
    BY <2>1, <2>2 DEF Contents, ContentsAt
<1>9. Len(page) = IF a < N THEN AtMost(PAGE_SIZE, N - a) ELSE 0
  BY <1>1, <1>3, <1>6, <1>7 DEF AtMost
<1> QED
  BY <1>4, <1>8, <1>9 DEF N, W, a

\* Every row is on one page, and no further than the last.
LEMMA EveryRowIsOnOnePage ==
  ASSUME NEW N \in Nat
  PROVE  /\ \A i \in 1..N : \E n \in 1..PagesOf(N) : i \in OnPage(n, N)
         /\ \A m, n \in Nat : m # n => OnPage(m, N) \cap OnPage(n, N) = {}
         /\ N > 0 => \A n \in 1..PagesOf(N) : (n - 1) * PAGE_SIZE < N
<1>0. PAGE_SIZE \in Nat \ {0}
  BY VisibilityAssumption
<1> DEFINE L == (N + PAGE_SIZE - 1) \div PAGE_SIZE
<1>1. L \in Nat /\ PAGE_SIZE * L <= N + PAGE_SIZE - 1 /\ N + PAGE_SIZE - 1 < PAGE_SIZE * L + PAGE_SIZE
  <2>1. N + PAGE_SIZE - 1 \in Nat
    BY <1>0
  <2> QED
    BY <1>0, <2>1, DivFacts
<1>2. PagesOf(N) = IF 1 >= L THEN 1 ELSE L
  BY DEF PagesOf, AtLeast
<1> HIDE DEF L
<1>3. N > 0 => L >= 1
  BY <1>0, <1>1
<1>4. ASSUME NEW i \in 1..N  PROVE \E n \in 1..PagesOf(N) : i \in OnPage(n, N)
  <2> DEFINE d == (i - 1) \div PAGE_SIZE
  <2>1. d \in Nat /\ PAGE_SIZE * d <= i - 1 /\ i - 1 < PAGE_SIZE * d + PAGE_SIZE
    BY <1>0, DivFacts
  <2> HIDE DEF d
  <2>2. d < L
    <3> SUFFICES ASSUME ~(d < L)  PROVE FALSE
      OBVIOUS
    <3>1. PAGE_SIZE * L <= PAGE_SIZE * d
      BY <1>0, <1>1, <2>1
    <3> QED
      BY <1>0, <1>1, <2>1, <3>1
  <2>3. d + 1 \in 1..PagesOf(N)
    BY <1>1, <1>2, <2>1, <2>2
  <2>4. ((d + 1) - 1) * PAGE_SIZE = PAGE_SIZE * d /\ (d + 1) * PAGE_SIZE = PAGE_SIZE * d + PAGE_SIZE
    BY <1>0, <2>1
  <2>5. PAGE_SIZE * d < i /\ i <= PAGE_SIZE * d + PAGE_SIZE
    BY <1>0, <2>1
  <2>6. i \in OnPage(d + 1, N)
    BY <2>4, <2>5 DEF OnPage
  <2> QED
    BY <2>3, <2>6
<1>5. ASSUME NEW m \in Nat, NEW n \in Nat, m < n  PROVE OnPage(m, N) \cap OnPage(n, N) = {}
  <2>1. m * PAGE_SIZE <= (n - 1) * PAGE_SIZE
    BY <1>0, <1>5
  <2>2. m * PAGE_SIZE \in Nat /\ (n - 1) * PAGE_SIZE \in Int
    BY <1>0
  <2> QED
    BY <2>1, <2>2 DEF OnPage
<1>6. ASSUME NEW m \in Nat, NEW n \in Nat, m # n  PROVE OnPage(m, N) \cap OnPage(n, N) = {}
  BY <1>5, <1>6
<1>7. ASSUME N > 0, NEW n \in 1..PagesOf(N)  PROVE (n - 1) * PAGE_SIZE < N
  <2>1. n \in Nat /\ n <= L
    BY <1>1, <1>2, <1>3, <1>7
  <2>2. (n - 1) * PAGE_SIZE <= (L - 1) * PAGE_SIZE
    BY <1>0, <1>1, <2>1
  <2>3. (L - 1) * PAGE_SIZE = PAGE_SIZE * L - PAGE_SIZE
    BY <1>0, <1>1
  <2> DEFINE x == (n - 1) * PAGE_SIZE
             y == (L - 1) * PAGE_SIZE
             v == PAGE_SIZE * L
  <2>4. x \in Int /\ y \in Int /\ v \in Int
    BY <1>0, <1>1, <2>1
  <2>5. x <= y /\ y = v - PAGE_SIZE /\ v <= N + PAGE_SIZE - 1
    BY <1>1, <2>2, <2>3
  <2> HIDE DEF x, y, v
  <2>6. x < N
    BY <1>0, <2>4, <2>5
  <2> QED
    BY <2>6 DEF x
<1> QED
  BY <1>4, <1>6, <1>7

LEMMA PagesAreAPartition == TypeOK => PagesPartition
<1> SUFFICES ASSUME TypeOK, NEW f \in Filters
             PROVE  LET last == PagesOf(Cardinality(Where(f)))
                        Seen(s) == {s[i] : i \in DOMAIN s}
                    IN /\ \A m, n \in 1..last : m # n =>
                            \A s \in PageRows(f, m), t \in PageRows(f, n) : Seen(s) \cap Seen(t) = {}
                       /\ UNION {Seen(CHOOSE s \in PageRows(f, n) : TRUE) : n \in 1..last} = Where(f)
  BY DEF PagesPartition
<1> DEFINE W == Where(f)
           N == Cardinality(W)
           last == PagesOf(N)
           Seen(s) == {s[i] : i \in DOMAIN s}
           any(n) == CHOOSE s \in PageRows(f, n) : TRUE
<1>1. PICK o \in Ordered(f) : TRUE
  BY SomeOrder
<1>2. /\ N \in Nat /\ o \in [1..N -> W]
      /\ \A i, j \in 1..N : o[i] = o[j] => i = j
      /\ \A p \in W : \E i \in 1..N : o[i] = p
  BY WhereIsFinite, EnumerationFacts DEF Ordered
<1>3. last \in Nat \ {0}
  BY <1>2, PagesArePositive
<1>4. ASSUME NEW n \in 1..last
      PROVE  /\ n \in Nat \ {0}
             /\ PageRows(f, n) # {}
             /\ \A s \in PageRows(f, n) : Contents(s) = ContentsAt(o, OnPage(n, N))
             /\ OnPage(n, N) \subseteq 1..N
  <2>1. n \in Nat \ {0}
    BY <1>3
  <2>2. PageRows(f, n) # {} /\ \A s \in PageRows(f, n) : Contents(s) = ContentsAt(o, OnPage(n, N))
    BY <2>1, PageIs
  <2>3. OnPage(n, N) \subseteq 1..N
    BY DEF OnPage
  <2> QED
    BY <2>1, <2>2, <2>3
<1> HIDE DEF W, N, last, Seen
<1>5. ASSUME NEW m \in 1..last, NEW n \in 1..last, m # n,
             NEW s \in PageRows(f, m), NEW t \in PageRows(f, n)
      PROVE  Seen(s) \cap Seen(t) = {}
  <2>1. OnPage(m, N) \cap OnPage(n, N) = {}
    BY <1>2, <1>4, <1>5, EveryRowIsOnOnePage
  <2>2. Seen(s) = {o[i] : i \in OnPage(m, N)} /\ Seen(t) = {o[i] : i \in OnPage(n, N)}
    BY <1>4 DEF Contents, ContentsAt, Seen
  <2>3. OnPage(m, N) \subseteq 1..N /\ OnPage(n, N) \subseteq 1..N
    BY <1>4
  <2> QED
    BY <1>2, <2>1, <2>2, <2>3
<1>6. \A n \in 1..last : Seen(any(n)) = {o[i] : i \in OnPage(n, N)}
  BY <1>4 DEF Contents, ContentsAt, Seen
<1> HIDE DEF any
<1>7. \A p \in W : \E n \in 1..last : p \in Seen(any(n))
  <2> SUFFICES ASSUME NEW p \in W  PROVE \E n \in 1..last : p \in Seen(any(n))
    OBVIOUS
  <2>1. PICK i \in 1..N : o[i] = p
    BY <1>2
  <2>2. PICK n \in 1..last : i \in OnPage(n, N)
    BY <1>2, EveryRowIsOnOnePage DEF last
  <2> QED
    BY <1>6, <2>1, <2>2
<1>8. \A n \in 1..last : Seen(any(n)) \subseteq W
  BY <1>2, <1>4, <1>6
<1>9. UNION {Seen(any(n)) : n \in 1..last} = W
  BY <1>7, <1>8
<1> QED
  BY <1>5, <1>9 DEF W, N, last, Seen, any

\* Turning the pages shows every posting of a list, and each once, whatever ties.
THEOREM PagesArePartition == Spec => []PagesPartition
<1>1. IInv => PagesPartition
  BY PagesAreAPartition DEF IInv
<1> QED
  BY <1>1, SpecIInv, PTL

-------------------------------------------------------------------------------
\* The figures of a page rendered while nothing is written.

Firsts == {"idle", "count", "rank", "tally", "overlap", "blacklist"}
FromRows == {"rows"}
FromByStatus == {"rows", "by_status"}
FromTotal == {"rows", "by_status", "total"}
FromEmployers == {"rows", "by_status", "total", "employers"}
FromCountries == {"rows", "by_status", "total", "employers", "countries"}

\* No answer before the first statement; the employers' report counts no list.
NothingYet ==
  \A q \in Readers : /\ pc[q] \in Firsts => got[q] = NoAnswer
                     /\ pc[q] = "breakdown" => got[q].number = 0

\* What each statement of the list answers, read off the store as it stands.
ListNow(g, f, at) ==
  /\ g.matched = Where(f) /\ g.number \in 1..PagesOf(Cardinality(Where(f)))
  /\ at \notin FromRows => g.rows \in PageRows(f, g.number)
  /\ at \notin FromByStatus => g.by_status = {<<p, status[p]>> : p \in Visible}
  /\ at \notin FromTotal => g.postings = Visible
  /\ at \notin FromEmployers => g.employers = {e \in Employers : ~suppressed[e]}
  /\ at \notin FromCountries => g.countries = {CountryOf[p] : p \in Visible} \ {COUNTRY_UNKNOWN}

OverlapNow ==
  [total |-> Existing,
   per_site |-> {x \in Existing \X Sites : x[2] \in DOMAIN SourcesOf[x[1]]},
   contested |-> Contested,
   first_by |-> {x \in Contested \X Sites : Winners(x[1]) = {x[2]}},
   ties |-> {p \in Contested : Cardinality(Winners(p)) > 1}]

BlacklistNow ==
  {[employer |-> e, postings |-> RolesOf(e)] : e \in {d \in Employers : suppressed[d]}}

ReportsNow(g, at) ==
  /\ \A x \in g.ranked : x.postings = RolesOf(x.employer)
  /\ at # "breakdown" => {x[1] : x \in g.breakdown} = UNION {x.postings : x \in g.ranked}
  /\ g.overlap # NoOverlap => g.overlap = OverlapNow
  /\ g.blacklist # {} => g.blacklist = BlacklistNow

Current(q) ==
  began[q] = writes =>
    /\ got[q].number > 0 => ListNow(got[q], ask[q].filter, pc[q])
    /\ ReportsNow(got[q], pc[q])

FInv == IInv /\ NothingYet /\ \A q \in Readers : Current(q)

LEMMA CurrentAtFirst ==
  ASSUME NEW f, NEW at
  PROVE  NoAnswer.number = 0 /\ ReportsNow(NoAnswer, at)
BY DEF NoAnswer, ReportsNow

LEMMA InitFInv == Init => FInv
<1> SUFFICES ASSUME Init PROVE FInv
  OBVIOUS
<1>1. IInv
  BY InitIInv
<1>2. NothingYet
  BY DEF Init, NothingYet
<1>3. \A q \in Readers : Current(q)
  BY CurrentAtFirst DEF Init, Current
<1> QED
  BY <1>1, <1>2, <1>3 DEF FInv

\* A commit ends the quiet of every read under way but the one that made it.
LEMMA CommitDisturbs ==
  ASSUME FInv, Committed, NEW r \in Readers, began'[r] = began[r]
  PROVE  Current(r)'
<1>1. began[r] <= writes /\ began[r] \in Nat /\ writes \in Nat /\ writes' = writes + 1
  BY DEF FInv, IInv, ReadsTyped, TypeOK, Committed
<1>2. began'[r] # writes'
  BY <1>1
<1> QED
  BY <1>2 DEF Current

\* What an answer should be depends on the store alone.
LEMMA SameStore ==
  ASSUME UNCHANGED store
  PROVE  /\ \A g, f, at : ListNow(g, f, at)' <=> ListNow(g, f, at)
         /\ \A g, at : ReportsNow(g, at)' <=> ReportsNow(g, at)
<1>1. UNCHANGED <<suppressed, status, changed_at, writes>>
  BY DEF store
<1>2. Existing' = Existing /\ Visible' = Visible
  BY <1>1 DEF Existing, Visible, not_suppressed
<1>3. \A f : Where(f)' = Where(f)
  BY <1>1, <1>2 DEF Where
<1>4. \A f, n : PageRows(f, n)' = PageRows(f, n)
  BY <1>1, <1>3 DEF PageRows, Ordered, Precedes, Key
<1>5. Contested' = Contested /\ \A e : RolesOf(e)' = RolesOf(e)
  BY <1>2 DEF Contested, RolesOf
<1>6. OverlapNow' = OverlapNow /\ BlacklistNow' = BlacklistNow
  BY <1>1, <1>2, <1>5 DEF OverlapNow, BlacklistNow
<1>7. \A g, at : ReportsNow(g, at)' <=> ReportsNow(g, at)
  BY <1>5, <1>6 DEF ReportsNow
<1>8. \A g, f, at : ListNow(g, f, at)' <=> ListNow(g, f, at)
  BY <1>1, <1>2, <1>3, <1>4 DEF ListNow
<1> QED
  BY <1>7, <1>8

\* A read nobody touches, over a store nobody touches, stays current.
LEMMA StillCurrent ==
  ASSUME FInv, UNCHANGED store, NEW r \in Readers,
         pc'[r] = pc[r], ask'[r] = ask[r], got'[r] = got[r], began'[r] = began[r]
  PROVE  Current(r)'
<1>1. Current(r) /\ writes' = writes
  BY DEF FInv, store
<1> QED
  BY <1>1, SameStore DEF Current

\* A step of somebody else.
LEMMA BystanderFigures ==
  ASSUME FInv, IInv', UNCHANGED <<pc, ask, got, began>>, UNCHANGED store \/ Committed
  PROVE  FInv'
<1>1. \A r \in Readers : Current(r)'
  BY StillCurrent, CommitDisturbs
<1>2. NothingYet'
  BY DEF FInv, NothingYet
<1> QED
  BY <1>1, <1>2 DEF FInv

\* A step that begins a read.
LEMMA BeginFigures ==
  ASSUME FInv, IInv', NEW q \in Readers, NEW at \in Firsts, pc[q] = "idle",
         pc' = [pc EXCEPT ![q] = at], got' = got,
         \A r \in Readers : r # q => ask'[r] = ask[r] /\ began'[r] = began[r],
         UNCHANGED store \/ Committed
  PROVE  FInv'
<1>1. \A r \in Readers : pc'[r] = IF r = q THEN at ELSE pc[r]
  BY DEF FInv, IInv, ReadsTyped
<1>2. got[q] = NoAnswer
  BY DEF FInv, IInv, Fresh
<1>3. NothingYet'
  BY <1>1, <1>2 DEF FInv, NothingYet, Firsts
<1>4. ASSUME NEW r \in Readers, r # q  PROVE Current(r)'
  BY <1>1, <1>4, StillCurrent, CommitDisturbs
<1>5. Current(q)'
  <2>1. NoAnswer.number = 0
    BY DEF NoAnswer
  <2>2. ReportsNow(NoAnswer, at)'
    BY DEF NoAnswer, ReportsNow
  <2> QED
    BY <1>1, <1>2, <2>1, <2>2 DEF Current
<1> QED
  BY <1>3, <1>4, <1>5 DEF FInv

\* A statement whose answer is what the store says.
LEMMA AnswerFigures ==
  ASSUME FInv, IInv', NEW q \in Readers, NEW at, NEW g, NEW next \in Statements \cup {"done"},
         Answer(q, at, g, next), next \notin Firsts,
         next = "breakdown" => g.number = 0,
         began[q] = writes =>
           (g.number > 0 => ListNow(g, ask[q].filter, next)) /\ ReportsNow(g, next)
  PROVE  FInv'
<1> USE DEF Answer
<1>1. /\ \A r \in Readers : pc'[r] = IF r = q THEN next ELSE pc[r]
      /\ \A r \in Readers : got'[r] = IF r = q THEN g ELSE got[r]
  BY DEF FInv, IInv, ReadsTyped
<1>2. UNCHANGED store /\ ask' = ask /\ began' = began /\ writes' = writes
  BY DEF store
<1>3. NothingYet'
  BY <1>1 DEF FInv, NothingYet
<1>4. ASSUME NEW r \in Readers, r # q  PROVE Current(r)'
  BY <1>1, <1>2, <1>4, StillCurrent
<1>5. Current(q)'
  BY <1>1, <1>2, SameStore DEF Current
<1> QED
  BY <1>3, <1>4, <1>5 DEF FInv

LEMMA CountFigures ==
  ASSUME FInv, NEW q \in Readers, Count(q)
  PROVE  FInv'
<1> DEFINE W == Where(ask[q].filter)
           n == Clamped(ask[q].page, Cardinality(W))
           g == [got[q] EXCEPT !.matched = W, !.number = n]
<1>1. Answer(q, "count", g, "rows") /\ got[q] = NoAnswer /\ IInv'
  BY CountStep DEF Count, Answer, FInv, NothingYet, Firsts
<1>2. n \in 1..PagesOf(Cardinality(W))
  BY WhereIsFinite, PagesArePositive DEF FInv, IInv, ReadsTyped, Requests
<1>3. ListNow(g, ask[q].filter, "rows")
  BY <1>1, <1>2 DEF ListNow, NoAnswer, FromRows, FromByStatus, FromTotal, FromEmployers, FromCountries
<1>4. ReportsNow(g, "rows")
  BY <1>1 DEF ReportsNow, NoAnswer
<1> HIDE DEF g
<1> QED
  BY <1>1, <1>3, <1>4, AnswerFigures DEF Statements, Firsts

\* A statement of the list after the count adds what it answers.
LEMMA ListFigures ==
  ASSUME FInv, IInv', NEW q \in Readers,
         NEW at \in {"rows", "by_status", "total", "employers", "countries", "unknown"},
         NEW g, NEW next \in {"by_status", "total", "employers", "countries", "unknown", "done"},
         Answer(q, at, g, next),
         \A a \in {"ranked", "breakdown", "overlap", "blacklist"} : g[a] = got[q][a],
         g.number = got[q].number,
         ListNow(got[q], ask[q].filter, at) => ListNow(g, ask[q].filter, next)
  PROVE  FInv'
<1>1. pc[q] = at /\ Current(q)
  BY DEF Answer, FInv
<1>2. began[q] = writes => (g.number > 0 => ListNow(g, ask[q].filter, next)) /\ ReportsNow(g, next)
  <2> SUFFICES ASSUME began[q] = writes
               PROVE  (g.number > 0 => ListNow(g, ask[q].filter, next)) /\ ReportsNow(g, next)
    OBVIOUS
  <2>1. g.number > 0 => ListNow(g, ask[q].filter, next)
    BY <1>1 DEF Current
  <2>2. ReportsNow(got[q], at)
    BY <1>1 DEF Current
  <2>3. g.ranked = got[q].ranked /\ g.breakdown = got[q].breakdown
        /\ g.overlap = got[q].overlap /\ g.blacklist = got[q].blacklist
    OBVIOUS
  <2>4. ReportsNow(g, next)
    BY <2>2, <2>3 DEF ReportsNow
  <2> QED
    BY <2>1, <2>4
<1> QED
  BY <1>2, AnswerFigures DEF Statements, Firsts

LEMMA RowsFigures ==
  ASSUME FInv, NEW q \in Readers, Rows(q)
  PROVE  FInv'
<1>1. PICK s \in Seq(Postings), shown \in SUBSET (Existing \X STATUSES) :
        /\ Answer(q, "rows", [got[q] EXCEPT !.rows = s, !.statuses = shown], "by_status")
        /\ s \in PageRows(ask[q].filter, got[q].number)
  BY RowsFacts DEF FInv
<1> DEFINE g == [got[q] EXCEPT !.rows = s, !.statuses = shown]
<1>2. got[q] \in Answers /\ IInv'
  BY RowsStep DEF FInv, IInv, ReadsTyped
<1>3. /\ g.rows = s /\ g.matched = got[q].matched /\ g.number = got[q].number
      /\ \A a \in {"ranked", "breakdown", "overlap", "blacklist"} : g[a] = got[q][a]
  BY <1>2 DEF Answers
<1> HIDE DEF g
<1>4. ListNow(got[q], ask[q].filter, "rows") => ListNow(g, ask[q].filter, "by_status")
  BY <1>1, <1>3 DEF ListNow, FromRows, FromByStatus, FromTotal, FromEmployers, FromCountries
<1>5. Answer(q, "rows", g, "by_status")
  BY <1>1 DEF g
<1> QED
  BY <1>2, <1>3, <1>4, <1>5, ListFigures

LEMMA TotalsFigures ==
  ASSUME FInv, NEW q \in Readers, ByStatus(q) \/ Total(q) \/ CountEmployers(q)
  PROVE  FInv'
<1> USE DEF FromRows, FromByStatus, FromTotal, FromEmployers, FromCountries
<1>0. got[q] \in Answers /\ IInv'
  BY ByStatusStep, TotalStep, CountEmployersStep DEF FInv, IInv, ReadsTyped
<1>1. CASE ByStatus(q)
  <2> DEFINE x == {<<p, status[p]>> : p \in Visible}
             g == [got[q] EXCEPT !.by_status = x]
  <2>1. Answer(q, "by_status", g, "total")
    BY <1>1 DEF ByStatus
  <2> HIDE DEF x
  <2>2. /\ g.by_status = x /\ g.rows = got[q].rows /\ g.matched = got[q].matched
        /\ g.number = got[q].number
        /\ \A a \in {"ranked", "breakdown", "overlap", "blacklist"} : g[a] = got[q][a]
    BY <1>0 DEF Answers
  <2> HIDE DEF g
  <2>3. ListNow(got[q], ask[q].filter, "by_status") => ListNow(g, ask[q].filter, "total")
    BY <2>2 DEF ListNow, x
  <2> QED
    BY <1>0, <2>1, <2>2, <2>3, ListFigures
<1>2. CASE Total(q)
  <2> DEFINE g == [got[q] EXCEPT !.postings = Visible]
  <2>1. Answer(q, "total", g, "employers")
    BY <1>2 DEF Total
  <2>2. /\ g.postings = Visible /\ g.by_status = got[q].by_status /\ g.rows = got[q].rows
        /\ g.matched = got[q].matched /\ g.number = got[q].number
        /\ \A a \in {"ranked", "breakdown", "overlap", "blacklist"} : g[a] = got[q][a]
    BY <1>0 DEF Answers
  <2> HIDE DEF g
  <2>3. ListNow(got[q], ask[q].filter, "total") => ListNow(g, ask[q].filter, "employers")
    BY <2>2 DEF ListNow
  <2> QED
    BY <1>0, <2>1, <2>2, <2>3, ListFigures
<1>3. CASE CountEmployers(q)
  <2> DEFINE x == {e \in Employers : ~suppressed[e]}
             g == [got[q] EXCEPT !.employers = x]
  <2>1. Answer(q, "employers", g, "countries")
    BY <1>3 DEF CountEmployers
  <2> HIDE DEF x
  <2>2. /\ g.employers = x /\ g.postings = got[q].postings /\ g.by_status = got[q].by_status
        /\ g.rows = got[q].rows /\ g.matched = got[q].matched /\ g.number = got[q].number
        /\ \A a \in {"ranked", "breakdown", "overlap", "blacklist"} : g[a] = got[q][a]
    BY <1>0 DEF Answers
  <2> HIDE DEF g
  <2>3. ListNow(got[q], ask[q].filter, "employers") => ListNow(g, ask[q].filter, "countries")
    BY <2>2 DEF ListNow, x
  <2> QED
    BY <1>0, <2>1, <2>2, <2>3, ListFigures
<1> QED
  BY <1>1, <1>2, <1>3

LEMMA FacetsFigures ==
  ASSUME FInv, NEW q \in Readers, CountriesOffered(q) \/ UnknownOffered(q)
  PROVE  FInv'
<1> USE DEF FromRows, FromByStatus, FromTotal, FromEmployers, FromCountries
<1>0. got[q] \in Answers /\ IInv'
  BY CountriesOfferedStep, UnknownOfferedStep DEF FInv, IInv, ReadsTyped
<1>1. CASE CountriesOffered(q)
  <2> DEFINE x == {CountryOf[p] : p \in Visible} \ {COUNTRY_UNKNOWN}
             g == [got[q] EXCEPT !.countries = x]
  <2>1. Answer(q, "countries", g, "unknown")
    BY <1>1 DEF CountriesOffered
  <2> HIDE DEF x
  <2>2. /\ g.countries = x /\ g.employers = got[q].employers /\ g.postings = got[q].postings
        /\ g.by_status = got[q].by_status
        /\ g.rows = got[q].rows /\ g.matched = got[q].matched /\ g.number = got[q].number
        /\ \A a \in {"ranked", "breakdown", "overlap", "blacklist"} : g[a] = got[q][a]
    BY <1>0 DEF Answers
  <2> HIDE DEF g
  <2>3. ListNow(got[q], ask[q].filter, "countries") => ListNow(g, ask[q].filter, "unknown")
    BY <2>2 DEF ListNow, x
  <2> QED
    BY <1>0, <2>1, <2>2, <2>3, ListFigures
<1>2. CASE UnknownOffered(q)
  <2> DEFINE u == \E p \in Visible : CountryOf[p] = COUNTRY_UNKNOWN
             g == [got[q] EXCEPT !.unknown = u]
  <2>1. Answer(q, "unknown", g, "done")
    BY <1>2 DEF UnknownOffered
  <2> HIDE DEF u
  <2>2. /\ g.countries = got[q].countries /\ g.employers = got[q].employers
        /\ g.postings = got[q].postings /\ g.by_status = got[q].by_status
        /\ g.rows = got[q].rows /\ g.matched = got[q].matched /\ g.number = got[q].number
        /\ \A a \in {"ranked", "breakdown", "overlap", "blacklist"} : g[a] = got[q][a]
    BY <1>0 DEF Answers
  <2> HIDE DEF g
  <2>3. ListNow(got[q], ask[q].filter, "unknown") => ListNow(g, ask[q].filter, "done")
    BY <2>2 DEF ListNow
  <2> QED
    BY <1>0, <2>1, <2>2, <2>3, ListFigures
<1> QED
  BY <1>1, <1>2

LEMMA RankFigures ==
  ASSUME FInv, NEW q \in Readers, Rank(q)
  PROVE  FInv'
<1>1. PICK S \in SUBSET Hiring(q) :
        Answer(q, "rank",
               [got[q] EXCEPT !.ranked = {[employer |-> e, postings |-> RolesOf(e)] : e \in S}],
               IF S = {} THEN "done" ELSE "breakdown")
  BY DEF Rank
<1> DEFINE R == {[employer |-> e, postings |-> RolesOf(e)] : e \in S}
           g == [got[q] EXCEPT !.ranked = R]
           next == IF S = {} THEN "done" ELSE "breakdown"
<1>2. Answer(q, "rank", g, next) /\ next \in {"done", "breakdown"}
  BY <1>1
<1>3. got[q] = NoAnswer /\ IInv'
  BY RankStep DEF Rank, FInv, NothingYet, Firsts
<1>4. (\A x \in R : x.postings = RolesOf(x.employer)) /\ (next = "done" => R = {})
  OBVIOUS
<1> HIDE DEF R, next
<1>5. ReportsNow(g, next) /\ g.number = 0
  BY <1>2, <1>3, <1>4 DEF ReportsNow, NoAnswer
<1> HIDE DEF g
<1> QED
  BY <1>2, <1>3, <1>5, AnswerFigures DEF Statements, Firsts

LEMMA BreakdownFigures ==
  ASSUME FInv, NEW q \in Readers, Breakdown(q)
  PROVE  FInv'
<1> DEFINE shown == UNION {RolesOf(e) : e \in IdsShown(q)}
           B == {<<p, status[p]>> : p \in shown}
           g == [got[q] EXCEPT !.breakdown = B]
<1>1. Answer(q, "breakdown", g, "done") /\ pc[q] = "breakdown"
  BY DEF Breakdown, Answer
<1>2. got[q] \in Answers /\ got[q].number = 0 /\ IInv' /\ Current(q)
  BY <1>1, BreakdownStep DEF FInv, IInv, ReadsTyped, NothingYet
<1>3. {x[1] : x \in B} = shown
  <2> DEFINE pair(p) == <<p, status[p]>>
  <2>1. B = {pair(p) : p \in shown} /\ \A p : pair(p)[1] = p
    OBVIOUS
  <2> HIDE DEF B, shown, pair
  <2> QED
    BY <2>1
<1>4. ASSUME began[q] = writes  PROVE shown = UNION {x.postings : x \in got[q].ranked}
  <2>1. \A x \in got[q].ranked : x.postings = RolesOf(x.employer)
    BY <1>2, <1>4 DEF Current, ReportsNow
  <2>2. {RolesOf(e) : e \in IdsShown(q)} = {x.postings : x \in got[q].ranked}
    BY <2>1 DEF IdsShown, Shown
  <2> QED
    BY <2>2
<1> HIDE DEF B, shown
<1>5. began[q] = writes => ReportsNow(got[q], "breakdown")
  BY <1>1, <1>2 DEF Current
<1>6. g.number = 0 /\ (began[q] = writes => ReportsNow(g, "done"))
  BY <1>2, <1>3, <1>4, <1>5 DEF ReportsNow, Answers
<1> HIDE DEF g
<1> QED
  BY <1>1, <1>2, <1>6, AnswerFigures DEF Statements, Firsts

LEMMA OtherReportsFigures ==
  ASSUME FInv, NEW q \in Readers, Tally(q) \/ Overlap(q) \/ Blacklisted(q)
  PROVE  FInv'
<1>0. IInv'
  BY TallyStep, OverlapStep, BlacklistedStep DEF FInv
<1>1. CASE Tally(q)
  <2> DEFINE profiles == IF ask[q].everything THEN Profiles ELSE Profiles \ Disabled
             T == {<<x[1], x[2], status[x[2]]>> :
                     x \in {y \in profiles \X Existing : y[2] \in SurfacedBy[y[1]]}}
             g == [got[q] EXCEPT !.tallied = T]
  <2>1. Answer(q, "tally", g, "done") /\ got[q] = NoAnswer
    BY <1>1 DEF Tally, Answer, FInv, NothingYet, Firsts
  <2> HIDE DEF T
  <2>2. g.number = 0 /\ ReportsNow(g, "done")
    BY <2>1 DEF ReportsNow, NoAnswer
  <2> HIDE DEF g
  <2> QED
    BY <1>0, <2>1, <2>2, AnswerFigures DEF Statements, Firsts
<1>2. CASE Overlap(q)
  <2> DEFINE g == [got[q] EXCEPT !.overlap = OverlapNow]
  <2>1. Answer(q, "overlap", g, "done") /\ got[q] = NoAnswer
    BY <1>2 DEF Overlap, OverlapNow, Answer, FInv, NothingYet, Firsts
  <2>2. g.number = 0 /\ ReportsNow(g, "done")
    BY <2>1 DEF ReportsNow, NoAnswer
  <2> HIDE DEF g
  <2> QED
    BY <1>0, <2>1, <2>2, AnswerFigures DEF Statements, Firsts
<1>3. CASE Blacklisted(q)
  <2> DEFINE g == [got[q] EXCEPT !.blacklist = BlacklistNow]
  <2>1. Answer(q, "blacklist", g, "done") /\ got[q] = NoAnswer
    BY <1>3 DEF Blacklisted, BlacklistNow, Answer, FInv, NothingYet, Firsts
  <2>2. g.number = 0 /\ ReportsNow(g, "done")
    BY <2>1 DEF ReportsNow, NoAnswer
  <2> HIDE DEF g
  <2> QED
    BY <1>0, <2>1, <2>2, AnswerFigures DEF Statements, Firsts
<1> QED
  BY <1>1, <1>2, <1>3

LEMMA WriterFigures ==
  ASSUME FInv,
         \/ \E p \in Postings : Collect(p)
         \/ \E S \in SUBSET Postings, s \in STATUSES : Triaged(S, s)
         \/ \E a \in Admins, e \in Employers, want \in BOOLEAN : FlagRead(a, e, want)
         \/ \E a \in Admins : FlagWrite(a)
         \/ UNCHANGED vars
  PROVE  FInv'
<1>1. IInv'
  BY StepIInv DEF FInv, Next
<1>2. UNCHANGED <<pc, ask, got, began>> /\ (UNCHANGED store \/ Committed)
  BY DEF Collect, Triaged, FlagRead, FlagWrite, CommittedElsewhere, Committed, vars, store, read
<1> QED
  BY <1>1, <1>2, BystanderFigures

LEMMA ArrivalFigures ==
  ASSUME FInv, NEW q \in Readers,
         \/ ListPostings(q) \/ BulkThenList(q)
         \/ EmployerReport(q) \/ ProfileReport(q) \/ SourceReport(q) \/ BlacklistPage(q)
  PROVE  FInv'
<1>1. IInv'
  BY BulkThenListStep, ArrivalStep DEF FInv
<1>2. ASSUME NEW at \in Firsts, NEW request, Arrive(q, at, request)  PROVE FInv'
  <2>1. /\ pc[q] = "idle" /\ pc' = [pc EXCEPT ![q] = at] /\ got' = got /\ UNCHANGED store
        /\ \A r \in Readers : r # q => ask'[r] = ask[r] /\ began'[r] = began[r]
    BY <1>2 DEF Arrive, FInv, IInv, ReadsTyped
  <2> QED
    BY <1>1, <2>1, BeginFigures
<1>3. CASE BulkThenList(q)
  <2>1. PICK S \in Ticked, s \in STATUSES, x \in Asked : ask' = [ask EXCEPT ![q] = Page(x)]
    BY <1>3 DEF BulkThenList
  <2>2. /\ pc[q] = "idle" /\ pc' = [pc EXCEPT ![q] = "count"] /\ got' = got /\ Committed
        /\ began' = [began EXCEPT ![q] = writes']
    BY <1>3 DEF BulkThenList
  <2>3. "count" \in Firsts /\ \A r \in Readers : r # q => ask'[r] = ask[r] /\ began'[r] = began[r]
    BY <2>1, <2>2 DEF Firsts, FInv, IInv, ReadsTyped
  <2> QED
    BY <1>1, <2>2, <2>3, BeginFigures
<1>4. CASE ~BulkThenList(q)
  <2>1. PICK at \in {"count", "rank", "tally", "overlap", "blacklist"} : \E request : Arrive(q, at, request)
    BY <1>4 DEF ListPostings, EmployerReport, ProfileReport, SourceReport, BlacklistPage
  <2> QED
    BY <1>2, <2>1 DEF Firsts
<1> QED
  BY <1>3, <1>4

LEMMA StepFInv == FInv /\ [Next]_vars => FInv'
BY WriterFigures, ArrivalFigures, CountFigures, RowsFigures, TotalsFigures, FacetsFigures,
   RankFigures, BreakdownFigures, OtherReportsFigures
DEF Next, Statement

\* Among the boards that list a posting and whose stamps can be read, some are first.
LEMMA RacesAreWon ==
  ASSUME NEW p \in Contested
  PROVE  IsFiniteSet(Winners(p)) /\ Winners(p) # {} /\ Winners(p) \subseteq Sites
<1>1. p \in Postings
  BY DEF Contested, Existing
<1>2. Stamped(p) \subseteq Sites /\ \A s \in Stamped(p) : SourcesOf[p][s] \in Nat
  BY <1>1, VisibilityAssumption DEF Stamped
<1>3. IsFiniteSet(Stamped(p)) /\ Stamped(p) # {}
  <2>1. IsFiniteSet(Stamped(p))
    BY <1>2, FS_Subset, VisibilityAssumption
  <2>2. Cardinality(Stamped(p)) >= 2
    BY DEF Contested
  <2> QED
    BY <2>1, <2>2, FS_EmptySet
<1> DEFINE T == {SourcesOf[p][s] : s \in Stamped(p)}
<1>4. T \in SUBSET Nat /\ T # {}
  BY <1>2, <1>3
<1>5. PICK least \in T : \A y \in T : least <= y
  BY <1>4, LeastOfNat
<1>6. PICK s \in Stamped(p) : SourcesOf[p][s] = least
  BY <1>5
<1>7. s \in Winners(p)
  BY <1>5, <1>6 DEF Winners
<1>8. Winners(p) \subseteq Stamped(p)
  BY DEF Winners
<1> QED
  BY <1>2, <1>3, <1>7, <1>8, FS_Subset

\* A contested posting is credited to the one board that was first, or is a tie.
LEMMA CreditsAddUp ==
  ASSUME TypeOK
  PROVE  Cardinality(OverlapNow.first_by) + Cardinality(OverlapNow.ties)
           = Cardinality(OverlapNow.contested)
<1> DEFINE C == Contested
           Ties == {p \in C : Cardinality(Winners(p)) > 1}
           Won == {p \in C : \E s : Winners(p) = {s}}
           Credits == {x \in C \X Sites : Winners(x[1]) = {x[2]}}
<1>1. IsFiniteSet(C)
  <2>1. C \subseteq Postings
    BY DEF Contested, Existing
  <2> QED
    BY <2>1, FS_Subset, VisibilityAssumption
<1>2. ASSUME NEW p \in C  PROVE p \in Won <=> p \notin Ties
  <2>1. IsFiniteSet(Winners(p)) /\ Winners(p) # {}
    BY RacesAreWon
  <2>2. Cardinality(Winners(p)) \in Nat /\ Cardinality(Winners(p)) # 0
    BY <2>1, FS_CardinalityType, FS_EmptySet
  <2>3. Cardinality(Winners(p)) = 1 <=> \E s : Winners(p) = {s}
    BY <2>1, FS_Singleton
  <2> QED
    BY <2>2, <2>3
<1>3. Won \cup Ties = C /\ Won \cap Ties = {} /\ Won \subseteq C /\ Ties \subseteq C
  BY <1>2
<1> HIDE DEF C
<1>4. Cardinality(Credits) = Cardinality(Won)
  <2> DEFINE h == [p \in Won |-> <<p, CHOOSE s : Winners(p) = {s}>>]
  <2>1. \A p \in Won : h[p] = <<p, CHOOSE s : Winners(p) = {s}>> /\ h[p] \in Credits
    <3> SUFFICES ASSUME NEW p \in Won
                 PROVE  h[p] = <<p, CHOOSE s : Winners(p) = {s}>> /\ h[p] \in Credits
      OBVIOUS
    <3> DEFINE w == CHOOSE s : Winners(p) = {s}
    <3>1. Winners(p) = {w}
      OBVIOUS
    <3>2. w \in Sites
      BY <1>3, <3>1, RacesAreWon DEF C
    <3>3. h[p] = <<p, w>> /\ p \in C
      BY <1>3
    <3>4. <<p, w>> \in Credits
      BY <3>1, <3>2, <3>3
    <3>5. w = CHOOSE s : Winners(p) = {s}
      OBVIOUS
    <3> HIDE DEF w, h, Credits
    <3> QED
      BY <3>3, <3>4, <3>5
  <2>2. \A x \in Credits : x[1] \in Won /\ h[x[1]] = x
    <3> SUFFICES ASSUME NEW x \in Credits  PROVE x[1] \in Won /\ h[x[1]] = x
      OBVIOUS
    <3>1. x[1] \in Won /\ Winners(x[1]) = {x[2]} /\ x = <<x[1], x[2]>>
      OBVIOUS
    <3>2. (CHOOSE s : Winners(x[1]) = {s}) = x[2]
      BY <3>1
    <3>3. h[x[1]] = <<x[1], CHOOSE s : Winners(x[1]) = {s}>>
      BY <3>1
    <3> HIDE DEF h
    <3> QED
      BY <3>1, <3>2, <3>3
  <2>3. h \in [Won -> Credits]
    BY <2>1
  <2>4. \A p, r \in Won : h[p] = h[r] => p = r
    BY <2>1
  <2> HIDE DEF h, Won, Credits
  <2>5. h \in Bijection(Won, Credits)
    BY <2>2, <2>3, <2>4 DEF Bijection, Injection, Surjection, IsInjective
  <2>6. ExistsBijection(Won, Credits)
    BY <2>5 DEF ExistsBijection
  <2>7. IsFiniteSet(Won)
    BY <1>1, <1>3, FS_Subset
  <2> QED
    BY <2>6, <2>7, FS_Bijection
<1>5. Cardinality(C) = Cardinality(Won) + Cardinality(Ties)
  <2>1. IsFiniteSet(Won) /\ IsFiniteSet(Ties)
    BY <1>1, <1>3, FS_Subset
  <2>2. Cardinality(Won \cup Ties) = Cardinality(Won) + Cardinality(Ties) - Cardinality(Won \cap Ties)
    BY <2>1, FS_Union
  <2>3. Cardinality(Won \cap Ties) = 0
    BY <1>3, FS_EmptySet
  <2>4. Cardinality(Won) \in Nat /\ Cardinality(Ties) \in Nat
    BY <2>1, FS_CardinalityType
  <2> HIDE DEF Won, Ties
  <2> QED
    BY <1>3, <2>2, <2>3, <2>4
<1>6. OverlapNow.first_by = Credits /\ OverlapNow.ties = Ties /\ OverlapNow.contested = C
  BY DEF OverlapNow, C
<1> QED
  BY <1>4, <1>5, <1>6

\* What the list's answers come to, when each is the store's.
LEMMA ListAgrees ==
  ASSUME TypeOK, NEW f, NEW g, g.rows \in Seq(Postings), ListNow(g, f, "done")
  PROVE  /\ \A i \in DOMAIN g.rows : g.rows[i] \in g.matched
         /\ Len(g.rows) = AtMost(PAGE_SIZE, Cardinality(g.matched) - (g.number - 1) * PAGE_SIZE)
         /\ g.matched # {} => g.rows # <<>>
         /\ {x[1] : x \in g.by_status} = g.postings /\ g.matched \subseteq g.postings
         /\ \A c \in g.countries : Where([AnyFilter EXCEPT !.country = c]) # {}
         /\ {EmployerOf[p] : p \in g.postings} \subseteq g.employers
<1> DEFINE W == Where(f)
           N == Cardinality(W)
           n == g.number
<1>1. /\ g.matched = W /\ n \in 1..PagesOf(N) /\ g.rows \in PageRows(f, n)
      /\ g.by_status = {<<p, status[p]>> : p \in Visible}
      /\ g.postings = Visible /\ g.employers = {e \in Employers : ~suppressed[e]}
      /\ g.countries = {CountryOf[p] : p \in Visible} \ {COUNTRY_UNKNOWN}
  BY DEF ListNow, FromRows, FromByStatus, FromTotal, FromEmployers, FromCountries
<1>2. N \in Nat /\ PagesOf(N) \in Nat \ {0} /\ IsFiniteSet(W)
  <2>1. N \in Nat /\ IsFiniteSet(W)
    BY WhereIsFinite
  <2>2. PagesOf(N) \in Nat \ {0}
    BY <2>1, PagesArePositive
  <2> QED
    BY <2>1, <2>2
<1>3. n \in Nat \ {0}
  BY <1>1, <1>2
<1>4. \A i \in DOMAIN g.rows : g.rows[i] \in g.matched
  BY <1>1, <1>3, RowsSelected
<1>5. Len(g.rows) = IF (n - 1) * PAGE_SIZE < N THEN AtMost(PAGE_SIZE, N - (n - 1) * PAGE_SIZE) ELSE 0
  <2>1. PICK o \in Ordered(f) : TRUE
    BY SomeOrder
  <2> QED
    BY <1>1, <1>3, <2>1, PageIs
<1>6. ASSUME N > 0
      PROVE  /\ Len(g.rows) = AtMost(PAGE_SIZE, Cardinality(g.matched) - (g.number - 1) * PAGE_SIZE)
             /\ g.matched # {} => g.rows # <<>>
  <2>1. (n - 1) * PAGE_SIZE < N
    BY <1>1, <1>2, <1>6, EveryRowIsOnOnePage
  <2>2. (n - 1) * PAGE_SIZE \in Int /\ PAGE_SIZE \in Nat \ {0}
    BY <1>3, VisibilityAssumption
  <2> DEFINE a == (n - 1) * PAGE_SIZE
  <2> HIDE DEF a
  <2>3. Len(g.rows) = AtMost(PAGE_SIZE, N - a) /\ a < N /\ a \in Int
    BY <1>5, <2>1, <2>2 DEF a
  <2> HIDE DEF N, n
  <2>4. Len(g.rows) > 0
    BY <1>2, <2>2, <2>3 DEF AtMost
  <2>5. g.rows # <<>>
    BY <2>4
  <2>6. g.matched = W /\ AtMost(PAGE_SIZE, N - a) = AtMost(PAGE_SIZE, Cardinality(W) - (g.number - 1) * PAGE_SIZE)
    BY <1>1 DEF a, N, n
  <2> QED
    BY <2>3, <2>5, <2>6
<1>7. ASSUME N = 0
      PROVE  /\ Len(g.rows) = AtMost(PAGE_SIZE, Cardinality(g.matched) - (g.number - 1) * PAGE_SIZE)
             /\ g.matched # {} => g.rows # <<>>
  <2>1. W = {}
    BY <1>2, <1>7, FS_EmptySet
  <2>2. PagesOf(N) = 1
    <3>1. (N + PAGE_SIZE - 1) = PAGE_SIZE - 1 /\ PAGE_SIZE \in Nat \ {0}
      BY <1>7, VisibilityAssumption
    <3>2. (PAGE_SIZE - 1) \div PAGE_SIZE = 0
      BY <3>1
    <3> HIDE DEF N
    <3> QED
      BY <3>1, <3>2 DEF PagesOf, AtLeast
  <2>3. n = 1
    BY <1>1, <2>2
  <2>4. (n - 1) * PAGE_SIZE = 0 /\ PAGE_SIZE \in Nat \ {0}
    BY <2>3, VisibilityAssumption
  <2> DEFINE a == (n - 1) * PAGE_SIZE
  <2>5. Len(g.rows) = (IF a < N THEN AtMost(PAGE_SIZE, N - a) ELSE 0) /\ a = 0
    BY <1>5, <2>4
  <2> HIDE DEF a, N, n
  <2>6. Len(g.rows) = AtMost(PAGE_SIZE, N - a)
    BY <1>7, <2>4, <2>5 DEF AtMost
  <2>7. g.matched = W /\ AtMost(PAGE_SIZE, N - a) = AtMost(PAGE_SIZE, Cardinality(W) - (g.number - 1) * PAGE_SIZE)
    BY <1>1 DEF a, N, n
  <2> QED
    BY <2>1, <2>6, <2>7
<1>8. {x[1] : x \in g.by_status} = g.postings
  <2> DEFINE pair(p) == <<p, status[p]>>
  <2>1. g.by_status = {pair(p) : p \in Visible} /\ \A p : pair(p)[1] = p
    BY <1>1
  <2> HIDE DEF pair
  <2> QED
    BY <1>1, <2>1
<1>9. g.matched \subseteq g.postings
  BY <1>1 DEF Where
<1>10. ASSUME NEW c \in g.countries  PROVE Where([AnyFilter EXCEPT !.country = c]) # {}
  <2>1. PICK p \in Visible : CountryOf[p] = c
    BY <1>1, <1>10
  <2> DEFINE any == [AnyFilter EXCEPT !.country = c]
  <2>2. any.status = AnyStatus /\ any.country = c /\ any.source = AnySource
    BY DEF AnyFilter
  <2> HIDE DEF any
  <2>3. p \in Where(any)
    BY <2>1, <2>2 DEF Where
  <2> QED
    BY <2>3 DEF any
<1>11. {EmployerOf[p] : p \in g.postings} \subseteq g.employers
  BY <1>1, VisibilityAssumption DEF Visible, Existing, not_suppressed
<1>12. N > 0 \/ N = 0
  BY <1>2
<1>13. /\ Len(g.rows) = AtMost(PAGE_SIZE, Cardinality(g.matched) - (g.number - 1) * PAGE_SIZE)
       /\ g.matched # {} => g.rows # <<>>
  BY <1>6, <1>7, <1>12
<1> QED
  BY <1>4, <1>8, <1>9, <1>10, <1>11, <1>13

LEMMA ReportsAgree ==
  ASSUME TypeOK, NEW g, ReportsNow(g, "done")
  PROVE  /\ UNION {x.postings : x \in g.ranked} = {x[1] : x \in g.breakdown}
         /\ g.overlap # NoOverlap =>
              /\ \A s \in Sites : Where([AnyFilter EXCEPT !.source = s]) =
                   {p \in Visible : <<p, s>> \in g.overlap.per_site}
              /\ Cardinality(g.overlap.first_by) + Cardinality(g.overlap.ties)
                   = Cardinality(g.overlap.contested)
         /\ g.blacklist # {} => UNION {x.postings : x \in g.blacklist} = Existing \ Visible
<1>1. UNION {x.postings : x \in g.ranked} = {x[1] : x \in g.breakdown}
  BY DEF ReportsNow
<1>2. ASSUME g.overlap # NoOverlap, NEW s \in Sites
      PROVE  Where([AnyFilter EXCEPT !.source = s]) = {p \in Visible : <<p, s>> \in g.overlap.per_site}
  <2> DEFINE any == [AnyFilter EXCEPT !.source = s]
  <2>1. any.status = AnyStatus /\ any.country = AnyCountry /\ any.source = s /\ s # AnySource
    BY VisibilityAssumption DEF AnyFilter
  <2> HIDE DEF any
  <2>2. Where(any) = {p \in Visible : s \in DOMAIN SourcesOf[p]}
    BY <2>1 DEF Where
  <2>3. g.overlap.per_site = {x \in Existing \X Sites : x[2] \in DOMAIN SourcesOf[x[1]]}
    BY <1>2 DEF ReportsNow, OverlapNow
  <2>4. \A p \in Visible : <<p, s>> \in g.overlap.per_site <=> s \in DOMAIN SourcesOf[p]
    BY <2>3 DEF Visible
  <2> QED
    BY <2>2, <2>4 DEF any
<1>3. ASSUME g.overlap # NoOverlap
      PROVE  Cardinality(g.overlap.first_by) + Cardinality(g.overlap.ties)
               = Cardinality(g.overlap.contested)
  BY <1>3, CreditsAddUp DEF ReportsNow
<1>4. ASSUME g.blacklist # {}  PROVE UNION {x.postings : x \in g.blacklist} = Existing \ Visible
  <2>1. g.blacklist = BlacklistNow
    BY <1>4 DEF ReportsNow
  <2> DEFINE hidden == {d \in Employers : suppressed[d]}
             entry(e) == [employer |-> e, postings |-> RolesOf(e)]
  <2>2. BlacklistNow = {entry(e) : e \in hidden} /\ \A e : entry(e).postings = RolesOf(e)
    BY DEF BlacklistNow
  <2>3. \A p \in Existing : EmployerOf[p] \in Employers
    BY VisibilityAssumption DEF Existing
  <2>4. \A p : (\E e \in hidden : p \in RolesOf(e)) <=> p \in Existing \ Visible
    BY <2>3 DEF RolesOf, Visible, not_suppressed
  <2> HIDE DEF entry, hidden
  <2>5. \A p : p \in UNION {x.postings : x \in BlacklistNow} <=> \E e \in hidden : p \in RolesOf(e)
    BY <2>2
  <2> QED
    BY <2>1, <2>4, <2>5
<1> QED
  BY <1>1, <1>2, <1>3, <1>4

\* A page rendered while nothing is written is of one piece: pager, rows, totals
\* and facets (list_postings, totals, facets), and each report with itself.
THEOREM QuietFiguresAgree == Spec => []FiguresAgree
<1>1. FInv => FiguresAgree
  <2> SUFFICES ASSUME FInv, NEW q \in Readers, Quiet(q)
               PROVE  LET g == got[q] IN
                        /\ g.number > 0 =>
                             /\ \A i \in DOMAIN g.rows : g.rows[i] \in g.matched
                             /\ Len(g.rows) = AtMost(PAGE_SIZE, Cardinality(g.matched) - (g.number - 1) * PAGE_SIZE)
                             /\ g.matched # {} => g.rows # <<>>
                             /\ {x[1] : x \in g.by_status} = g.postings /\ g.matched \subseteq g.postings
                             /\ \A c \in g.countries : Where([AnyFilter EXCEPT !.country = c]) # {}
                             /\ {EmployerOf[p] : p \in g.postings} \subseteq g.employers
                        /\ UNION {x.postings : x \in g.ranked} = {x[1] : x \in g.breakdown}
                        /\ g.overlap # NoOverlap =>
                             /\ \A s \in Sites : Where([AnyFilter EXCEPT !.source = s]) =
                                  {p \in Visible : <<p, s>> \in g.overlap.per_site}
                             /\ Cardinality(g.overlap.first_by) + Cardinality(g.overlap.ties)
                                  = Cardinality(g.overlap.contested)
                        /\ g.blacklist # {} => UNION {x.postings : x \in g.blacklist} = Existing \ Visible
    BY DEF FiguresAgree
  <2>1. /\ TypeOK /\ got[q].rows \in Seq(Postings)
        /\ got[q].number > 0 => ListNow(got[q], ask[q].filter, "done")
        /\ ReportsNow(got[q], "done")
    BY DEF FInv, Current, Quiet, IInv, ReadsTyped, Answers
  <2> DEFINE g == got[q]
  <2> HIDE DEF g
  <2>2. ASSUME g.number > 0
        PROVE  /\ \A i \in DOMAIN g.rows : g.rows[i] \in g.matched
               /\ Len(g.rows) = AtMost(PAGE_SIZE, Cardinality(g.matched) - (g.number - 1) * PAGE_SIZE)
               /\ g.matched # {} => g.rows # <<>>
               /\ {x[1] : x \in g.by_status} = g.postings /\ g.matched \subseteq g.postings
               /\ \A c \in g.countries : Where([AnyFilter EXCEPT !.country = c]) # {}
               /\ {EmployerOf[p] : p \in g.postings} \subseteq g.employers
    BY <2>1, <2>2, ListAgrees DEF g
  <2>3. /\ UNION {x.postings : x \in g.ranked} = {x[1] : x \in g.breakdown}
        /\ g.overlap # NoOverlap =>
             /\ \A s \in Sites : Where([AnyFilter EXCEPT !.source = s]) =
                  {p \in Visible : <<p, s>> \in g.overlap.per_site}
             /\ Cardinality(g.overlap.first_by) + Cardinality(g.overlap.ties)
                  = Cardinality(g.overlap.contested)
        /\ g.blacklist # {} => UNION {x.postings : x \in g.blacklist} = Existing \ Visible
    BY <2>1, ReportsAgree DEF g
  <2> QED
    BY <2>2, <2>3 DEF g
<1> QED
  BY <1>1, InitFInv, StepFInv, PTL DEF Spec
-------------------------------------------------------------------------------
\* What is never out of sight while a page is rendered is on it.

\* What the statements of the list sent so far owe the postings Z.
Shows(g, f, at, Z) ==
  /\ Z \cap Where(f) \subseteq g.matched
  /\ at \notin FromByStatus => \A p \in Z : <<p, status[p]>> \in g.by_status
  /\ at \notin FromTotal => Z \subseteq g.postings
  /\ at \notin FromEmployers => \A p \in Z : EmployerOf[p] \in g.employers
  /\ at \notin FromCountries => \A p \in Z : CountryOf[p] # COUNTRY_UNKNOWN => CountryOf[p] \in g.countries
  /\ at = "done" => \A p \in Z : CountryOf[p] = COUNTRY_UNKNOWN => g.unknown

InSight(q) ==
  /\ steady[q] \subseteq Visible
  /\ got[q].number > 0 => Shows(got[q], ask[q].filter, pc[q], steady[q])
  /\ \A x \in got[q].blacklist : x.postings \cap steady[q] = {}

KInv == /\ FInv
        /\ judged = status
        /\ steady \in [Readers -> SUBSET Postings]
        /\ \A q \in Readers : InSight(q)

LEMMA InitKInv == Init => KInv
<1> SUFFICES ASSUME Init PROVE KInv
  OBVIOUS
<1>1. \A q \in Readers : InSight(q)
  BY DEF Init, InSight, NoAnswer
<1> QED
  BY <1>1, InitFInv DEF KInv, Init

\* An answer owes no less to fewer postings, whatever becomes of the others.
LEMMA OwedToFewer ==
  ASSUME KInv, NEW r \in Readers, NEW Z \in SUBSET steady[r],
         \A p \in Z : status'[p] = status[p] /\ ~suppressed'[EmployerOf[p]]
  PROVE  /\ Z \subseteq Visible'
         /\ \A g, f, at : Shows(g, f, at, steady[r]) => Shows(g, f, at, Z)'
<1>1. Z \subseteq Visible
  BY DEF KInv, InSight
<1>2. Z \subseteq Visible'
  BY <1>1 DEF Visible, not_suppressed, Existing
<1>3. \A f : Z \cap Where(f)' = Z \cap Where(f)
  BY <1>1, <1>2 DEF Where
<1>4. ASSUME NEW g, NEW f, NEW at, Shows(g, f, at, steady[r])  PROVE Shows(g, f, at, Z)'
  BY <1>3, <1>4 DEF Shows
<1> QED
  BY <1>2, <1>4

\* A read nobody touches keeps what it shows of the postings nobody disturbed.
LEMMA StaysInSight ==
  ASSUME KInv, NEW r \in Readers,
         pc'[r] = pc[r], ask'[r] = ask[r], got'[r] = got[r], steady'[r] \subseteq steady[r],
         \A p \in steady'[r] : status'[p] = status[p] /\ ~suppressed'[EmployerOf[p]]
  PROVE  InSight(r)'
BY OwedToFewer DEF KInv, InSight

LEMMA QuietSight ==
  ASSUME KInv, NEW r \in Readers, UNCHANGED <<status, suppressed>>,
         pc'[r] = pc[r], ask'[r] = ask[r], got'[r] = got[r], steady'[r] = steady[r]
  PROVE  InSight(r)'
<1>1. \A p \in steady[r] : ~suppressed[EmployerOf[p]]
  BY DEF KInv, InSight, Visible, not_suppressed
<1> QED
  BY <1>1, StaysInSight

\* A step of a writer.
LEMMA WriterSight ==
  ASSUME KInv,
         \/ \E p \in Postings : Collect(p)
         \/ \E S \in SUBSET Postings, s \in STATUSES : Triaged(S, s)
         \/ \E a \in Admins, e \in Employers, want \in BOOLEAN : FlagRead(a, e, want)
         \/ \E a \in Admins : FlagWrite(a)
         \/ UNCHANGED vars
  PROVE  KInv'
<1>1. FInv' /\ UNCHANGED <<pc, ask, got>>
  BY WriterFigures DEF KInv, Collect, Triaged, FlagRead, FlagWrite, CommittedElsewhere, vars, store, read
<1>2. judged' = status'
  BY DEF KInv, Collect, Triaged, SetStatus, FlagRead, FlagWrite, StatusAfterFlag, vars, store
<1>3. CASE UNCHANGED <<store, steady>>
  BY <1>1, <1>2, <1>3, QuietSight DEF KInv, store
<1>4. CASE steady' = [q \in Readers |-> Undisturbed(q)]
  <2>1. steady' \in [Readers -> SUBSET Postings]
    BY <1>4 DEF KInv, Undisturbed
  <2>2. ASSUME NEW r \in Readers  PROVE InSight(r)'
    <3>1. steady'[r] = Undisturbed(r)
      BY <1>4
    <3>2. \A p \in steady'[r] : p \in steady[r] /\ status'[p] = status[p] /\ ~suppressed'[EmployerOf[p]]
      BY <1>2, <3>1 DEF KInv, Undisturbed
    <3> QED
      BY <1>1, <3>2, StaysInSight
  <2> QED
    BY <1>1, <1>2, <2>1, <2>2 DEF KInv
<1>5. UNCHANGED <<store, steady>> \/ steady' = [q \in Readers |-> Undisturbed(q)]
  BY DEF Collect, Triaged, FlagRead, FlagWrite, CommittedElsewhere, vars, store, read
<1> QED
  BY <1>3, <1>4, <1>5

\* A read begins with nothing in hand, and owes all that is in sight.
LEMMA ArrivalSight ==
  ASSUME KInv, NEW q \in Readers,
         \/ ListPostings(q) \/ BulkThenList(q)
         \/ EmployerReport(q) \/ ProfileReport(q) \/ SourceReport(q) \/ BlacklistPage(q)
  PROVE  KInv'
<1>1. FInv' /\ IInv /\ got[q] = NoAnswer
  <2>1. pc[q] = "idle"
    BY DEF ListPostings, BulkThenList, EmployerReport, ProfileReport, SourceReport, BlacklistPage, Arrive
  <2> QED
    BY <2>1, ArrivalFigures DEF KInv, FInv, IInv, Fresh
<1>2. InPlay = Visible /\ (judged' = status' => InPlay' = Visible')
  BY DEF KInv, InPlay, Visible, not_suppressed, Existing
<1>3. got'[q] = NoAnswer /\ steady'[q] \subseteq Visible' => InSight(q)'
  BY DEF InSight, NoAnswer
<1>4. ASSUME NEW at, NEW request, Arrive(q, at, request)  PROVE KInv'
  <2>1. /\ UNCHANGED <<status, suppressed, judged, got>> /\ steady' = [steady EXCEPT ![q] = InPlay]
        /\ \A r \in Readers : r # q => pc'[r] = pc[r] /\ ask'[r] = ask[r]
    BY <1>1, <1>4 DEF Arrive, store, IInv, ReadsTyped
  <2>2. steady' \in [Readers -> SUBSET Postings] /\ steady'[q] = InPlay
        /\ \A r \in Readers : r # q => steady'[r] = steady[r]
    BY <2>1 DEF KInv, InPlay
  <2>3. Visible' = Visible
    BY <2>1 DEF Visible, not_suppressed, Existing
  <2>4. InSight(q)'
    BY <1>1, <1>2, <1>3, <2>1, <2>2, <2>3
  <2>5. \A r \in Readers : r # q => InSight(r)'
    BY <2>1, <2>2, QuietSight
  <2> QED
    BY <1>1, <2>1, <2>2, <2>4, <2>5 DEF KInv
<1>5. CASE BulkThenList(q)
  <2>1. PICK S \in Ticked, s \in STATUSES, x \in Asked :
          SetStatus(S, s) /\ ask' = [ask EXCEPT ![q] = Page(x)]
    BY <1>5 DEF BulkThenList
  <2>2. judged' = status' /\ suppressed' = suppressed
    BY <2>1 DEF SetStatus, KInv
  <2>3. /\ pc' = [pc EXCEPT ![q] = "count"] /\ got' = got
        /\ steady' = [r \in Readers |-> IF r = q THEN InPlay' ELSE Undisturbed(r)]
    BY <1>5 DEF BulkThenList
  <2>4. steady' \in [Readers -> SUBSET Postings]
    BY <2>3 DEF KInv, InPlay, Undisturbed
  <2>5. InSight(q)'
    BY <1>1, <1>2, <1>3, <2>2, <2>3
  <2>6. ASSUME NEW r \in Readers, r # q  PROVE InSight(r)'
    <3>1. steady'[r] = Undisturbed(r) /\ pc'[r] = pc[r] /\ ask'[r] = ask[r]
      BY <1>1, <2>1, <2>3, <2>6 DEF IInv, ReadsTyped
    <3>2. \A p \in steady'[r] : p \in steady[r] /\ status'[p] = status[p] /\ ~suppressed'[EmployerOf[p]]
      BY <2>2, <3>1 DEF KInv, Undisturbed
    <3> QED
      BY <2>3, <3>1, <3>2, StaysInSight
  <2> QED
    BY <1>1, <2>2, <2>4, <2>5, <2>6 DEF KInv
<1>6. CASE ~BulkThenList(q)
  <2>1. PICK at \in {"count", "rank", "tally", "overlap", "blacklist"} : \E request : Arrive(q, at, request)
    BY <1>6 DEF ListPostings, EmployerReport, ProfileReport, SourceReport, BlacklistPage
  <2> QED
    BY <1>4, <2>1
<1> QED
  BY <1>5, <1>6

\* A statement adds what it owes.
LEMMA AnswerSight ==
  ASSUME KInv, FInv', NEW q \in Readers, NEW at, NEW g, NEW next, Answer(q, at, g, next),
         g.number > 0 => Shows(g, ask[q].filter, next, steady[q]),
         \A x \in g.blacklist : x.postings \cap steady[q] = {}
  PROVE  KInv'
<1>1. /\ \A r \in Readers : pc'[r] = IF r = q THEN next ELSE pc[r]
      /\ \A r \in Readers : got'[r] = IF r = q THEN g ELSE got[r]
      /\ UNCHANGED <<status, suppressed, judged, ask, steady>>
  BY DEF Answer, store, KInv, FInv, IInv, ReadsTyped
<1>2. \A r \in Readers : r # q => InSight(r)'
  BY <1>1, QuietSight
<1>3. Visible' = Visible /\ \A f : Where(f)' = Where(f)
  BY <1>1 DEF Visible, not_suppressed, Existing, Where
<1>4. InSight(q)'
  BY <1>1, <1>3 DEF KInv, InSight, Shows
<1> QED
  BY <1>1, <1>2, <1>4 DEF KInv

\* The list, statement by statement.
LEMMA ListSight ==
  ASSUME KInv, NEW q \in Readers,
         \/ Count(q) \/ Rows(q) \/ ByStatus(q) \/ Total(q) \/ CountEmployers(q)
         \/ CountriesOffered(q) \/ UnknownOffered(q)
  PROVE  KInv'
<1> DEFINE f == ask[q].filter
           Z == steady[q]
<1>0. /\ FInv' /\ FInv /\ IInv /\ got[q] \in Answers /\ Z \subseteq Visible
      /\ \A p \in Visible : EmployerOf[p] \in Employers /\ ~suppressed[EmployerOf[p]]
  <2>1. Visible \subseteq Postings
    BY DEF Visible, Existing
  <2> QED
    BY <2>1, VisibilityAssumption, CountFigures, RowsFigures, TotalsFigures, FacetsFigures
       DEF KInv, InSight, FInv, IInv, ReadsTyped, Visible, not_suppressed
<1>1. InSight(q)
  BY DEF KInv
<1> USE DEF FromRows, FromByStatus, FromTotal, FromEmployers, FromCountries
<1>2. CASE Count(q)
  <2> DEFINE g == [got[q] EXCEPT !.matched = Where(f), !.number = Clamped(ask[q].page, Cardinality(Where(f)))]
  <2>1. Answer(q, "count", g, "rows") /\ got[q] = NoAnswer
    BY <1>0, <1>2 DEF Count, Answer, FInv, NothingYet, Firsts
  <2>2. g.matched = Where(f) /\ g.blacklist = {}
    BY <2>1 DEF NoAnswer
  <2> HIDE DEF g
  <2>3. Shows(g, f, "rows", Z)
    BY <2>2 DEF Shows
  <2> QED
    BY <1>0, <2>1, <2>2, <2>3, AnswerSight
<1>3. CASE Rows(q)
  <2>1. PICK s \in Seq(Postings), shown \in SUBSET (Existing \X STATUSES) :
          Answer(q, "rows", [got[q] EXCEPT !.rows = s, !.statuses = shown], "by_status")
    BY <1>0, <1>3, RowsFacts
  <2> DEFINE g == [got[q] EXCEPT !.rows = s, !.statuses = shown]
  <2>2. g.matched = got[q].matched /\ g.number = got[q].number /\ g.blacklist = got[q].blacklist
    BY <1>0 DEF Answers
  <2>3. Answer(q, "rows", g, "by_status") /\ pc[q] = "rows"
    BY <2>1 DEF Answer
  <2> HIDE DEF g
  <2>4. g.number > 0 => Shows(g, f, "by_status", Z)
    BY <1>1, <2>2, <2>3 DEF InSight, Shows
  <2> QED
    BY <1>0, <1>1, <2>2, <2>3, <2>4, AnswerSight DEF InSight
<1>4. CASE ByStatus(q)
  <2> DEFINE x == {<<p, status[p]>> : p \in Visible}
             g == [got[q] EXCEPT !.by_status = x]
  <2>1. Answer(q, "by_status", g, "total") /\ pc[q] = "by_status"
    BY <1>4 DEF ByStatus, Answer
  <2>2. \A p \in Z : <<p, status[p]>> \in x
    BY <1>0
  <2> HIDE DEF x
  <2>3. /\ g.by_status = x /\ g.matched = got[q].matched /\ g.number = got[q].number
        /\ g.blacklist = got[q].blacklist
    BY <1>0 DEF Answers
  <2> HIDE DEF g
  <2>4. g.number > 0 => Shows(g, f, "total", Z)
    BY <1>1, <2>1, <2>2, <2>3 DEF InSight, Shows
  <2> QED
    BY <1>0, <1>1, <2>1, <2>3, <2>4, AnswerSight DEF InSight
<1>5. CASE Total(q)
  <2> DEFINE g == [got[q] EXCEPT !.postings = Visible]
  <2>1. Answer(q, "total", g, "employers") /\ pc[q] = "total"
    BY <1>5 DEF Total, Answer
  <2>2. /\ g.postings = Visible /\ g.by_status = got[q].by_status
        /\ g.matched = got[q].matched /\ g.number = got[q].number /\ g.blacklist = got[q].blacklist
    BY <1>0 DEF Answers
  <2> HIDE DEF g
  <2>3. g.number > 0 => Shows(g, f, "employers", Z)
    BY <1>0, <1>1, <2>1, <2>2 DEF InSight, Shows
  <2> QED
    BY <1>0, <1>1, <2>1, <2>2, <2>3, AnswerSight DEF InSight
<1>6. CASE CountEmployers(q)
  <2> DEFINE x == {e \in Employers : ~suppressed[e]}
             g == [got[q] EXCEPT !.employers = x]
  <2>1. Answer(q, "employers", g, "countries") /\ pc[q] = "employers"
    BY <1>6 DEF CountEmployers, Answer
  <2>2. \A p \in Z : EmployerOf[p] \in x
    BY <1>0
  <2> HIDE DEF x
  <2>3. /\ g.employers = x /\ g.postings = got[q].postings /\ g.by_status = got[q].by_status
        /\ g.matched = got[q].matched /\ g.number = got[q].number /\ g.blacklist = got[q].blacklist
    BY <1>0 DEF Answers
  <2> HIDE DEF g
  <2>4. g.number > 0 => Shows(g, f, "countries", Z)
    BY <1>1, <2>1, <2>2, <2>3 DEF InSight, Shows
  <2> QED
    BY <1>0, <1>1, <2>1, <2>3, <2>4, AnswerSight DEF InSight
<1>7. CASE CountriesOffered(q)
  <2> DEFINE x == {CountryOf[p] : p \in Visible} \ {COUNTRY_UNKNOWN}
             g == [got[q] EXCEPT !.countries = x]
  <2>1. Answer(q, "countries", g, "unknown") /\ pc[q] = "countries"
    BY <1>7 DEF CountriesOffered, Answer
  <2>2. \A p \in Z : CountryOf[p] # COUNTRY_UNKNOWN => CountryOf[p] \in x
    BY <1>0
  <2> HIDE DEF x
  <2>3. /\ g.countries = x /\ g.employers = got[q].employers /\ g.postings = got[q].postings
        /\ g.by_status = got[q].by_status
        /\ g.matched = got[q].matched /\ g.number = got[q].number /\ g.blacklist = got[q].blacklist
    BY <1>0 DEF Answers
  <2> HIDE DEF g
  <2>4. g.number > 0 => Shows(g, f, "unknown", Z)
    BY <1>1, <2>1, <2>2, <2>3 DEF InSight, Shows
  <2> QED
    BY <1>0, <1>1, <2>1, <2>3, <2>4, AnswerSight DEF InSight
<1>8. CASE UnknownOffered(q)
  <2> DEFINE u == \E p \in Visible : CountryOf[p] = COUNTRY_UNKNOWN
             g == [got[q] EXCEPT !.unknown = u]
  <2>1. Answer(q, "unknown", g, "done") /\ pc[q] = "unknown"
    BY <1>8 DEF UnknownOffered, Answer
  <2>2. \A p \in Z : CountryOf[p] = COUNTRY_UNKNOWN => u
    BY <1>0
  <2> HIDE DEF u
  <2>3. /\ g.unknown = u /\ g.countries = got[q].countries /\ g.employers = got[q].employers
        /\ g.postings = got[q].postings /\ g.by_status = got[q].by_status
        /\ g.matched = got[q].matched /\ g.number = got[q].number /\ g.blacklist = got[q].blacklist
    BY <1>0 DEF Answers
  <2> HIDE DEF g
  <2>4. g.number > 0 => Shows(g, f, "done", Z)
    BY <1>1, <2>1, <2>2, <2>3 DEF InSight, Shows
  <2> QED
    BY <1>0, <1>1, <2>1, <2>3, <2>4, AnswerSight DEF InSight
<1> QED
  BY <1>2, <1>3, <1>4, <1>5, <1>6, <1>7, <1>8

\* The reports owe the list nothing; the blacklist page names nobody in sight.
LEMMA ReportsSight ==
  ASSUME KInv, NEW q \in Readers, Rank(q) \/ Breakdown(q) \/ Tally(q) \/ Overlap(q) \/ Blacklisted(q)
  PROVE  KInv'
<1>0. FInv' /\ FInv /\ got[q] \in Answers /\ got[q].number = 0
  <2>1. FInv /\ FInv' /\ got[q] \in Answers
    BY RankFigures, BreakdownFigures, OtherReportsFigures DEF KInv, FInv, IInv, ReadsTyped
  <2>2. pc[q] \in {"rank", "breakdown", "tally", "overlap", "blacklist"}
    BY DEF Rank, Breakdown, Tally, Overlap, Blacklisted, Answer
  <2>3. got[q].number = 0
    BY <2>1, <2>2 DEF FInv, NothingYet, Firsts, NoAnswer
  <2> QED
    BY <2>1, <2>3
<1>1. \A x \in got[q].blacklist : x.postings \cap steady[q] = {}
  BY DEF KInv, InSight
<1>2. ASSUME NEW at, NEW g, NEW next, Answer(q, at, g, next), g.number = got[q].number,
             g.blacklist = got[q].blacklist
      PROVE  KInv'
  BY <1>0, <1>1, <1>2, AnswerSight
<1>3. CASE Rank(q)
  <2>1. PICK S \in SUBSET Hiring(q), next \in {"done", "breakdown"} :
          Answer(q, "rank", [got[q] EXCEPT !.ranked = {[employer |-> e, postings |-> RolesOf(e)] : e \in S}], next)
    BY <1>3 DEF Rank
  <2> DEFINE R == {[employer |-> e, postings |-> RolesOf(e)] : e \in S}
             g == [got[q] EXCEPT !.ranked = R]
  <2>2. Answer(q, "rank", g, next)
    BY <2>1
  <2> HIDE DEF R
  <2>3. g.number = got[q].number /\ g.blacklist = got[q].blacklist
    BY <1>0 DEF Answers
  <2> QED
    BY <1>2, <2>2, <2>3
<1>4. CASE Breakdown(q)
  <2> DEFINE B == {<<p, status[p]>> : p \in UNION {RolesOf(e) : e \in IdsShown(q)}}
             g == [got[q] EXCEPT !.breakdown = B]
  <2>1. Answer(q, "breakdown", g, "done")
    BY <1>4 DEF Breakdown
  <2> HIDE DEF B
  <2>2. g.number = got[q].number /\ g.blacklist = got[q].blacklist
    BY <1>0 DEF Answers
  <2> QED
    BY <1>2, <2>1, <2>2
<1>5. CASE Tally(q)
  <2> DEFINE profiles == IF ask[q].everything THEN Profiles ELSE Profiles \ Disabled
             T == {<<x[1], x[2], status[x[2]]>> :
                     x \in {y \in profiles \X Existing : y[2] \in SurfacedBy[y[1]]}}
             g == [got[q] EXCEPT !.tallied = T]
  <2>1. Answer(q, "tally", g, "done")
    BY <1>5 DEF Tally
  <2> HIDE DEF T
  <2>2. g.number = got[q].number /\ g.blacklist = got[q].blacklist
    BY <1>0 DEF Answers
  <2> QED
    BY <1>2, <2>1, <2>2
<1>6. CASE Overlap(q)
  <2> DEFINE g == [got[q] EXCEPT !.overlap = OverlapNow]
  <2>1. Answer(q, "overlap", g, "done")
    BY <1>6 DEF Overlap, OverlapNow
  <2>2. g.number = got[q].number /\ g.blacklist = got[q].blacklist
    BY <1>0 DEF Answers
  <2> QED
    BY <1>2, <2>1, <2>2
<1>7. CASE Blacklisted(q)
  <2> DEFINE g == [got[q] EXCEPT !.blacklist = BlacklistNow]
  <2>1. Answer(q, "blacklist", g, "done")
    BY <1>7 DEF Blacklisted, BlacklistNow
  <2>2. g.number = 0 /\ g.blacklist = BlacklistNow
    BY <1>0 DEF Answers
  <2>3. \A x \in BlacklistNow : x.postings \cap Visible = {}
    BY DEF BlacklistNow, RolesOf, Visible, not_suppressed
  <2>4. steady[q] \subseteq Visible
    BY DEF KInv, InSight
  <2>5. \A x \in BlacklistNow : x.postings \cap steady[q] = {}
    BY <2>3, <2>4
  <2> HIDE DEF g
  <2> QED
    BY <1>0, <2>1, <2>2, <2>5, AnswerSight
<1> QED
  BY <1>3, <1>4, <1>5, <1>6, <1>7

LEMMA StepKInv == KInv /\ [Next]_vars => KInv'
BY WriterSight, ArrivalSight, ListSight, ReportsSight DEF Next, Statement

\* A posting out of the blacklist's reach while a page is rendered, and unmoved, is
\* counted on it as the operator last judged it, however its employer was blacklisted and
\* lifted, and it triaged, before: blacklist and lift write the employer alone
\* (services/blacklist.py), and every statement asks the flag as it stands.
THEOREM LiftsBringBack == Spec => []LiftBringsBack
<1>1. KInv => LiftBringsBack
  <2> SUFFICES ASSUME KInv, NEW q \in Readers, pc[q] = "done"
               PROVE  LET g == got[q]
                          f == ask[q].filter
                          sought == {p \in steady[q] : /\ f.status = AnyStatus \/ judged[p] = f.status
                                                       /\ f.country = AnyCountry \/ CountryOf[p] = f.country
                                                       /\ f.source = AnySource \/ f.source \in DOMAIN SourcesOf[p]}
                      IN /\ g.number > 0 =>
                              /\ sought \subseteq g.matched
                              /\ \A p \in steady[q] :
                                   /\ <<p, judged[p]>> \in g.by_status /\ p \in g.postings
                                   /\ EmployerOf[p] \in g.employers
                                   /\ IF CountryOf[p] = COUNTRY_UNKNOWN THEN g.unknown ELSE CountryOf[p] \in g.countries
                         /\ \A x \in g.blacklist : x.postings \cap steady[q] = {}
    BY DEF LiftBringsBack
  <2>1. InSight(q) /\ judged = status
    BY DEF KInv
  <2>2. \A f : {p \in steady[q] : /\ f.status = AnyStatus \/ judged[p] = f.status
                                  /\ f.country = AnyCountry \/ CountryOf[p] = f.country
                                  /\ f.source = AnySource \/ f.source \in DOMAIN SourcesOf[p]}
               \subseteq steady[q] \cap Where(f)
    BY <2>1 DEF InSight, Where
  <2>3. got[q].number > 0 => Shows(got[q], ask[q].filter, "done", steady[q])
    BY <2>1 DEF InSight
  <2> QED
    BY <2>1, <2>2, <2>3
       DEF InSight, Shows, FromRows, FromByStatus, FromTotal, FromEmployers, FromCountries
<1> QED
  BY <1>1, InitKInv, StepKInv, PTL DEF Spec

===============================================================================
