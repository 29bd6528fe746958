---------------------------- MODULE SchedulerProofs ----------------------------
(***************************************************************************)
(* What Scheduler.tla guarantees for any number of profiles, edits, polls, *)
(* errors and restarts.  The signature is read in one transaction and the  *)
(* profiles in another, with edits between; what makes that safe is that a *)
(* profile's updated_at names one version of its row and never comes back. *)
(* So a profile whose updated_at is the one in the signature is what it    *)
(* was when the signature was read, and was it at every moment between.    *)
(***************************************************************************)
EXTENDS Scheduler, WellFoundedInduction, TLAPS

\* The transaction that stamped a row with u is over.
Over(u) == u = Nobody \/ (u \in Editors /\ editor[u].at = "done")

\* A poll has filed a signature, and the process still has it.
Filed == pc \in {"remove", "add"} \/ (pc = "idle" /\ (torn \/ signature # Unset))

\* Row p is the version the signature was read from.
AsFiled(p) == <<p, rows[p].updated_at>> \in signature

Single(S) == \A x, y \in S : x[1] = y[1] => x = y

VersionsOver == \A p \in DOMAIN rows : Over(rows[p].updated_at)

\* The signature is that of the profiles last polled: the same ids, and a row
\* that still has the version filed is as it was polled.
SignatureStands ==
  Filed =>
    /\ \A x \in signature : x[1] \in born /\ Over(x[2])
    /\ {x[1] : x \in signature} = {y[1] : y \in polled}
    /\ \A p \in DOMAIN rows : AsFiled(p) => rows[p].enabled /\ <<p, rows[p].time>> \in polled
    /\ Single(polled)

\* What _register_jobs read and has not added has no job yet.
SpecsFit ==
  /\ pc # "add" => specs = {}
  /\ Single(specs)
  /\ \A x \in specs : jobs[x[1]] = NoTime

\* A profile that is still as filed has its job, or is about to.
FiledHaveJobs ==
  Filed /\ (pc = "add" \/ (pc = "idle" /\ ~cut)) =>
    \A p \in DOMAIN rows : AsFiled(p) => <<p, rows[p].time>> \in Registered \cup specs

\* A registration that read the state the signature was taken from.
WholeRegistration == pc = "add" /\ ~torn => Registered \cup specs = polled

DownIsBlank == pc = "down" => ~torn

IInv == /\ TypeOK
        /\ VersionsOver
        /\ SignatureStands
        /\ SpecsFit
        /\ FiledHaveJobs
        /\ WholeRegistration
        /\ DownIsBlank
        /\ JobsMirrorProfiles

-------------------------------------------------------------------------------
\* What the signature tells.

LEMMA LeastId ==
  ASSUME NEW T \in SUBSET Nat, T # {}
  PROVE  \E x \in T : \A y \in T : x <= y
<1> DEFINE Less == {ss \in Nat \X Nat : ss[1] < ss[2]}
<1>1. IsWellFoundedOn(Less, Nat)
  BY NatLessThanWellFounded DEF OpToRel
<1> HIDE DEF Less
<1>2. PICK x \in T : \A y \in T : ~ (<<y, x>> \in Less)
  BY <1>1, WFMin
<1>3. \A y \in T : ~(y < x)
  BY <1>2 DEF Less
<1> QED
  BY <1>2, <1>3

LEMMA EnabledFacts ==
  ASSUME TypeOK
  PROVE  /\ Enabled \subseteq born \X Times
         /\ Single(Enabled)
         /\ \A x \in _profile_signature : x[1] \in DOMAIN rows /\ x[2] = rows[x[1]].updated_at
         /\ \A p \in DOMAIN rows : <<p, rows[p].updated_at>> \in _profile_signature <=> rows[p].enabled
         /\ {x[1] : x \in _profile_signature} = {y[1] : y \in Enabled}
<1> USE DEF Enabled, _profile_signature, list_enabled
<1>1. Enabled \subseteq born \X Times
  BY DEF TypeOK, Row
<1>2. Single(Enabled)
  BY DEF Single
<1>3. {x[1] : x \in _profile_signature} = {y[1] : y \in Enabled}
  <2> HIDE DEF list_enabled
  <2> DEFINE vs(p) == <<p, rows[p].updated_at>>
             ts(p) == <<p, rows[p].time>>
  <2>1. _profile_signature = {vs(p) : p \in list_enabled} /\ \A p : vs(p)[1] = p
    OBVIOUS
  <2>2. Enabled = {ts(p) : p \in list_enabled} /\ \A p : ts(p)[1] = p
    OBVIOUS
  <2> HIDE DEF vs, ts, Enabled, _profile_signature
  <2>3. {x[1] : x \in _profile_signature} = list_enabled
    BY <2>1
  <2>4. {y[1] : y \in Enabled} = list_enabled
    BY <2>2
  <2> QED
    BY <2>3, <2>4
<1> QED
  BY <1>1, <1>2, <1>3

\* Two moments with one signature have the same profiles enabled, at the same times.
LEMMA SignatureTells ==
  ASSUME TypeOK, SignatureStands, Filed, signature = _profile_signature
  PROVE  Enabled = polled
<1>1. \A p \in list_enabled : p \in DOMAIN rows /\ AsFiled(p)
  BY DEF _profile_signature, AsFiled, list_enabled
<1>2. Enabled \subseteq polled
  BY <1>1 DEF SignatureStands, Enabled
<1>3. ASSUME NEW y \in polled  PROVE y \in Enabled
  <2>1. PICK x \in signature : x[1] = y[1]
    BY DEF SignatureStands
  <2>2. x[1] \in list_enabled
    BY <2>1 DEF _profile_signature
  <2>3. <<x[1], rows[x[1]].time>> \in polled /\ <<x[1], rows[x[1]].time>> \in Enabled
    BY <1>2, <2>2 DEF Enabled
  <2>4. y = <<x[1], rows[x[1]].time>>
    BY <2>1, <2>3 DEF SignatureStands, Single
  <2> QED
    BY <2>3, <2>4
<1> QED
  BY <1>2, <1>3

-------------------------------------------------------------------------------
\* The invariant is inductive.

LEMMA InitIInv == Init => IInv
<1> SUFFICES ASSUME Init PROVE IInv
  OBVIOUS
<1> USE SchedulerAssumption DEF Init
<1>1. PICK S \in SUBSET born, f \in [born -> Fields] :
        rows = [p \in S |-> [enabled |-> f[p].enabled, time |-> f[p].time, updated_at |-> Nobody]]
  OBVIOUS
<1>2. rows \in [DOMAIN rows -> Row] /\ DOMAIN rows \subseteq born
      /\ \A p \in DOMAIN rows : rows[p].updated_at = Nobody
  BY <1>1 DEF Row, Fields
<1>3. editor \in [Editors -> Request]
  BY DEF Request
<1>4. TypeOK
  <2>1. Registered = {} /\ specs \subseteq born \X Times /\ jobs \in [Profiles -> Times \cup {NoTime}]
    BY DEF Registered
  <2>2. faults \in 0..MaxFaults /\ crashes \in 0..MaxCrashes
    OBVIOUS
  <2> QED
    BY <1>2, <1>3, <2>1, <2>2 DEF TypeOK
<1>5. VersionsOver
  BY <1>2 DEF VersionsOver, Over
<1>6. SpecsFit
  BY DEF SpecsFit, Single
<1> QED
  BY <1>4, <1>5, <1>6 DEF IInv, SignatureStands, Filed, FiledHaveJobs, WholeRegistration,
                          DownIsBlank, JobsMirrorProfiles

\* An edit leaves a row alone or gives it a version no signature has.
LEMMA EditFrame ==
  ASSUME IInv, TypeOK', NEW a \in Editors, editor[a].at # "done",
         UNCHANGED <<process, history>>, born \subseteq born',
         \A u : Over(u) => Over(u)',
         \A p \in DOMAIN rows' : \/ p \in DOMAIN rows /\ rows'[p] = rows[p]
                                 \/ rows'[p].updated_at = a /\ Over(a)'
  PROVE  IInv'
<1> USE DEF IInv, process, history
<1>1. VersionsOver'
  BY DEF VersionsOver
<1>2. ASSUME Filed, NEW p \in DOMAIN rows', AsFiled(p)'
      PROVE  p \in DOMAIN rows /\ rows'[p] = rows[p] /\ AsFiled(p)
  <2>1. rows'[p].updated_at # a
    <3> SUFFICES ASSUME rows'[p].updated_at = a PROVE FALSE
      OBVIOUS
    <3>1. <<p, a>> \in signature
      BY <1>2 DEF AsFiled
    <3>2. Over(a)
      BY <1>2, <3>1 DEF SignatureStands
    <3> QED
      BY <3>2, SchedulerAssumption DEF Over
  <2> QED
    BY <1>2, <2>1 DEF AsFiled
<1>3. SignatureStands'
  <2> SUFFICES ASSUME Filed PROVE SignatureStands'
    BY DEF SignatureStands, Filed
  <2>1. \A x \in signature : x[1] \in born' /\ Over(x[2])'
    BY DEF SignatureStands
  <2>2. \A p \in DOMAIN rows' : AsFiled(p)' => rows'[p].enabled /\ <<p, rows'[p].time>> \in polled
    BY <1>2 DEF SignatureStands
  <2> QED
    BY <2>1, <2>2 DEF SignatureStands
<1>4. FiledHaveJobs'
  BY <1>2 DEF FiledHaveJobs, Filed, Registered
<1>5. SpecsFit' /\ WholeRegistration' /\ DownIsBlank' /\ JobsMirrorProfiles'
  BY DEF SpecsFit, WholeRegistration, DownIsBlank, JobsMirrorProfiles, Registered
<1> QED
  BY <1>1, <1>3, <1>4, <1>5

LEMMA FinishEnds ==
  ASSUME TypeOK, NEW a \in Editors, Finish(a)
  PROVE  /\ editor' \in [Editors -> Request]
         /\ \A u : Over(u) => Over(u)'
         /\ Over(a)'
<1>1. [at |-> "done"] \in Request
  BY DEF Request
<1>2. editor' = [editor EXCEPT ![a] = [at |-> "done"]]
  BY DEF Finish
<1> QED
  BY <1>1, <1>2 DEF TypeOK, Over

LEMMA StampedIsRow ==
  ASSUME NEW a \in Editors, NEW f, f.enabled \in BOOLEAN, f.time \in Times
  PROVE  Stamped(a, f) \in Row /\ Stamped(a, f).updated_at = a
<1> QED
  BY DEF Stamped, Row

LEMMA CreateStep ==
  ASSUME IInv, NEW a \in Editors, NEW p \in Profiles, NEW f \in Fields, Create(a, p, f)
  PROVE  IInv'
<1> USE DEF Create, process, history
<1>1. Stamped(a, f) \in Row /\ Stamped(a, f).updated_at = a
  BY StampedIsRow DEF Fields
<1>2. editor' \in [Editors -> Request] /\ (\A u : Over(u) => Over(u)') /\ Over(a)'
  BY FinishEnds DEF IInv
<1>3. DOMAIN rows' = DOMAIN rows \cup {p} /\ rows'[p] = Stamped(a, f)
      /\ \A q \in DOMAIN rows : q # p => rows'[q] = rows[q]
  OBVIOUS
<1>4. rows' \in [DOMAIN rows' -> Row]
  BY <1>1 DEF IInv, TypeOK
<1>5. TypeOK'
  BY <1>2, <1>3, <1>4 DEF IInv, TypeOK, Registered
<1>6. \A q \in DOMAIN rows' : \/ q \in DOMAIN rows /\ rows'[q] = rows[q]
                              \/ rows'[q].updated_at = a /\ Over(a)'
  BY <1>1, <1>2, <1>3
<1> QED
  BY <1>2, <1>5, <1>6, EditFrame

LEMMA EditReadStep ==
  ASSUME IInv, NEW a \in Editors, NEW p \in Profiles, NEW f \in Fields, NEW rest \in BOOLEAN,
         EditRead(a, p, f, rest)
  PROVE  IInv'
<1> USE DEF EditRead, process, history
<1>1. editor' \in [Editors -> Request]
  <2>1. [enabled |-> rows[p].enabled, time |-> rows[p].time] \in Fields
    BY DEF IInv, TypeOK, Row, Fields
  <2>2. [at |-> "write", profile |-> p, want |-> f, rest |-> rest,
         saw |-> [enabled |-> rows[p].enabled, time |-> rows[p].time]] \in Request
    BY <2>1 DEF Request
  <2> QED
    BY <2>2 DEF IInv, TypeOK
<1>2. TypeOK'
  BY <1>1 DEF IInv, TypeOK, Registered
<1>3. \A u : Over(u) => Over(u)'
  BY DEF Over, IInv, TypeOK
<1> QED
  BY <1>2, <1>3, EditFrame

LEMMA EditWriteStep ==
  ASSUME IInv, NEW a \in Editors, EditWrite(a)
  PROVE  IInv'
<1> USE DEF process, history
<1> DEFINE p == editor[a].profile
<1>1. editor[a].at = "write" /\ Finish(a) /\ UNCHANGED <<born, process, faults, crashes, history>>
      /\ \/ p \in DOMAIN rows /\ rows' = [rows EXCEPT ![p] = Merged(a, @)]
         \/ rows' = rows
  BY DEF EditWrite
<1>2. editor' \in [Editors -> Request] /\ (\A u : Over(u) => Over(u)') /\ Over(a)'
  BY <1>1, FinishEnds DEF IInv
<1>3. ASSUME NEW q \in DOMAIN rows  PROVE Merged(a, rows[q]) \in Row /\ Merged(a, rows[q]).updated_at = a
  <2>1. rows[q] \in Row /\ editor[a].want \in Fields
    BY <1>1 DEF IInv, TypeOK, Request
  <2> DEFINE f == [enabled |-> IF editor[a].want.enabled # editor[a].saw.enabled
                               THEN editor[a].want.enabled ELSE rows[q].enabled,
                   time |-> IF editor[a].want.time # editor[a].saw.time
                            THEN editor[a].want.time ELSE rows[q].time]
  <2>2. Merged(a, rows[q]) = Stamped(a, f)
    BY DEF Merged
  <2>3. f.enabled \in BOOLEAN /\ f.time \in Times
    BY <2>1 DEF Row, Fields
  <2> HIDE DEF f
  <2> QED
    BY <2>2, <2>3, StampedIsRow
<1>4. TypeOK'
  <2>1. rows' \in [DOMAIN rows' -> Row] /\ DOMAIN rows' = DOMAIN rows
    BY <1>1, <1>3 DEF IInv, TypeOK
  <2> QED
    BY <1>1, <1>2, <2>1 DEF IInv, TypeOK, Registered
<1>5. \A q \in DOMAIN rows' : \/ q \in DOMAIN rows /\ rows'[q] = rows[q]
                              \/ rows'[q].updated_at = a /\ Over(a)'
  BY <1>1, <1>2, <1>3 DEF IInv, TypeOK
<1> QED
  BY <1>1, <1>2, <1>4, <1>5, EditFrame

LEMMA DeleteStep ==
  ASSUME IInv, NEW a \in Editors, NEW p \in Profiles, Delete(a, p)
  PROVE  IInv'
<1> USE DEF Delete, process, history
<1>1. editor' \in [Editors -> Request] /\ (\A u : Over(u) => Over(u)') /\ Over(a)'
  BY FinishEnds DEF IInv
<1>2. TypeOK'
  <2>1. rows' \in [DOMAIN rows' -> Row] /\ DOMAIN rows' \subseteq DOMAIN rows
    BY DEF IInv, TypeOK
  <2> QED
    BY <1>1, <2>1 DEF IInv, TypeOK, Registered
<1>3. \A q \in DOMAIN rows' : q \in DOMAIN rows /\ rows'[q] = rows[q]
  OBVIOUS
<1> QED
  BY <1>1, <1>2, <1>3, EditFrame

LEMMA StartStep ==
  ASSUME IInv, Start
  PROVE  IInv'
<1> USE DEF IInv, Start, tables, history
<1>1. TypeOK' /\ VersionsOver' /\ SpecsFit' /\ WholeRegistration' /\ DownIsBlank'
  BY DEF TypeOK, Registered, VersionsOver, Over, SpecsFit, WholeRegistration, DownIsBlank
<1>2. ~Filed' /\ signature' = Unset
  BY DEF Filed, TypeOK, DownIsBlank
<1>3. SignatureStands' /\ FiledHaveJobs' /\ JobsMirrorProfiles'
  BY <1>2 DEF SignatureStands, FiledHaveJobs, JobsMirrorProfiles
<1> QED
  BY <1>1, <1>3

LEMMA ReloadStep ==
  ASSUME IInv, Reload
  PROVE  IInv'
<1> USE DEF IInv, tables
<1>1. /\ pc = "idle" /\ polled' = Enabled
      /\ UNCHANGED <<rows, born, editor, booted, specs, jobs, faults, crashes, torn, cut>>
      /\ \/ Changed /\ signature' = _profile_signature /\ pc' = "remove"
         \/ ~Changed /\ signature' = signature /\ pc' = pc
  BY DEF Reload
<1>2. TypeOK' /\ VersionsOver' /\ SpecsFit' /\ WholeRegistration' /\ DownIsBlank'
  BY <1>1 DEF TypeOK, Registered, VersionsOver, Over, SpecsFit, WholeRegistration, DownIsBlank
<1>3. signature' = _profile_signature
  BY <1>1 DEF Changed
<1>4. SignatureStands'
  <2>1. \A x \in signature' : x[1] \in born' /\ Over(x[2])'
    BY <1>1, <1>3, EnabledFacts DEF VersionsOver, Over, TypeOK
  <2>2. {x[1] : x \in signature'} = {y[1] : y \in polled'} /\ Single(polled')
    BY <1>1, <1>3, EnabledFacts
  <2>3. \A p \in DOMAIN rows : <<p, rows[p].updated_at>> \in _profile_signature =>
                                 rows[p].enabled /\ <<p, rows[p].time>> \in Enabled
    BY EnabledFacts DEF Enabled, list_enabled
  <2>4. \A p \in DOMAIN rows' : AsFiled(p)' => rows'[p].enabled /\ <<p, rows'[p].time>> \in polled'
    BY <1>1, <1>3, <2>3 DEF AsFiled
  <2> QED
    BY <2>1, <2>2, <2>4 DEF SignatureStands
<1>5. FiledHaveJobs'
  BY <1>1 DEF FiledHaveJobs, Filed, AsFiled, Registered
<1>6. JobsMirrorProfiles'
  <2> SUFFICES ASSUME pc' = "idle", signature # Unset, ~cut, ~torn, ~Changed, signature' = signature
               PROVE  Registered = Enabled
    BY <1>1 DEF JobsMirrorProfiles, Registered
  <2>1. Filed
    BY <1>1 DEF Filed
  <2>2. Enabled = polled
    BY <2>1, SignatureTells DEF Changed
  <2> QED
    BY <1>1, <2>2 DEF JobsMirrorProfiles
<1> QED
  BY <1>2, <1>4, <1>5, <1>6

LEMMA RemoveJobStep ==
  ASSUME IInv, NEW p \in Profiles, RemoveJob(p)
  PROVE  IInv'
<1> USE DEF IInv, RemoveJob, tables, history
<1>1. TypeOK' /\ VersionsOver'
  BY DEF TypeOK, VersionsOver, Over
<1>2. SignatureStands'
  BY DEF SignatureStands, Filed, AsFiled, Over
<1>3. SpecsFit' /\ FiledHaveJobs' /\ WholeRegistration' /\ DownIsBlank' /\ JobsMirrorProfiles'
  BY DEF SpecsFit, FiledHaveJobs, WholeRegistration, DownIsBlank, JobsMirrorProfiles
<1> QED
  BY <1>1, <1>2, <1>3

\* What is read is the state of now; the flag tells whether the signature is too.
LEMMA ReadSpecsStep ==
  ASSUME IInv, ReadSpecs
  PROVE  IInv'
<1> USE DEF IInv, ReadSpecs, SpecsRead, tables
<1>1. TypeOK' /\ VersionsOver' /\ DownIsBlank'
  BY EnabledFacts DEF TypeOK, VersionsOver, Over, DownIsBlank, Registered
<1>2. SignatureStands' /\ Filed
  BY DEF SignatureStands, Filed, AsFiled, Over
<1>3. SpecsFit'
  <2>1. Single(Enabled) /\ \A x \in Enabled : x[1] \in Profiles
    BY EnabledFacts DEF TypeOK
  <2>2. \A q \in Profiles : jobs[q] = NoTime
    BY DEF Registered
  <2> QED
    BY <2>1, <2>2 DEF SpecsFit
<1>4. FiledHaveJobs'
  <2>1. \A p \in DOMAIN rows : AsFiled(p) => <<p, rows[p].time>> \in Enabled
    BY <1>2 DEF SignatureStands, Enabled, list_enabled
  <2> QED
    BY <2>1 DEF FiledHaveJobs, AsFiled
<1>5. WholeRegistration'
  <2> SUFFICES ASSUME ~torn' PROVE Registered' \cup specs' = polled
    BY DEF WholeRegistration
  <2>1. Enabled = polled
    BY <1>2, SignatureTells
  <2> QED
    BY <2>1 DEF Registered
<1>6. JobsMirrorProfiles'
  BY DEF JobsMirrorProfiles
<1> QED
  BY <1>1, <1>2, <1>3, <1>4, <1>5, <1>6

LEMMA AddJobStep ==
  ASSUME IInv, AddJob
  PROVE  IInv'
<1> USE SchedulerAssumption DEF IInv, tables, history
<1> DEFINE x == CHOOSE y \in specs : \A z \in specs : y[1] <= z[1]
<1>1. x \in specs
  <2> DEFINE ids == {y[1] : y \in specs}
  <2>1. ids \in SUBSET Nat /\ ids # {}
    BY DEF TypeOK, AddJob
  <2> HIDE DEF ids
  <2>2. PICK i \in ids : \A j \in ids : i <= j
    BY <2>1, LeastId
  <2>3. \E y \in specs : \A z \in specs : y[1] <= z[1]
    BY <2>2 DEF ids
  <2> QED
    BY <2>3
<1>2. /\ pc = "add" /\ jobs' = [jobs EXCEPT ![x[1]] = x[2]] /\ specs' = specs \ {x}
      /\ UNCHANGED <<rows, born, editor, pc, booted, signature, faults, crashes, polled, torn, cut>>
  BY DEF AddJob
<1> HIDE DEF x
<1>3. x[1] \in born /\ x[1] \in Profiles /\ x[2] \in Times /\ x = <<x[1], x[2]>> /\ jobs[x[1]] = NoTime
  BY <1>1 DEF TypeOK, SpecsFit
<1>4. Registered' = Registered \cup {x}
  <2>1. \A q \in Profiles : jobs'[q] = IF q = x[1] THEN x[2] ELSE jobs[q]
    BY <1>2, <1>3 DEF TypeOK
  <2>2. Registered' \subseteq Registered \cup {x}
    BY <1>3, <2>1 DEF Registered
  <2>3. Registered \cup {x} \subseteq Registered'
    BY <1>3, <2>1 DEF Registered
  <2> QED
    BY <2>2, <2>3
<1>5. Registered' \cup specs' = Registered \cup specs
  BY <1>1, <1>2, <1>4
<1>6. TypeOK' /\ VersionsOver' /\ DownIsBlank'
  BY <1>2, <1>3 DEF TypeOK, VersionsOver, Over, DownIsBlank
<1>7. SignatureStands'
  BY <1>2 DEF SignatureStands, Filed, AsFiled, Over
<1>8. SpecsFit'
  BY <1>1, <1>2, <1>3 DEF SpecsFit, Single, TypeOK
<1>9. FiledHaveJobs' /\ WholeRegistration' /\ JobsMirrorProfiles'
  BY <1>2, <1>5 DEF FiledHaveJobs, Filed, AsFiled, WholeRegistration, JobsMirrorProfiles
<1> QED
  BY <1>6, <1>7, <1>8, <1>9

LEMMA AddedStep ==
  ASSUME IInv, Added
  PROVE  IInv'
<1> USE DEF IInv, Added, tables, history
<1>1. TypeOK' /\ VersionsOver' /\ SpecsFit' /\ DownIsBlank' /\ WholeRegistration'
  BY DEF TypeOK, Registered, VersionsOver, Over, SpecsFit, DownIsBlank, WholeRegistration
<1>2. SignatureStands'
  BY DEF SignatureStands, Filed, AsFiled, Over
<1>3. FiledHaveJobs' /\ JobsMirrorProfiles'
  BY DEF FiledHaveJobs, Filed, AsFiled, WholeRegistration, JobsMirrorProfiles, Registered
<1> QED
  BY <1>1, <1>2, <1>3

\* A process that has lost its memory has nothing to keep in step.
LEMMA LostStep ==
  ASSUME IInv, Lost, UNCHANGED tables, faults' \in 0..MaxFaults, crashes' \in 0..MaxCrashes
  PROVE  IInv'
<1> USE DEF IInv, Lost, tables
<1>1. Registered' = {}
  BY DEF Registered
<1>2. TypeOK' /\ VersionsOver'
  BY <1>1 DEF TypeOK, VersionsOver, Over
<1>3. SignatureStands' /\ FiledHaveJobs' /\ SpecsFit' /\ WholeRegistration' /\ DownIsBlank'
      /\ JobsMirrorProfiles'
  BY DEF SignatureStands, FiledHaveJobs, Filed, SpecsFit, Single, WholeRegistration, DownIsBlank,
         JobsMirrorProfiles
<1> QED
  BY <1>2, <1>3

LEMMA ReadFailsStep ==
  ASSUME IInv, ReadFails
  PROVE  IInv'
<1>1. faults' \in 0..MaxFaults /\ crashes' \in 0..MaxCrashes /\ UNCHANGED tables
  <2>1. faults \in 0..MaxFaults /\ crashes \in 0..MaxCrashes
    BY DEF IInv, TypeOK
  <2> QED
    BY <2>1, SchedulerAssumption DEF ReadFails
<1>2. CASE Lost
  BY <1>1, <1>2, LostStep
<1>3. CASE ~Lost
  <2>1. /\ pc \in {"idle", "remove"} /\ pc' = "idle" /\ cut' = (cut \/ pc = "remove")
        /\ UNCHANGED <<rows, born, editor, booted, signature, specs, jobs, polled, torn>>
    BY <1>1, <1>3 DEF ReadFails, tables
  <2> USE DEF IInv
  <2>2. TypeOK' /\ VersionsOver' /\ SpecsFit' /\ DownIsBlank' /\ WholeRegistration'
    BY <1>1, <2>1 DEF TypeOK, Registered, VersionsOver, Over, SpecsFit, DownIsBlank, WholeRegistration
  <2>3. SignatureStands'
    BY <2>1 DEF SignatureStands, Filed, AsFiled, Over
  <2>4. FiledHaveJobs' /\ JobsMirrorProfiles'
    BY <2>1 DEF FiledHaveJobs, Filed, AsFiled, JobsMirrorProfiles, Registered
  <2> QED
    BY <2>2, <2>3, <2>4
<1> QED
  BY <1>2, <1>3

LEMMA CrashStep ==
  ASSUME IInv, Crash
  PROVE  IInv'
<1>1. faults' \in 0..MaxFaults /\ crashes' \in 0..MaxCrashes
  <2>1. faults \in 0..MaxFaults /\ crashes \in 0..MaxCrashes
    BY DEF IInv, TypeOK
  <2> QED
    BY <2>1, SchedulerAssumption DEF Crash
<1> QED
  BY <1>1, LostStep DEF Crash

LEMMA StutterStep ==
  ASSUME IInv, UNCHANGED vars
  PROVE  IInv'
<1> USE DEF vars, tables, process, history, IInv
<1>1. TypeOK' /\ VersionsOver' /\ SpecsFit' /\ DownIsBlank'
  BY DEF TypeOK, Registered, VersionsOver, Over, SpecsFit, DownIsBlank
<1>2. SignatureStands' /\ FiledHaveJobs'
  BY DEF SignatureStands, FiledHaveJobs, Filed, AsFiled, Over, Registered
<1>3. WholeRegistration' /\ JobsMirrorProfiles'
  BY DEF WholeRegistration, JobsMirrorProfiles, Registered
<1> QED
  BY <1>1, <1>2, <1>3

LEMMA StepIInv == IInv /\ [Next]_vars => IInv'
<1> SUFFICES ASSUME IInv, [Next]_vars PROVE IInv'
  OBVIOUS
<1>1. ASSUME NEW a \in Editors, Edit(a)  PROVE IInv'
  <2>1. ASSUME NEW p \in Profiles, NEW f \in Fields,
               Create(a, p, f) \/ EditRead(a, p, f, TRUE) \/ EditRead(a, p, f, FALSE)
        PROVE  IInv'
    BY <2>1, CreateStep, EditReadStep
  <2>2. ASSUME NEW p \in Profiles, Delete(a, p)  PROVE IInv'
    BY <2>2, DeleteStep
  <2> QED
    BY <1>1, <2>1, <2>2, EditWriteStep DEF Edit
<1>2. CASE Registration
  BY <1>2, RemoveJobStep, ReadSpecsStep, AddJobStep, AddedStep DEF Registration
<1> QED
  BY <1>1, <1>2, StartStep, ReloadStep, ReadFailsStep, CrashStep, StutterStep DEF Next

-------------------------------------------------------------------------------
\* What follows for every behaviour.

LEMMA SchedulerInvariance == Spec => []IInv
<1> QED
  BY InitIInv, StepIInv, PTL DEF Spec

\* Every variable keeps its type; a process that is down has no job, and an idle
\* one no registration under way.
THEOREM SchedulerTypeCorrect == Spec => []TypeOK
<1>1. IInv => TypeOK
  BY DEF IInv
<1> QED
  BY <1>1, SchedulerInvariance, PTL

\* _reload_if_changed and _register_jobs read the profiles in two transactions;
\* whatever edits fall between, the jobs are those of the profiles last polled,
\* or the registration is one that was cut or torn.
THEOREM JobsAreThoseEnabled == Spec => []JobsMirrorProfiles
<1>1. IInv => JobsMirrorProfiles
  BY DEF IInv
<1> QED
  BY <1>1, SchedulerInvariance, PTL

\* A torn registration that the next poll does not notice has a job for every
\* profile that is enabled, at its time.  It says nothing of the stray job of a
\* profile that was enabled between the reads and is not any more.
THEOREM TornLosesNoJob == Spec => []TornIsNoticed
<1>1. IInv => TornIsNoticed
  <2> SUFFICES ASSUME IInv, pc = "idle", torn, ~cut, ~Changed PROVE Enabled \subseteq Registered
    BY DEF TornIsNoticed
  <2>1. \A p \in list_enabled : p \in DOMAIN rows /\ AsFiled(p)
    BY DEF Changed, _profile_signature, AsFiled, list_enabled
  <2>2. specs = {} /\ Filed
    BY DEF IInv, SpecsFit, Filed
  <2> QED
    BY <2>1, <2>2 DEF IInv, FiledHaveJobs, Enabled
<1> QED
  BY <1>1, SchedulerInvariance, PTL
===============================================================================
