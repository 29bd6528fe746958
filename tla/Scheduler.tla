------------------------------- MODULE Scheduler -------------------------------
(***************************************************************************)
(* How an edit of a search profile reaches the scheduler (scheduler.py,    *)
(* services/profiles.py).  Edits are committed by the web container; the   *)
(* scheduler container learns of them by polling: it compares a signature  *)
(* of the enabled profiles with the one it saw last and, when they differ, *)
(* registers its jobs anew, from a second read.  The jobs and the          *)
(* signature are in memory: a restart begins from neither.                 *)
(*                                                                         *)
(* The fields of a profile that have no bearing on its schedule are left   *)
(* out, and so is the hour's passing: a job that fires is a run of         *)
(* Ingest.tla.                                                             *)
(***************************************************************************)
EXTENDS Naturals, FiniteSets

CONSTANTS Profiles,    \* ids, ascending as the sequence gives them out
          Times,       \* values of (schedule_hour, schedule_minute)
          Editors,     \* requests of the web container, one transaction each; create
                       \* and update hold the event loop of their process, so two of
                       \* those overlap only where a second web process runs
          Nobody,      \* the author of the profiles there are at the start
          NoTime, Unset,
          MaxFaults,   \* bound on transient database errors
          MaxCrashes   \* bound on deaths of the scheduler process

ASSUME SchedulerAssumption ==
  /\ Profiles \subseteq Nat /\ IsFiniteSet(Profiles)
  /\ Nobody \notin Editors /\ NoTime \notin Times
  /\ MaxFaults \in Nat /\ MaxCrashes \in Nat

VARIABLES rows,       \* table search_profiles
          born,       \* ids given out: the sequence is not rolled back
          editor,     \* of a request: its step, its profile, what it read and wants
          pc,         \* of the scheduler process
          booted,     \* build_scheduler has returned
          signature,  \* state["signature"]
          specs,      \* read by _register_jobs, not added yet
          jobs,       \* of a profile: the time its job is registered for
          faults, crashes,
          polled,     \* history: what was enabled when the signature was read
          torn,       \* history: the jobs were read from a later state than it
          cut         \* history: an error ended the registration

tables  == <<rows, born, editor>>
process == <<pc, booted, signature, specs, jobs>>
history == <<polled, torn, cut>>
vars    == <<tables, process, faults, crashes, history>>

Fields == [enabled : BOOLEAN, time : Times]

\* func.now() is the start of a transaction: its author stands for it.
Row == [enabled : BOOLEAN, time : Times, updated_at : Editors \cup {Nobody}]

Request == [at : {"idle", "done"}] \cup
           [at : {"write"}, profile : Profiles, saw : Fields, want : Fields, rest : BOOLEAN]

list_enabled == {p \in DOMAIN rows : rows[p].enabled}
Enabled == {<<p, rows[p].time>> : p \in list_enabled}
Registered == {<<p, jobs[p]>> : p \in {q \in Profiles : jobs[q] # NoTime}}

TypeOK ==
  /\ DOMAIN rows \subseteq born /\ born \subseteq Profiles
  /\ rows \in [DOMAIN rows -> Row]
  /\ editor \in [Editors -> Request]
  /\ pc \in {"down", "idle", "remove", "add"} /\ booted \in BOOLEAN
  /\ specs \subseteq born \X Times
  /\ jobs \in [Profiles -> Times \cup {NoTime}]
  /\ pc = "idle" => specs = {}
  /\ pc = "down" => Registered = {} /\ signature = Unset
  /\ faults \in 0..MaxFaults /\ crashes \in 0..MaxCrashes

Init ==
  /\ born \in SUBSET Profiles /\ \A p \in born, q \in Profiles \ born : p < q
  /\ \E S \in SUBSET born, f \in [born -> Fields] :
       rows = [p \in S |-> [enabled |-> f[p].enabled, time |-> f[p].time, updated_at |-> Nobody]]
  /\ editor = [a \in Editors |-> [at |-> "idle"]]
  /\ pc = "down" /\ booted = FALSE /\ signature = Unset /\ specs = {}
  /\ jobs = [p \in Profiles |-> NoTime]
  /\ faults = 0 /\ crashes = 0
  /\ polled = {} /\ torn = FALSE /\ cut = FALSE

-------------------------------------------------------------------------------
\* The web container.

Stamped(a, fields) ==
  [enabled |-> fields.enabled, time |-> fields.time, updated_at |-> a]

Finish(a) == editor' = [editor EXCEPT ![a] = [at |-> "done"]]

\* create
Create(a, p, fields) ==
  /\ editor[a].at = "idle"
  /\ p \in Profiles \ born /\ \A q \in Profiles \ born : p <= q
  /\ born' = born \cup {p}
  /\ rows' = [q \in DOMAIN rows \cup {p} |-> IF q = p THEN Stamped(a, fields) ELSE rows[q]]
  /\ Finish(a)
  /\ UNCHANGED <<process, faults, crashes, history>>

\* update and set_enabled: session.get, ...  `rest`: update also changes a field
\* the schedule does not depend on.
EditRead(a, p, want, rest) ==
  /\ editor[a].at = "idle" /\ p \in DOMAIN rows
  /\ editor' = [editor EXCEPT ![a] =
       [at |-> "write", profile |-> p, want |-> want, rest |-> rest,
        saw |-> [enabled |-> rows[p].enabled, time |-> rows[p].time]]]
  /\ UNCHANGED <<rows, born, process, faults, crashes, history>>

\* ... then an UPDATE of the columns assigned a value other than the one read, or
\* none.  Of a row that is gone by then it is refused.
Merged(a, row) ==
  LET e == editor[a] IN
  Stamped(a, [enabled |-> IF e.want.enabled # e.saw.enabled THEN e.want.enabled ELSE row.enabled,
              time |-> IF e.want.time # e.saw.time THEN e.want.time ELSE row.time])

EditWrite(a) ==
  /\ editor[a].at = "write"
  /\ LET p == editor[a].profile IN
       rows' = IF p \in DOMAIN rows /\ (editor[a].want # editor[a].saw \/ editor[a].rest)
               THEN [rows EXCEPT ![p] = Merged(a, @)]
               ELSE rows
  /\ Finish(a)
  /\ UNCHANGED <<born, process, faults, crashes, history>>

\* delete
Delete(a, p) ==
  /\ editor[a].at = "idle" /\ p \in DOMAIN rows
  /\ rows' = [q \in DOMAIN rows \ {p} |-> rows[q]]
  /\ Finish(a)
  /\ UNCHANGED <<born, process, faults, crashes, history>>

-------------------------------------------------------------------------------
\* The scheduler process.

IdsOnly == {<<p, Nobody>> : p \in list_enabled}  \* Mutant: updated_at left out.
_profile_signature == {<<p, rows[p].updated_at>> : p \in list_enabled}

\* Mutant: as the refactor plan had it, the updated_at alone.
MembershipMissed == signature = Unset \/ {x[2] : x \in signature} # {x[2] : x \in _profile_signature}
Changed == signature # _profile_signature

\* The container starts, or is restarted ("unless-stopped").
Start ==
  /\ pc = "down"
  /\ pc' = "idle" /\ booted' = FALSE
  /\ UNCHANGED <<tables, signature, specs, jobs, faults, crashes, history>>

\* _reload_if_changed, from build_scheduler and from then on every few minutes.
Reload ==
  /\ pc = "idle"
  /\ polled' = Enabled
  /\ IF Changed
     THEN signature' = _profile_signature /\ pc' = "remove"
     ELSE UNCHANGED <<signature, pc>>
  /\ UNCHANGED <<tables, booted, specs, jobs, faults, crashes, torn, cut>>

\* _register_jobs: the jobs it owns are removed one by one, ...
RemoveJob(p) ==
  /\ pc = "remove" /\ jobs[p] # NoTime
  /\ jobs' = [jobs EXCEPT ![p] = NoTime]
  /\ UNCHANGED <<tables, pc, booted, signature, specs, faults, crashes, history>>

\* ... the enabled profiles are read in a session of their own, ...
ReadAll == {<<p, rows[p].time>> : p \in born \cap DOMAIN rows}  \* Mutant: list_all.
SpecsRead == Enabled

ReadSpecs ==
  /\ pc = "remove" /\ Registered = {}
  /\ specs' = SpecsRead
  /\ torn' = (_profile_signature # signature) /\ cut' = FALSE
  /\ pc' = "add"
  /\ UNCHANGED <<tables, booted, signature, jobs, faults, crashes, polled>>

\* ... and added, in the order of their ids.
AddJob ==
  /\ pc = "add" /\ specs # {}
  /\ LET x == CHOOSE y \in specs : \A z \in specs : y[1] <= z[1] IN
       /\ jobs' = [jobs EXCEPT ![x[1]] = x[2]]
       /\ specs' = specs \ {x}
  /\ UNCHANGED <<tables, pc, booted, signature, faults, crashes, history>>

Added ==
  /\ pc = "add" /\ specs = {}
  /\ pc' = "idle" /\ booted' = TRUE
  /\ UNCHANGED <<tables, signature, specs, jobs, faults, crashes, history>>

LostButJobs ==  \* Mutant: a job store that outlives the process.
  /\ pc' = "down" /\ booted' = FALSE /\ signature' = Unset /\ specs' = {}
  /\ polled' = {} /\ torn' = FALSE /\ cut' = FALSE
  /\ UNCHANGED jobs

Lost ==  \* The memory of the process.
  /\ pc' = "down" /\ booted' = FALSE /\ signature' = Unset /\ specs' = {}
  /\ jobs' = [p \in Profiles |-> NoTime]
  /\ polled' = {} /\ torn' = FALSE /\ cut' = FALSE

\* The database fails a read.  The first time that ends build_scheduler and with
\* it the process; afterwards only the call, which APScheduler logs.
ReadFails ==
  /\ pc = "idle" \/ (pc = "remove" /\ Registered = {})
  /\ faults < MaxFaults /\ faults' = faults + 1
  /\ IF booted
     THEN /\ pc' = "idle"
          /\ cut' = (cut \/ pc = "remove")
          /\ UNCHANGED <<booted, signature, specs, jobs, polled, torn>>
     ELSE Lost
  /\ UNCHANGED <<tables, crashes>>

Crash ==
  /\ pc # "down"
  /\ crashes < MaxCrashes /\ crashes' = crashes + 1
  /\ Lost
  /\ UNCHANGED <<tables, faults>>

-------------------------------------------------------------------------------
Edit(a) ==
  \/ \E p \in Profiles, f \in Fields : Create(a, p, f) \/ EditRead(a, p, f, TRUE) \/ EditRead(a, p, f, FALSE)
  \/ \E p \in Profiles : Delete(a, p)
  \/ EditWrite(a)

Registration == (\E p \in Profiles : RemoveJob(p)) \/ ReadSpecs \/ AddJob \/ Added

Next == (\E a \in Editors : Edit(a)) \/ Start \/ Reload \/ Registration \/ ReadFails \/ Crash

Spec == Init /\ [][Next]_vars

\* Docker restarts the container, the interval job recurs, and a registration
\* under way is carried on; no edit is due.
FairSpec == Spec /\ WF_vars(Start) /\ WF_vars(Reload) /\ WF_vars(Registration)

-------------------------------------------------------------------------------
\* Properties.

\* Between two polls the jobs are exactly the profiles that were enabled, at the
\* times they had, when the last poll looked, however the edits fell among its
\* two reads; unless that registration was cut by an error, or read later than
\* the signature it is filed under.
JobsMirrorProfiles ==
  pc = "idle" /\ signature # Unset /\ ~cut /\ ~torn => Registered = polled

\* A registration read later than its signature, while the table is such that the
\* next poll takes it for the one the signature stands for, lacks no profile that
\* is enabled now.  It may have one too many, of a profile that has been disabled
\* or deleted since: that one stays unnoticed.
TornIsNoticed ==
  pc = "idle" /\ torn /\ ~cut /\ ~Changed => Enabled \subseteq Registered

\* Once the edits stop, the jobs are in step with the profiles for good (ADR-0005:
\* it "reloads when profiles change"), but for the two registrations above, and
\* for those only if no later edit tells the signature apart.
EventuallyInStep ==
  <>[](Registered = Enabled \/ ((cut \/ torn) /\ ~Changed))

\* "The system MUST run each enabled profile on its schedule" (FR-017): in the end
\* each has its job.
EnabledAreScheduled == <>[](Enabled \subseteq Registered)
===============================================================================
