-------------------------------- MODULE Triage --------------------------------
(***************************************************************************)
(* Operator triage: services/triage.py over Posting.transition_to and      *)
(* posting_status_history (db/models.py), as concurrent web requests run   *)
(* it.  Each request is one thread of the web container with a session of  *)
(* its own on PostgreSQL at READ COMMITTED.  SELECT ... FOR UPDATE is one  *)
(* step per row lock; an UPDATE or INSERT is invisible until the commit,   *)
(* which is the step that publishes it.                                    *)
(*                                                                         *)
(* `published` is left out: no code of the repository ever sets it.        *)
(***************************************************************************)
EXTENDS Naturals, Sequences, FiniteSets

CONSTANTS Requests,    \* HTTP requests, each submitted at most once
          Postings,    \* posting ids: ordered, since the bulk path locks by id
          STATUSES, STATUS_NEW,
          NoStatus,    \* the status of a posting that does not exist yet; NULL
          Migration,   \* author of a baseline row (migration 64c8f2ca9cfe)
          Nobody,      \* holder of a free row lock
          MaxTime      \* bound on the clock

ASSUME TriageAssumption ==
  /\ Postings \subseteq Nat
  /\ STATUS_NEW \in STATUSES /\ NoStatus \notin STATUSES
  /\ Nobody \notin Requests /\ Migration \notin Requests
  /\ MaxTime \in Nat

VARIABLES status, history,     \* committed postings.status and its history rows
          status_changed_at,   \* committed column; 0 is NULL or before the model starts
          lock,                \* lock[p]: the request whose transaction holds row p
          clock,               \* datetime.now(UTC), the same for every thread
          pc, kind, ids, target,  \* the request: where it is, what it asked for
          rows,                \* rows its SELECT returned (statement snapshot)
          todo,                \* of these, the ones still to lock
          seen,                \* seen[r][p]: status read under the lock
          now                  \* the timestamp it will stamp

store   == <<status, history, status_changed_at>>
request == <<kind, ids, target>>
vars    == <<store, lock, clock, pc, request, rows, todo, seen, now>>

\* Mutant: the rows found are not told from the ids asked for.
ExistingUnchecked == Postings
Existing == {p \in Postings : status[p] # NoStatus}

Active   == {"select", "locking", "transition", "commit"}

\* A baseline row does not know what it replaced; every later row does.
HistoryRow ==
  [previous_status : {NoStatus}, new_status : STATUSES, changed_at : Nat, by : {Migration}]
    \cup
  [previous_status : STATUSES, new_status : STATUSES, changed_at : Nat, by : Requests]

TypeOK ==
  /\ status \in [Postings -> STATUSES \cup {NoStatus}]
  /\ history \in [Postings -> Seq(HistoryRow)]
  /\ status_changed_at \in [Postings -> Nat]
  /\ lock \in [Postings -> Requests \cup {Nobody}]
  /\ clock \in Nat
  /\ pc \in [Requests -> {"idle", "refused", "done", "aborted"} \cup Active]
  /\ kind \in [Requests -> {"one", "bulk"}]
  /\ ids \in [Requests -> SUBSET Postings]
  /\ target \in [Requests -> STATUSES]
  /\ rows \in [Requests -> SUBSET Postings]
  /\ todo \in [Requests -> SUBSET Postings]
  /\ seen \in [Requests -> [Postings -> STATUSES \cup {NoStatus}]]
  /\ now \in [Requests -> Nat]

\* A database migrated to 64c8f2ca9cfe: whatever existed has one baseline row.
Init == 
  /\ status \in [Postings -> STATUSES \cup {NoStatus}]
  /\ history = [p \in Postings |->
        IF status[p] = NoStatus THEN <<>>
        ELSE <<[previous_status |-> NoStatus, new_status |-> status[p],
                changed_at |-> 0, by |-> Migration]>>]
  /\ status_changed_at = [p \in Postings |-> 0]
  /\ lock = [p \in Postings |-> Nobody]
  /\ clock = 0
  /\ pc = [r \in Requests |-> "idle"]
  /\ kind = [r \in Requests |-> "one"]
  /\ ids = [r \in Requests |-> {}]
  /\ target = [r \in Requests |-> STATUS_NEW]
  /\ rows = [r \in Requests |-> {}]
  /\ todo = [r \in Requests |-> {}]
  /\ seen = [r \in Requests |-> [p \in Postings |-> NoStatus]]
  /\ now = [r \in Requests |-> 0]

-------------------------------------------------------------------------------
\* The environment.

Tick == /\ clock < MaxTime
        /\ clock' = clock + 1
        /\ UNCHANGED <<store, lock, pc, request, rows, todo, seen, now>>

\* Posting.create: stage 2 commits postings nobody has seen before, those of a
\* batch together.
Create(S) ==
  /\ S # {} /\ S \cap Existing = {}
  /\ status' = [p \in Postings |-> IF p \in S THEN STATUS_NEW ELSE status[p]]
  /\ UNCHANGED <<history, status_changed_at, lock, clock, pc, request, rows, todo, seen, now>>

-------------------------------------------------------------------------------
\* get_db closes the session: what the handler had in hand is gone.
Forget(r) ==
  /\ ids' = [ids EXCEPT ![r] = {}]
  /\ target' = [target EXCEPT ![r] = STATUS_NEW]
  /\ todo' = [todo EXCEPT ![r] = {}]
  /\ seen' = [seen EXCEPT ![r] = [p \in Postings |-> NoStatus]]
  /\ now' = [now EXCEPT ![r] = 0]
  /\ UNCHANGED kind

\* A request arrives.  One that names an unknown status is refused before
\* anything is read (UnknownStatusError), as is a bulk request with no ids.

Refuse(r) ==
  /\ pc[r] = "idle"
  /\ pc' = [pc EXCEPT ![r] = "refused"]
  /\ UNCHANGED <<store, lock, clock, request, rows, todo, seen, now>>

\* Where each path reads the clock: set_status once the row is locked,
\* set_status_bulk before its SELECT is even sent.
StampsOnArrival(k) == "arrival"  \* Mutant: set_status reads the clock first too.
Stamps(k) == IF k = "one" THEN "transition" ELSE "arrival"

Arrive(r, k, S, s) ==
  /\ pc[r] = "idle"
  /\ pc' = [pc EXCEPT ![r] = "select"]
  /\ kind' = [kind EXCEPT ![r] = k]
  /\ ids' = [ids EXCEPT ![r] = S]
  /\ target' = [target EXCEPT ![r] = s]
  /\ now' = [now EXCEPT ![r] = IF Stamps(k) = "arrival" THEN clock ELSE @]
  /\ UNCHANGED <<store, lock, clock, rows, todo, seen>>

SetStatus(r, p, s)     == Arrive(r, "one", {p}, s)
SetStatusBulk(r, S, s) == S # {} /\ Arrive(r, "bulk", S, s)

\* The SELECT's snapshot fixes which rows it returns.
Select(r) ==
  /\ pc[r] = "select"
  /\ ids[r] \cap Existing # {}
  /\ rows' = [rows EXCEPT ![r] = ids[r] \cap Existing]
  /\ todo' = [todo EXCEPT ![r] = ids[r] \cap Existing]
  /\ pc' = [pc EXCEPT ![r] = "locking"]
  /\ UNCHANGED <<store, lock, clock, request, seen, now>>

\* It returned none: 404, or "0 posting(s) set".
SelectNone(r) ==
  /\ pc[r] = "select"
  /\ ids[r] \cap Existing = {}
  /\ pc' = [pc EXCEPT ![r] = "done"]
  /\ Forget(r)
  /\ UNCHANGED <<store, lock, clock, rows>>

\* FOR UPDATE takes the row locks in ORDER BY id and returns each row as it
\* is once its lock is granted.
FreeUnlocked(p) == TRUE  \* Mutant: a plain SELECT, no FOR UPDATE.
Free(p) == lock[p] = Nobody
NextRowUnordered(r) == todo[r]  \* Mutant: without ORDER BY any row may come next.
NextRow(r) == {p \in todo[r] : \A q \in todo[r] : p <= q}

Lock(r) ==
  /\ pc[r] = "locking"
  /\ \E p \in NextRow(r) :
       /\ Free(p)
       /\ lock' = [lock EXCEPT ![p] = r]
       /\ seen' = [seen EXCEPT ![r][p] = status[p]]
       /\ todo' = [todo EXCEPT ![r] = @ \ {p}]
       /\ pc' = [pc EXCEPT ![r] = IF todo[r] = {p} THEN "transition" ELSE "locking"]
  /\ UNCHANGED <<store, clock, request, rows, now>>

\* transition_to on each row, in memory and then flushed: nobody else sees it.
Transition(r) ==
  /\ pc[r] = "transition"
  /\ now' = [now EXCEPT ![r] = IF Stamps(kind[r]) = "transition" THEN clock ELSE @]
  /\ pc' = [pc EXCEPT ![r] = "commit"]
  /\ UNCHANGED <<store, lock, clock, request, rows, todo, seen>>

\* Mutant: the row records the status moved to, not the one replaced.
RowOfAfter(r, p) == [previous_status |-> target[r], new_status |-> target[r],
                     changed_at |-> now[r], by |-> r]
RowOf(r, p) == [previous_status |-> seen[r][p], new_status |-> target[r],
                changed_at |-> now[r], by |-> r]

\* Mutant: the commit slipped into the loop, before its return.
WrittenFirst(r) == {p \in rows[r] : \A q \in rows[r] : p <= q}
Written(r) == rows[r]

\* session.commit(): every status with its history row, and the locks go.
Commit(r) ==
  /\ pc[r] = "commit"
  /\ status' = [p \in Postings |-> IF p \in Written(r) THEN target[r] ELSE status[p]]
  /\ status_changed_at' =
        [p \in Postings |-> IF p \in Written(r) THEN now[r] ELSE status_changed_at[p]]
  /\ history' = [p \in Postings |-> IF p \in Written(r) THEN Append(history[p], RowOf(r, p))
                                    ELSE history[p]]
  /\ lock' = [p \in Postings |-> IF lock[p] = r THEN Nobody ELSE lock[p]]
  /\ pc' = [pc EXCEPT ![r] = "done"]
  /\ Forget(r)
  /\ UNCHANGED <<clock, rows>>

\* The connection drops or the container dies: get_db closes the session and
\* PostgreSQL rolls the transaction back.
Abort(r) ==
  /\ pc[r] \in Active
  /\ lock' = [p \in Postings |-> IF lock[p] = r THEN Nobody ELSE lock[p]]
  /\ pc' = [pc EXCEPT ![r] = "aborted"]
  /\ rows' = [rows EXCEPT ![r] = {}]
  /\ Forget(r)
  /\ UNCHANGED <<store, clock>>

Serve(r) == Select(r) \/ SelectNone(r) \/ Lock(r) \/ Transition(r) \/ Commit(r)

Next ==
  \/ Tick
  \/ \E S \in SUBSET Postings : Create(S)
  \/ \E r \in Requests :
       \/ Refuse(r)
       \/ \E p \in Postings, s \in STATUSES : SetStatus(r, p, s)
       \/ \E S \in SUBSET Postings, s \in STATUSES : SetStatusBulk(r, S, s)
       \/ Serve(r)
       \/ Abort(r)

Spec == Init /\ [][Next]_vars

\* The web server runs an accepted request to its end; PostgreSQL grants a
\* free lock.  Nothing obliges an operator to click or a connection to drop.
FairSpec == Spec /\ \A r \in Requests : WF_vars(Serve(r))

-------------------------------------------------------------------------------
\* Properties.

\* The history of a posting is one unbroken chain, in commit order: every row
\* starts where the row before it ended, and the last one ends at the status
\* the posting has.  This is what FOR UPDATE is for (ADR-0014: no transition is
\* silently lost, no row records a previous_status that was already stale).
HistoryChain ==
  \A p \in Existing :
    LET h == history[p] IN
      /\ \A i \in 2..Len(h) : h[i].previous_status = h[i - 1].new_status
      /\ h # <<>> => h[Len(h)].new_status = status[p]
      /\ h = <<>> => status[p] = STATUS_NEW
      /\ h # <<>> => h[1].previous_status \in {STATUS_NEW, NoStatus}

\* A request that committed moved every row its SELECT returned, once; one that
\* did not moved none (set_status_bulk: "or none are if any step fails").
Marked(r) == {p \in Postings : \E i \in DOMAIN history[p] : history[p][i].by = r}
AllOrNothing ==
  \A r \in Requests :
    /\ Marked(r) = IF pc[r] = "done" THEN rows[r] ELSE {}
    /\ \A p \in Postings : \A i, j \in DOMAIN history[p] :
          history[p][i].by = r /\ history[p][j].by = r => i = j

\* Overlapping requests never wait for each other in a circle: while any has
\* locks to take, some running request is not waiting for a row another holds.
Blocked(r) == pc[r] = "locking" /\ \A p \in NextRow(r) : lock[p] # Nobody
NoCircularWait ==
  (\E r \in Requests : pc[r] \in Active) =>
     \E r \in Requests : pc[r] \in Active /\ ~Blocked(r)

\* A row written by set_status never bears a time earlier than a row committed
\* before it, because it reads the clock only once it holds the row.
SingleStampsNeverBackdate ==
  \A p \in Postings : \A j \in DOMAIN history[p] : \A i \in 1..(j - 1) :
    history[p][j].by \in {r \in Requests : kind[r] = "one"} =>
      history[p][i].changed_at <= history[p][j].changed_at

\* A request the server has accepted ends: no deadlock, no lost wake-up.
EveryRequestEnds ==
  \A r \in Requests : pc[r] \in Active ~> pc[r] \in {"done", "aborted"}

\* Locks, stamps and aborts together make each request one atomic step.
Ledger == INSTANCE TriageLedger WITH Times <- 0..MaxTime
ImplementsLedger == Ledger!Spec
===============================================================================
