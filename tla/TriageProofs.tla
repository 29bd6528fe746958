----------------------------- MODULE TriageProofs -----------------------------
(***************************************************************************)
(* What Triage.tla guarantees for any number of requests, postings and     *)
(* statuses.  The argument is the one FOR UPDATE is there for: a request   *)
(* holds exactly the rows it has locked, and while it holds a row nobody   *)
(* else changes it, so the status it has read is the status it replaces.   *)
(***************************************************************************)
EXTENDS Triage, TLAPS

Holding == {"locking", "transition", "commit"}

\* A row lock is held by the one request that took it and has not ended.
LocksHeld ==
  \A r \in Requests, p \in Postings :
    lock[p] = r <=> pc[r] \in Holding /\ p \in rows[r] /\ p \notin todo[r]

\* What a request in hand of its SELECT's result still has to lock.
RowsInHand ==
  \A r \in Requests :
    /\ rows[r] \subseteq Existing
    /\ pc[r] \in Holding => rows[r] # {} /\ todo[r] \subseteq rows[r]
    /\ pc[r] = "locking" => todo[r] # {}
    /\ pc[r] \in {"transition", "commit"} => todo[r] = {}

\* The status read under a lock is still the status of the row.
SeenIsFresh ==
  \A r \in Requests, p \in Postings : lock[p] = r => seen[r][p] = status[p]

\* A posting that does not exist has no history, one that does began as new or
\* with a baseline row.
NoRowsBeforeBirth ==
  \A p \in Postings : status[p] = NoStatus => history[p] = <<>>

IInv == /\ TypeOK
        /\ LocksHeld
        /\ RowsInHand
        /\ SeenIsFresh
        /\ NoRowsBeforeBirth
        /\ HistoryChain

-------------------------------------------------------------------------------
\* Facts the steps share.

LEMMA InitIInv == Init => IInv
<1> SUFFICES ASSUME Init PROVE IInv
  OBVIOUS
<1> USE TriageAssumption
<1>1. ASSUME NEW p \in Postings  PROVE history[p] \in Seq(HistoryRow)
  <2> DEFINE row == [previous_status |-> NoStatus, new_status |-> status[p],
                     changed_at |-> 0, by |-> Migration]
  <2>1. CASE status[p] = NoStatus
    BY <2>1 DEF Init
  <2>2. CASE status[p] # NoStatus
    <3>1. history[p] = <<row>>
      BY <2>2 DEF Init
    <3>2. status[p] \in STATUSES
      BY <2>2 DEF Init
    <3>3. row \in HistoryRow
      BY <3>2 DEF HistoryRow
    <3> QED
      BY <3>1, <3>3
  <2> QED
    BY <2>1, <2>2
<1>2. TypeOK
  <2>1. history \in [Postings -> Seq(HistoryRow)]
    BY <1>1 DEF Init
  <2> QED
    BY <2>1 DEF Init, TypeOK, Active
<1>3. LocksHeld /\ RowsInHand /\ SeenIsFresh
  BY DEF Init, LocksHeld, RowsInHand, SeenIsFresh, Holding, Existing
<1>4. NoRowsBeforeBirth
  BY DEF Init, NoRowsBeforeBirth
<1>5. HistoryChain
  BY DEF Init, HistoryChain, Existing
<1> QED
  BY <1>2, <1>3, <1>4, <1>5 DEF IInv

\* Every step but Commit and Create leaves the store alone, and with it the
\* parts of the invariant that speak of the store only.
LEMMA StoreParts ==
  ASSUME NoRowsBeforeBirth, HistoryChain, UNCHANGED store
  PROVE  NoRowsBeforeBirth' /\ HistoryChain'
BY DEF NoRowsBeforeBirth, HistoryChain, Existing, store

\* A request that ends lets go of its rows and of nobody else's.
LEMMA EndReleases ==
  ASSUME NEW r \in Requests, LocksHeld, TypeOK,
         lock' = [p \in Postings |-> IF lock[p] = r THEN Nobody ELSE lock[p]],
         \E w \in {"done", "aborted"} : pc' = [pc EXCEPT ![r] = w],
         todo' = [todo EXCEPT ![r] = {}],
         \A q \in Requests \ {r} : rows'[q] = rows[q]
  PROVE  LocksHeld'
<1> USE TriageAssumption
<1> SUFFICES ASSUME NEW q \in Requests, NEW p \in Postings
             PROVE  lock'[p] = q <=> pc'[q] \in Holding /\ p \in rows'[q] /\ p \notin todo'[q]
  BY DEF LocksHeld
<1>1. CASE q = r
  BY <1>1 DEF TypeOK, Holding
<1>2. CASE q # r
  BY <1>2 DEF LocksHeld, TypeOK
<1> QED
  BY <1>1, <1>2

\* What a request does while it holds no row yet, or only reads.
LEMMA TickStep == IInv /\ Tick => IInv'
<1> SUFFICES ASSUME IInv, Tick PROVE IInv'
  OBVIOUS
<1>1. TypeOK'
  BY DEF IInv, TypeOK, Tick, store, request, Active
<1>2. LocksHeld' /\ RowsInHand' /\ SeenIsFresh'
  BY DEF IInv, LocksHeld, RowsInHand, SeenIsFresh, Existing, Tick, store, request
<1>3. NoRowsBeforeBirth' /\ HistoryChain'
  BY StoreParts DEF IInv, Tick
<1> QED
  BY <1>1, <1>2, <1>3 DEF IInv

LEMMA CreateStep == ASSUME IInv, NEW S \in SUBSET Postings, Create(S) PROVE IInv'
<1> USE TriageAssumption
<1>1. TypeOK'
  BY DEF IInv, TypeOK, Create, request, Active
<1>2. /\ \A p \in S : status'[p] = STATUS_NEW /\ history[p] = <<>>
      /\ \A p \in Postings \ S : status'[p] = status[p]
      /\ history' = history
  BY DEF IInv, TypeOK, NoRowsBeforeBirth, Create, Existing
<1>3. LocksHeld'
  BY DEF IInv, LocksHeld, Create, request
<1>4. RowsInHand'
  BY <1>2 DEF IInv, RowsInHand, Existing, Create, request
<1>5. SeenIsFresh'
  <2> SUFFICES ASSUME NEW r \in Requests, NEW p \in Postings, lock'[p] = r
               PROVE  seen'[r][p] = status'[p]
    BY DEF SeenIsFresh
  <2>1. p \notin S     \* a posting that does not exist is in nobody's SELECT
    BY DEF IInv, LocksHeld, RowsInHand, Existing, Create
  <2> QED
    BY <1>2, <2>1 DEF IInv, SeenIsFresh, Create
<1>6. NoRowsBeforeBirth'
  BY <1>2 DEF IInv, NoRowsBeforeBirth
<1>7. HistoryChain'
  BY <1>2 DEF IInv, HistoryChain, Existing
<1> QED
  BY <1>1, <1>3, <1>4, <1>5, <1>6, <1>7 DEF IInv

LEMMA RefuseStep == ASSUME IInv, NEW r \in Requests, Refuse(r) PROVE IInv'
<1>1. TypeOK'
  BY DEF IInv, TypeOK, Refuse, store, request, Active
<1>2. LocksHeld' /\ RowsInHand' /\ SeenIsFresh'
  BY DEF IInv, TypeOK, LocksHeld, RowsInHand, SeenIsFresh, Existing, Refuse, store, request,
         Holding
<1>3. NoRowsBeforeBirth' /\ HistoryChain'
  BY StoreParts DEF IInv, Refuse
<1> QED
  BY <1>1, <1>2, <1>3 DEF IInv

LEMMA ArriveStep ==
  ASSUME IInv, NEW r \in Requests, NEW k \in {"one", "bulk"}, NEW S \in SUBSET Postings,
         NEW s \in STATUSES, Arrive(r, k, S, s)
  PROVE  IInv'
<1>1. TypeOK'
  <2>1. now' \in [Requests -> Nat]
    BY DEF IInv, TypeOK, Arrive
  <2>2. pc' \in [Requests -> {"idle", "refused", "done", "aborted"} \cup Active]
    BY DEF IInv, TypeOK, Arrive, Active
  <2> QED
    BY <2>1, <2>2 DEF IInv, TypeOK, Arrive, store
<1>2. LocksHeld' /\ RowsInHand' /\ SeenIsFresh'
  BY DEF IInv, TypeOK, LocksHeld, RowsInHand, SeenIsFresh, Existing, Arrive, store, Holding
<1>3. NoRowsBeforeBirth' /\ HistoryChain'
  BY StoreParts DEF IInv, Arrive
<1> QED
  BY <1>1, <1>2, <1>3 DEF IInv

LEMMA SelectStep == ASSUME IInv, NEW r \in Requests, Select(r) PROVE IInv'
<1> DEFINE found == ids[r] \cap Existing
<1>1. found \in SUBSET Postings /\ found # {}
  BY DEF IInv, TypeOK, Select
<1>2. TypeOK'
  BY <1>1 DEF IInv, TypeOK, Select, store, request, Active
<1>3. LocksHeld' /\ SeenIsFresh'
  BY DEF IInv, TypeOK, LocksHeld, SeenIsFresh, Select, store, Holding
<1>4. RowsInHand'
  BY <1>1 DEF IInv, TypeOK, RowsInHand, Select, store, Holding, Existing
<1>5. NoRowsBeforeBirth' /\ HistoryChain'
  BY StoreParts DEF IInv, Select
<1> QED
  BY <1>2, <1>3, <1>4, <1>5 DEF IInv

LEMMA ForgetTypes ==
  ASSUME TypeOK, NEW r \in Requests, Forget(r)
  PROVE  /\ ids' \in [Requests -> SUBSET Postings]
         /\ kind' \in [Requests -> {"one", "bulk"}]
         /\ target' \in [Requests -> STATUSES]
         /\ todo' \in [Requests -> SUBSET Postings]
         /\ seen' \in [Requests -> [Postings -> STATUSES \cup {NoStatus}]]
         /\ now' \in [Requests -> Nat]
BY TriageAssumption DEF TypeOK, Forget

LEMMA SelectNoneStep == ASSUME IInv, NEW r \in Requests, SelectNone(r) PROVE IInv'
<1>1. TypeOK'
  BY ForgetTypes DEF IInv, TypeOK, SelectNone, store, Active
<1>2. LocksHeld' /\ RowsInHand' /\ SeenIsFresh'
  BY DEF IInv, TypeOK, LocksHeld, RowsInHand, SeenIsFresh, Existing, SelectNone, Forget, store,
         Holding
<1>3. NoRowsBeforeBirth' /\ HistoryChain'
  BY StoreParts DEF IInv, SelectNone
<1> QED
  BY <1>1, <1>2, <1>3 DEF IInv

\* The row granted comes with its present status: what is seen is fresh.
LEMMA LockStep == ASSUME IInv, NEW r \in Requests, Lock(r) PROVE IInv'
<1> USE TriageAssumption
<1> PICK p \in NextRow(r) :
           /\ Free(p)
           /\ lock' = [lock EXCEPT ![p] = r]
           /\ seen' = [seen EXCEPT ![r][p] = status[p]]
           /\ todo' = [todo EXCEPT ![r] = @ \ {p}]
           /\ pc' = [pc EXCEPT ![r] = IF todo[r] = {p} THEN "transition" ELSE "locking"]
  BY DEF Lock
<1>1. /\ pc[r] = "locking" /\ p \in todo[r] /\ p \in Postings /\ lock[p] = Nobody
      /\ UNCHANGED <<store, clock, request, rows, now>>
  BY DEF Lock, NextRow, Free, IInv, TypeOK
<1>2. TypeOK'
  <2>1. seen' \in [Requests -> [Postings -> STATUSES \cup {NoStatus}]]
    BY <1>1 DEF IInv, TypeOK
  <2>2. pc' \in [Requests -> {"idle", "refused", "done", "aborted"} \cup Active]
    BY DEF IInv, TypeOK, Active
  <2> QED
    BY <1>1, <2>1, <2>2 DEF IInv, TypeOK, store, request
<1>3. LocksHeld'
  <2> SUFFICES ASSUME NEW q \in Requests, NEW x \in Postings
               PROVE  lock'[x] = q <=> pc'[q] \in Holding /\ x \in rows'[q] /\ x \notin todo'[q]
    BY DEF LocksHeld
  <2>1. CASE q = r
    BY <1>1, <2>1 DEF IInv, TypeOK, LocksHeld, RowsInHand, Holding
  <2>2. CASE q # r
    BY <1>1, <2>2 DEF IInv, TypeOK, LocksHeld
  <2> QED
    BY <2>1, <2>2
<1>4. RowsInHand'
  <2> SUFFICES ASSUME NEW q \in Requests
               PROVE  /\ rows'[q] \subseteq Existing'
                      /\ pc'[q] \in Holding => rows'[q] # {} /\ todo'[q] \subseteq rows'[q]
                      /\ pc'[q] = "locking" => todo'[q] # {}
                      /\ pc'[q] \in {"transition", "commit"} => todo'[q] = {}
    BY DEF RowsInHand
  <2>1. CASE q = r
    BY <1>1, <2>1 DEF IInv, TypeOK, RowsInHand, Existing, store, Holding
  <2>2. CASE q # r
    BY <1>1, <2>2 DEF IInv, TypeOK, RowsInHand, Existing, store
  <2> QED
    BY <2>1, <2>2
<1>5. SeenIsFresh'
  BY <1>1 DEF IInv, TypeOK, SeenIsFresh, store
<1>6. NoRowsBeforeBirth' /\ HistoryChain'
  BY <1>1, StoreParts DEF IInv
<1> QED
  BY <1>2, <1>3, <1>4, <1>5, <1>6 DEF IInv

LEMMA TransitionStep == ASSUME IInv, NEW r \in Requests, Transition(r) PROVE IInv'
<1>1. TypeOK'
  <2>1. now' \in [Requests -> Nat]
    BY DEF IInv, TypeOK, Transition
  <2>2. pc' \in [Requests -> {"idle", "refused", "done", "aborted"} \cup Active]
    BY DEF IInv, TypeOK, Transition, Active
  <2> QED
    BY <2>1, <2>2 DEF IInv, TypeOK, Transition, store, request
<1>2. LocksHeld' /\ RowsInHand' /\ SeenIsFresh'
  BY DEF IInv, TypeOK, LocksHeld, RowsInHand, SeenIsFresh, Existing, Transition, store, Holding
<1>3. NoRowsBeforeBirth' /\ HistoryChain'
  BY StoreParts DEF IInv, Transition
<1> QED
  BY <1>1, <1>2, <1>3 DEF IInv

LEMMA AbortStep == ASSUME IInv, NEW r \in Requests, Abort(r) PROVE IInv'
<1> USE TriageAssumption
<1>1. TypeOK'
  BY ForgetTypes DEF IInv, TypeOK, Abort, store, Active
<1>2. LocksHeld'
  BY EndReleases DEF IInv, TypeOK, Abort, Forget
<1>3. RowsInHand' /\ SeenIsFresh'
  BY DEF IInv, TypeOK, RowsInHand, SeenIsFresh, Existing, Abort, Forget, store, Holding
<1>4. NoRowsBeforeBirth' /\ HistoryChain'
  BY StoreParts DEF IInv, Abort
<1> QED
  BY <1>1, <1>2, <1>3, <1>4 DEF IInv

\* Where the lock pays: each row records the status it replaces.
LEMMA CommitRows ==
  ASSUME IInv, NEW r \in Requests, Commit(r), NEW p \in rows[r]
  PROVE  /\ p \in Existing
         /\ lock[p] = r
         /\ RowOf(r, p) \in HistoryRow
         /\ RowOf(r, p).previous_status = status[p]
         /\ RowOf(r, p).new_status = target[r]
         /\ RowOf(r, p).by = r
<1>1. p \in Postings /\ p \in Existing /\ lock[p] = r
  BY DEF IInv, TypeOK, LocksHeld, RowsInHand, Commit, Holding, Existing
<1>2. seen[r][p] = status[p] /\ status[p] \in STATUSES
  BY <1>1 DEF IInv, TypeOK, SeenIsFresh, Existing
<1>3. target[r] \in STATUSES /\ now[r] \in Nat
  BY DEF IInv, TypeOK
<1> QED
  BY <1>1, <1>2, <1>3 DEF RowOf, HistoryRow

LEMMA CommitStep == ASSUME IInv, NEW r \in Requests, Commit(r) PROVE IInv'
<1> USE TriageAssumption
<1>1. /\ rows[r] \subseteq Postings /\ pc[r] = "commit" /\ target[r] \in STATUSES
      /\ rows' = rows /\ clock' = clock
      /\ \A p \in rows[r] : status'[p] = target[r] /\ history'[p] = Append(history[p], RowOf(r, p))
      /\ \A p \in Postings \ rows[r] : status'[p] = status[p] /\ history'[p] = history[p]
  BY DEF IInv, TypeOK, Commit, Written
<1>2. ASSUME NEW p \in Postings  PROVE history'[p] \in Seq(HistoryRow)
  <2>1. history[p] \in Seq(HistoryRow)
    BY DEF IInv, TypeOK
  <2>2. CASE p \in rows[r]
    <3>1. RowOf(r, p) \in HistoryRow
      BY <2>2, CommitRows
    <3>2. Append(history[p], RowOf(r, p)) \in Seq(HistoryRow)
      BY <2>1, <3>1
    <3>3. history'[p] = Append(history[p], RowOf(r, p))
      BY <1>1, <2>2
    <3> QED
      BY <3>2, <3>3
  <2>3. CASE p \notin rows[r]
    BY <1>1, <2>1, <2>3
  <2> QED
    BY <2>2, <2>3
<1>3. TypeOK'
  <2>1. history' \in [Postings -> Seq(HistoryRow)]
    BY <1>2 DEF Commit
  <2>2. status' \in [Postings -> STATUSES \cup {NoStatus}]
    BY DEF IInv, TypeOK, Commit
  <2>3. status_changed_at' \in [Postings -> Nat]
    BY DEF IInv, TypeOK, Commit
  <2>4. lock' \in [Postings -> Requests \cup {Nobody}]
    BY DEF IInv, TypeOK, Commit
  <2>5. pc' \in [Requests -> {"idle", "refused", "done", "aborted"} \cup Active]
    BY DEF IInv, TypeOK, Commit
  <2> QED
    BY <1>1, <2>1, <2>2, <2>3, <2>4, <2>5, ForgetTypes DEF IInv, TypeOK, Commit
<1>4. LocksHeld'
  BY <1>1, EndReleases DEF IInv, Commit, Forget
<1>5. Existing' = Existing
  <2>1. ASSUME NEW p \in Postings  PROVE status'[p] # NoStatus <=> status[p] # NoStatus
    <3>1. CASE p \in rows[r]
      BY <1>1, <3>1, CommitRows DEF Existing
    <3>2. CASE p \notin rows[r]
      BY <1>1, <3>2
    <3> QED
      BY <3>1, <3>2
  <2> QED
    BY <2>1 DEF Existing
<1>6. RowsInHand'
  BY <1>1, <1>5 DEF IInv, TypeOK, RowsInHand, Commit, Forget, Holding
<1>7. SeenIsFresh'
  <2> SUFFICES ASSUME NEW q \in Requests, NEW p \in Postings, lock'[p] = q
               PROVE  seen'[q][p] = status'[p]
    BY DEF SeenIsFresh
  <2>1. q # r /\ lock[p] = q
    BY DEF IInv, TypeOK, Commit
  <2>2. p \notin rows[r]     \* r holds every row it writes
    BY <2>1, CommitRows
  <2>3. seen'[q] = seen[q]
    BY <2>1 DEF IInv, TypeOK, Commit, Forget
  <2> QED
    BY <1>1, <2>1, <2>2, <2>3 DEF IInv, SeenIsFresh
<1>8. NoRowsBeforeBirth'
  BY <1>1, <1>5, CommitRows DEF IInv, NoRowsBeforeBirth, Existing
<1>9. HistoryChain'
  <2> SUFFICES ASSUME NEW p \in Existing
               PROVE  LET h == history'[p] IN
                        /\ \A i \in 2..Len(h) : h[i].previous_status = h[i - 1].new_status
                        /\ h # <<>> => h[Len(h)].new_status = status'[p]
                        /\ h = <<>> => status'[p] = STATUS_NEW
                        /\ h # <<>> => h[1].previous_status \in {STATUS_NEW, NoStatus}
    BY <1>5 DEF HistoryChain
  <2>1. CASE p \notin rows[r]
    BY <1>1, <2>1 DEF IInv, HistoryChain, Existing
  <2>2. CASE p \in rows[r]
    <3> DEFINE h == history[p]  row == RowOf(r, p)
    <3>1. h \in Seq(HistoryRow) /\ p \in Postings
      BY DEF IInv, TypeOK, Existing
    <3>2. row \in HistoryRow /\ row.previous_status = status[p] /\ row.new_status = target[r]
      BY <2>2, CommitRows
    <3>3. history'[p] = Append(h, row) /\ status'[p] = target[r]
      BY <1>1, <2>2
    <3>4. /\ \A i \in 2..Len(h) : h[i].previous_status = h[i - 1].new_status
          /\ h # <<>> => h[Len(h)].new_status = status[p]
          /\ h = <<>> => status[p] = STATUS_NEW
          /\ h # <<>> => h[1].previous_status \in {STATUS_NEW, NoStatus}
      BY DEF IInv, HistoryChain
    <3> HIDE DEF h, row
    <3>5. /\ Len(Append(h, row)) = Len(h) + 1
          /\ \A i \in 1..Len(h) : Append(h, row)[i] = h[i]
          /\ Append(h, row)[Len(h) + 1] = row
          /\ Append(h, row) # <<>>
          /\ Len(h) \in Nat /\ (h = <<>> <=> Len(h) = 0)
      BY <3>1, <3>2
    <3>6. ASSUME NEW i \in 2..(Len(h) + 1)
          PROVE  Append(h, row)[i].previous_status = Append(h, row)[i - 1].new_status
      <4>1. CASE i <= Len(h)
        BY <3>4, <3>5, <4>1
      <4>2. CASE i = Len(h) + 1
        BY <3>2, <3>4, <3>5, <4>2
      <4> QED
        BY <3>5, <4>1, <4>2
    <3>7. Append(h, row)[1].previous_status \in {STATUS_NEW, NoStatus}
      BY <3>2, <3>4, <3>5
    <3> QED
      BY <3>2, <3>3, <3>5, <3>6, <3>7
  <2> QED
    BY <2>1, <2>2
<1> QED
  BY <1>3, <1>4, <1>6, <1>7, <1>8, <1>9 DEF IInv

LEMMA StutterStep == IInv /\ UNCHANGED vars => IInv'
BY DEF IInv, TypeOK, LocksHeld, RowsInHand, SeenIsFresh, NoRowsBeforeBirth, HistoryChain,
       Existing, vars, store, request

LEMMA StepIInv == IInv /\ [Next]_vars => IInv'
<1> SUFFICES ASSUME IInv, [Next]_vars PROVE IInv'
  OBVIOUS
<1>1. CASE UNCHANGED vars
  BY <1>1, StutterStep
<1>2. CASE Tick
  BY <1>2, TickStep
<1>3. CASE \E S \in SUBSET Postings : Create(S)
  BY <1>3, CreateStep
<1>4. ASSUME NEW r \in Requests, Refuse(r)  PROVE IInv'
  BY <1>4, RefuseStep
<1>5. ASSUME NEW r \in Requests, NEW p \in Postings, NEW s \in STATUSES, SetStatus(r, p, s)
      PROVE  IInv'
  <2>1. Arrive(r, "one", {p}, s)
    BY <1>5 DEF SetStatus
  <2> QED
    BY <2>1, ArriveStep
<1>6. ASSUME NEW r \in Requests, NEW S \in SUBSET Postings, NEW s \in STATUSES,
             SetStatusBulk(r, S, s)
      PROVE  IInv'
  <2>1. Arrive(r, "bulk", S, s)
    BY <1>6 DEF SetStatusBulk
  <2> QED
    BY <2>1, ArriveStep
<1>7. ASSUME NEW r \in Requests, Serve(r)  PROVE IInv'
  BY <1>7, SelectStep, SelectNoneStep, LockStep, TransitionStep, CommitStep DEF Serve
<1>8. ASSUME NEW r \in Requests, Abort(r)  PROVE IInv'
  BY <1>8, AbortStep
<1> QED
  BY <1>1, <1>2, <1>3, <1>4, <1>5, <1>6, <1>7, <1>8 DEF Next

-------------------------------------------------------------------------------
\* Theorems.

THEOREM Invariance == Spec => []IInv
<1>1. Init => IInv
  BY InitIInv
<1>2. IInv /\ [Next]_vars => IInv'
  BY StepIInv
<1> QED
  BY <1>1, <1>2, PTL DEF Spec

\* Every variable keeps its type.  It does not do so on its own: a history row
\* is well formed because its request read the status under the lock.
THEOREM TypeCorrect == Spec => []TypeOK
<1>1. IInv => TypeOK
  BY DEF IInv
<1> QED
  BY <1>1, Invariance, PTL

\* No transition is lost and no row records a status that was already stale
\* (ADR-0014), however many requests overlap on however many postings.
THEOREM HistoryIsChained == Spec => []HistoryChain
<1>1. IInv => HistoryChain
  BY DEF IInv
<1> QED
  BY <1>1, Invariance, PTL

-------------------------------------------------------------------------------
\* What one triage request does to the store, as the rest of the system sees it:
\* all of it or nothing, once, in one step of the ledger.


\* The clock stays under the bound, and what was read from it is past.
ClockBound ==
  /\ clock \in 0..MaxTime
  /\ \A r \in Requests : now[r] \in 0..clock

\* A request that has not had its SELECT answered has no rows.
NoRowsYet == \A r \in Requests : pc[r] \in {"idle", "select"} => rows[r] = {}

EInv == IInv /\ AllOrNothing /\ ClockBound /\ NoRowsYet

-------------------------------------------------------------------------------

LEMMA InitEInv == Init => EInv
<1> SUFFICES ASSUME Init PROVE EInv
  OBVIOUS
<1>1. AllOrNothing
  <2>1. ASSUME NEW p \in Postings, NEW i \in DOMAIN history[p]
        PROVE  history[p][i].by = Migration
    BY <2>1 DEF Init
  <2>2. \A r \in Requests : Marked(r) = {}
    BY <2>1, TriageAssumption DEF Marked
  <2>3. \A r \in Requests : pc[r] = "idle"
    BY DEF Init
  <2> QED
    BY <2>1, <2>2, <2>3, TriageAssumption DEF AllOrNothing
<1>2. ClockBound
  BY TriageAssumption DEF Init, ClockBound
<1>3. NoRowsYet
  BY DEF Init, NoRowsYet
<1> QED
  BY <1>1, <1>2, <1>3, InitIInv DEF EInv

LEMMA BoundsStep == EInv /\ [Next]_vars => ClockBound' /\ NoRowsYet'
<1> SUFFICES ASSUME EInv, [Next]_vars PROVE ClockBound' /\ NoRowsYet'
  OBVIOUS
<1> USE TriageAssumption
<1> USE DEF EInv, IInv, TypeOK, ClockBound, NoRowsYet
<1>1. CASE UNCHANGED vars
  BY <1>1 DEF vars
<1>2. CASE Tick
  BY <1>2 DEF Tick
<1>3. CASE \E S \in SUBSET Postings : Create(S)
  BY <1>3 DEF Create
<1>4. ASSUME NEW r \in Requests, NEW k \in {"one", "bulk"}, NEW S \in SUBSET Postings,
             NEW s \in STATUSES, Arrive(r, k, S, s)
      PROVE  ClockBound' /\ NoRowsYet'
  BY <1>4 DEF Arrive
<1>5. ASSUME NEW r \in Requests, Refuse(r) \/ Select(r) \/ Lock(r)
      PROVE  ClockBound' /\ NoRowsYet'
  BY <1>5 DEF Refuse, Select, Lock
<1>6. ASSUME NEW r \in Requests, Transition(r)  PROVE ClockBound' /\ NoRowsYet'
  BY <1>6 DEF Transition
<1>7. ASSUME NEW r \in Requests, SelectNone(r) \/ Commit(r) \/ Abort(r)
      PROVE  ClockBound' /\ NoRowsYet'
  <2>1. now' = [now EXCEPT ![r] = 0] /\ clock' = clock
    BY <1>7 DEF SelectNone, Commit, Abort, Forget, store
  <2>2. NoRowsYet'
    BY <1>7 DEF SelectNone, Commit, Abort
  <2> QED
    BY <2>1, <2>2
<1> QED
  BY <1>1, <1>2, <1>3, <1>4, <1>5, <1>6, <1>7 DEF Next, Serve, SetStatus, SetStatusBulk

\* A step that leaves the history, and whether and what a request has done,
\* alone leaves AllOrNothing alone.
LEMMA SameEffects ==
  ASSUME AllOrNothing, history' = history,
         \A q \in Requests : \/ pc'[q] = pc[q] /\ rows'[q] = rows[q]
                             \/ pc[q] # "done" /\ pc'[q] # "done"
                             \/ pc[q] # "done" /\ rows'[q] = {}
  PROVE  AllOrNothing'
<1>1. \A q \in Requests : Marked(q)' = Marked(q)
  BY DEF Marked
<1> SUFFICES ASSUME NEW q \in Requests PROVE Marked(q)' = IF pc'[q] = "done" THEN rows'[q] ELSE {}
  BY DEF AllOrNothing
<1> QED
  BY <1>1 DEF AllOrNothing

LEMMA CommitEffects ==
  ASSUME EInv, NEW r \in Requests, Commit(r)
  PROVE  /\ \A p \in Postings : \A i \in DOMAIN history[p] : history[p][i].by # r
         /\ AllOrNothing'
<1> USE TriageAssumption
<1>1. /\ rows[r] \subseteq Postings /\ pc[r] = "commit" /\ rows' = rows
      /\ pc' = [pc EXCEPT ![r] = "done"]
      /\ \A p \in rows[r] : history'[p] = Append(history[p], RowOf(r, p))
      /\ \A p \in Postings \ rows[r] : history'[p] = history[p]
      /\ pc \in [Requests -> {"idle", "refused", "done", "aborted"} \cup Active]
  BY DEF EInv, IInv, TypeOK, Commit, Written
<1>2. \A p \in Postings : \A i \in DOMAIN history[p] : history[p][i].by # r
  BY <1>1 DEF EInv, AllOrNothing, Marked
<1>3. ASSUME NEW p \in rows[r]
      PROVE  /\ Len(history[p]) \in Nat
             /\ DOMAIN history[p] = 1..Len(history[p])
             /\ DOMAIN history'[p] = 1..(Len(history[p]) + 1)
             /\ \A i \in 1..Len(history[p]) : history'[p][i] = history[p][i]
             /\ history'[p][Len(history[p]) + 1].by = r
  <2>1. history[p] \in Seq(HistoryRow) /\ RowOf(r, p) \in HistoryRow /\ RowOf(r, p).by = r
    BY <1>1, CommitRows DEF EInv, IInv, TypeOK
  <2>2. history'[p] = Append(history[p], RowOf(r, p))
    BY <1>1
  <2> QED
    BY <2>1, <2>2
<1>4. ASSUME NEW q \in Requests, NEW p \in Postings, NEW i \in DOMAIN history'[p],
             NEW j \in DOMAIN history'[p], history'[p][i].by = q, history'[p][j].by = q
      PROVE  i = j
  <2>1. CASE p \notin rows[r]
    <3>1. history'[p] = history[p]
      BY <1>1, <2>1
    <3> QED
      BY <1>4, <3>1 DEF EInv, AllOrNothing
  <2>2. CASE p \in rows[r] /\ q = r
    <3>1. ASSUME NEW k \in DOMAIN history'[p], history'[p][k].by = r
          PROVE  k = Len(history[p]) + 1
      <4>1. k \notin DOMAIN history[p]
        BY <1>1, <1>2, <1>3, <2>2, <3>1
      <4> QED
        BY <1>3, <2>2, <3>1, <4>1
    <3> QED
      BY <1>4, <2>2, <3>1
  <2>3. CASE p \in rows[r] /\ q # r
    <3>1. i \in DOMAIN history[p] /\ j \in DOMAIN history[p]
      BY <1>3, <1>4, <2>3
    <3>2. history[p][i].by = q /\ history[p][j].by = q
      BY <1>3, <1>4, <2>3, <3>1
    <3> QED
      BY <3>1, <3>2 DEF EInv, AllOrNothing
  <2> QED
    BY <2>1, <2>2, <2>3
<1>5. Marked(r)' = rows'[r]
  <2>1. ASSUME NEW p \in rows[r]  PROVE \E i \in DOMAIN history'[p] : history'[p][i].by = r
    BY <1>3
  <2>2. ASSUME NEW p \in Postings \ rows[r], NEW i \in DOMAIN history'[p]
        PROVE  history'[p][i].by # r
    BY <1>1, <1>2
  <2> QED
    BY <1>1, <2>1, <2>2 DEF Marked
<1>6. ASSUME NEW q \in Requests, q # r  PROVE Marked(q)' = Marked(q)
  <2>1. ASSUME NEW p \in rows[r]
        PROVE  (\E i \in DOMAIN history'[p] : history'[p][i].by = q)
                 <=> (\E i \in DOMAIN history[p] : history[p][i].by = q)
    <3>1. history'[p][Len(history[p]) + 1].by # q
      BY <1>3, <1>6
    <3> QED
      BY <1>3, <3>1
  <2>2. ASSUME NEW p \in Postings \ rows[r]  PROVE history'[p] = history[p]
    BY <1>1
  <2> QED
    BY <1>1, <2>1, <2>2 DEF Marked
<1> QED
  BY <1>1, <1>2, <1>4, <1>5, <1>6 DEF EInv, AllOrNothing

LEMMA AllOrNothingStep == EInv /\ [Next]_vars => AllOrNothing'
<1> SUFFICES ASSUME EInv, [Next]_vars PROVE AllOrNothing'
  OBVIOUS
<1> USE DEF EInv, IInv, TypeOK
<1>1. CASE UNCHANGED vars
  BY <1>1, SameEffects DEF vars, store
<1>2. CASE Tick
  BY <1>2, SameEffects DEF Tick, store
<1>3. CASE \E S \in SUBSET Postings : Create(S)
  BY <1>3, SameEffects DEF Create
<1>4. ASSUME NEW r \in Requests, NEW k \in {"one", "bulk"}, NEW S \in SUBSET Postings,
             NEW s \in STATUSES, Arrive(r, k, S, s)
      PROVE  AllOrNothing'
  BY <1>4, SameEffects DEF Arrive, store
<1>5. ASSUME NEW r \in Requests, Refuse(r) \/ Select(r) \/ Transition(r)
      PROVE  AllOrNothing'
  BY <1>5, SameEffects DEF Refuse, Select, Transition, store
<1>6. ASSUME NEW r \in Requests, Lock(r)  PROVE AllOrNothing'
  BY <1>6, SameEffects DEF Lock, store
<1>7. ASSUME NEW r \in Requests, SelectNone(r)  PROVE AllOrNothing'
  BY <1>7, SameEffects DEF SelectNone, NoRowsYet, store
<1>8. ASSUME NEW r \in Requests, Commit(r)  PROVE AllOrNothing'
  BY <1>8, CommitEffects
<1>9. ASSUME NEW r \in Requests, Abort(r)  PROVE AllOrNothing'
  BY <1>9, SameEffects DEF Abort, Active, store
<1> QED
  BY <1>1, <1>2, <1>3, <1>4, <1>5, <1>6, <1>7, <1>8, <1>9
     DEF Next, Serve, SetStatus, SetStatusBulk

LEMMA EInvariance == Spec => []EInv
<1>1. Init => EInv
  BY InitEInv
<1>2. EInv /\ [Next]_vars => EInv'
  BY StepIInv, BoundsStep, AllOrNothingStep DEF EInv
<1> QED
  BY <1>1, <1>2, PTL DEF Spec

-------------------------------------------------------------------------------
\* Theorems.

\* A request that committed moved every row its SELECT returned, once; one that
\* did not moved none (set_status_bulk: "or none are if any step fails").
THEOREM RequestsAreAllOrNothing == Spec => []AllOrNothing
<1>1. EInv => AllOrNothing
  BY DEF EInv
<1> QED
  BY <1>1, EInvariance, PTL

LEMMA InitMaps == Init => Ledger!Init
BY DEF Init, Ledger!Init

\* Only Create and Commit are seen from outside; every other step stutters.
LEMMA StepMaps == EInv /\ [Next]_vars => [Ledger!Next]_(Ledger!vars)
<1> SUFFICES ASSUME EInv, [Next]_vars PROVE Ledger!Next \/ UNCHANGED store
  BY DEF Ledger!vars, store
<1>1. CASE UNCHANGED vars
  BY <1>1 DEF vars
<1>2. CASE Tick
  BY <1>2 DEF Tick
<1>3. ASSUME NEW S \in SUBSET Postings, Create(S)  PROVE Ledger!Next
  <2>1. Ledger!Born(S)
    BY <1>3 DEF Create, Ledger!Born, Existing, Ledger!Existing
  <2> QED
    BY <2>1 DEF Ledger!Next
<1>4. ASSUME NEW r \in Requests, NEW k \in {"one", "bulk"}, NEW S \in SUBSET Postings,
             NEW s \in STATUSES, Arrive(r, k, S, s)
      PROVE  UNCHANGED store
  BY <1>4 DEF Arrive
<1>5. ASSUME NEW r \in Requests,
             Refuse(r) \/ Select(r) \/ SelectNone(r) \/ Lock(r) \/ Transition(r) \/ Abort(r)
      PROVE  UNCHANGED store
  BY <1>5 DEF Refuse, Select, SelectNone, Lock, Transition, Abort
<1>6. ASSUME NEW r \in Requests, Commit(r)  PROVE Ledger!Next
  <2>1. rows[r] # {} /\ rows[r] \subseteq Ledger!Existing /\ rows[r] \in SUBSET Postings
    BY <1>6 DEF EInv, IInv, TypeOK, RowsInHand, Commit, Holding, Existing, Ledger!Existing
  <2>2. \A p \in Postings : \A i \in DOMAIN history[p] : history[p][i].by # r
    BY <1>6, CommitEffects
  <2>3. \A p \in rows[r] : RowOf(r, p) = [previous_status |-> status[p], new_status |-> target[r],
                                         changed_at |-> now[r], by |-> r]
    BY <1>6, CommitRows DEF EInv, RowOf
  <2>4. Ledger!Moved(r, rows[r], target[r], now[r])
    BY <1>6, <2>1, <2>2, <2>3 DEF Commit, Written, Ledger!Moved
  <2>5. target[r] \in STATUSES /\ now[r] \in 0..MaxTime
    BY TriageAssumption DEF EInv, IInv, TypeOK, ClockBound
  <2> QED
    BY <2>1, <2>4, <2>5 DEF Ledger!Next
<1> QED
  BY <1>1, <1>2, <1>3, <1>4, <1>5, <1>6 DEF Next, Serve, SetStatus, SetStatusBulk

\* Row locks, statement snapshots, late stamps and aborts together make every
\* request one atomic step of the ledger.
THEOREM RequestsAreAtomic == Spec => ImplementsLedger
<1>1. Init => Ledger!Init
  BY InitMaps
<1>2. EInv /\ [Next]_vars => [Ledger!Next]_(Ledger!vars)
  BY StepMaps
<1> QED
  BY <1>1, <1>2, EInvariance, PTL DEF Spec, ImplementsLedger, Ledger!Spec

===============================================================================
