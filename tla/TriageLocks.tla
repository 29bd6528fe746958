------------------------------ MODULE TriageLocks ------------------------------
(***************************************************************************)
(* Two things the order of locks and of clock reads gives, for any number  *)
(* of requests: nobody waits in a circle, and set_status never stamps a    *)
(* row earlier than a row it follows.                                      *)
(***************************************************************************)
EXTENDS TriageProofs, WellFoundedInduction

\* ORDER BY id: what a request holds comes before what it has still to take.
LocksAscend ==
  \A r \in Requests : pc[r] = "locking" =>
    \A x \in rows[r] \ todo[r], y \in todo[r] : x < y

\* No row bears a time still to come, and set_status's own stamp is not earlier
\* than any row of the posting it holds.
StampsArePast ==
  /\ \A p \in Postings : \A i \in DOMAIN history[p] : history[p][i].changed_at <= clock
  /\ \A r \in Requests : pc[r] = "commit" /\ kind[r] = "one" =>
        \A p \in rows[r] : \A i \in DOMAIN history[p] : history[p][i].changed_at <= now[r]

LInv == EInv /\ LocksAscend /\ StampsArePast /\ SingleStampsNeverBackdate

-------------------------------------------------------------------------------
LEMMA LocksAscendStep == EInv /\ LocksAscend /\ [Next]_vars => LocksAscend'
<1> SUFFICES ASSUME EInv, LocksAscend, [Next]_vars PROVE LocksAscend'
  OBVIOUS
<1> USE DEF EInv, IInv, TypeOK, LocksAscend
<1>1. CASE UNCHANGED vars
  BY <1>1 DEF vars
<1>2. CASE Tick
  BY <1>2 DEF Tick
<1>3. CASE \E S \in SUBSET Postings : Create(S)
  BY <1>3 DEF Create
<1>4. ASSUME NEW r \in Requests, NEW k \in {"one", "bulk"}, NEW S \in SUBSET Postings,
             NEW s \in STATUSES, Arrive(r, k, S, s)
      PROVE  LocksAscend'
  BY <1>4 DEF Arrive
<1>5. ASSUME NEW r \in Requests, Refuse(r) \/ Transition(r)
      PROVE  LocksAscend'
  BY <1>5 DEF Refuse, Transition
<1>9. ASSUME NEW r \in Requests, Select(r)  PROVE LocksAscend'
  <2>1. rows'[r] = todo'[r] /\ \A q \in Requests \ {r} : pc'[q] = pc[q] /\ rows'[q] = rows[q]
                                                     /\ todo'[q] = todo[q]
    BY <1>9 DEF Select
  <2> QED
    BY <2>1
<1>6. ASSUME NEW r \in Requests, Lock(r)  PROVE LocksAscend'
  <2>1. PICK p \in NextRow(r) : /\ todo' = [todo EXCEPT ![r] = @ \ {p}]
                                /\ pc' = [pc EXCEPT ![r] = IF todo[r] = {p} THEN "transition"
                                                                            ELSE "locking"]
    BY <1>6 DEF Lock
  <2>2. p \in todo[r] /\ p \in Postings /\ \A y \in todo[r] : p <= y
    BY DEF NextRow
  <2>3. \A y \in todo[r] \ {p} : p < y
    BY <2>2, TriageAssumption
  <2> SUFFICES ASSUME NEW q \in Requests, pc'[q] = "locking",
                      NEW x \in rows'[q] \ todo'[q], NEW y \in todo'[q]
               PROVE  x < y
    OBVIOUS
  <2>4. CASE q = r
    BY <1>6, <2>1, <2>2, <2>3, <2>4 DEF Lock
  <2>5. CASE q # r
    BY <1>6, <2>1, <2>5 DEF Lock
  <2> QED
    BY <2>4, <2>5
<1>7. ASSUME NEW r \in Requests, SelectNone(r) \/ Commit(r)  PROVE LocksAscend'
  BY <1>7 DEF SelectNone, Commit, Forget
<1>8. ASSUME NEW r \in Requests, Abort(r)  PROVE LocksAscend'
  BY <1>8 DEF Abort, Forget
<1> QED
  BY <1>1, <1>2, <1>3, <1>4, <1>5, <1>6, <1>7, <1>8, <1>9
     DEF Next, Serve, SetStatus, SetStatusBulk

LEMMA StampsInit == Init => StampsArePast
<1> SUFFICES ASSUME Init PROVE StampsArePast
  OBVIOUS
<1>1. ASSUME NEW p \in Postings, NEW i \in DOMAIN history[p]
      PROVE  history[p][i].changed_at = 0
  BY <1>1 DEF Init
<1> QED
  BY <1>1 DEF Init, StampsArePast

\* The stamp a commit writes is a time the clock has shown; the rows it follows
\* on a posting it holds are no later if it read the clock holding it.
LEMMA StampsCommit ==
  ASSUME EInv, StampsArePast, NEW r \in Requests, Commit(r)
  PROVE  StampsArePast'
<1> USE TriageAssumption
<1>1. /\ rows' = rows /\ clock' = clock /\ kind' = kind /\ pc' = [pc EXCEPT ![r] = "done"]
      /\ rows[r] \subseteq Postings
      /\ now' = [now EXCEPT ![r] = 0]
      /\ \A p \in rows[r] : history'[p] = Append(history[p], RowOf(r, p))
      /\ \A p \in Postings \ rows[r] : history'[p] = history[p]
  BY DEF Commit, Forget, Written, EInv, IInv, TypeOK
<1>2. now[r] \in Nat /\ clock \in Nat
  BY DEF EInv, IInv, TypeOK
<1>3. ASSUME NEW p \in Postings, NEW i \in DOMAIN history'[p], now[r] <= clock
      PROVE  history'[p][i].changed_at <= clock
  <2>1. CASE p \notin rows[r]
    <3>1. history'[p] = history[p]
      BY <1>1, <2>1
    <3> QED
      BY <1>3, <3>1 DEF StampsArePast
  <2>2. CASE p \in rows[r]
    <3>1. history[p] \in Seq(HistoryRow) /\ RowOf(r, p) \in HistoryRow
      BY <2>2, CommitRows DEF EInv, IInv, TypeOK
    <3>2. history'[p] = Append(history[p], RowOf(r, p)) /\ RowOf(r, p).changed_at = now[r]
      BY <1>1, <2>2 DEF RowOf
    <3>3. \/ i \in DOMAIN history[p] /\ history'[p][i] = history[p][i]
          \/ history'[p][i] = RowOf(r, p)
      BY <3>1, <3>2
    <3> QED
      BY <1>3, <3>2, <3>3 DEF StampsArePast
  <2> QED
    BY <2>1, <2>2
<1>4. ASSUME NEW q \in Requests, pc'[q] = "commit", kind'[q] = "one", NEW p \in rows'[q],
             NEW i \in DOMAIN history'[p]
      PROVE  history'[p][i].changed_at <= now'[q]
  <2>1. q # r /\ pc[q] = "commit" /\ now'[q] = now[q] /\ p \in rows[q]
    BY <1>1, <1>4 DEF EInv, IInv, TypeOK
  <2>2. lock[p] = q /\ p \in Postings
    BY <2>1 DEF EInv, IInv, TypeOK, LocksHeld, RowsInHand, Holding
  <2>3. p \notin rows[r]
    BY <2>1, <2>2, CommitRows DEF EInv
  <2>4. history'[p] = history[p]
    BY <1>1, <2>2, <2>3
  <2> QED
    BY <1>1, <1>4, <2>1, <2>4 DEF StampsArePast
<1>5. now[r] <= clock
  BY <1>2 DEF EInv, ClockBound
<1> QED
  BY <1>1, <1>3, <1>4, <1>5 DEF StampsArePast

LEMMA StampsStep == EInv /\ StampsArePast /\ [Next]_vars => StampsArePast'
<1> SUFFICES ASSUME EInv, StampsArePast, [Next]_vars PROVE StampsArePast'
  OBVIOUS
<1>0. ASSUME NEW p \in Postings, NEW i \in DOMAIN history[p]
      PROVE  history[p][i].changed_at \in Nat
  <2>1. history[p] \in Seq(HistoryRow)
    BY DEF EInv, IInv, TypeOK
  <2>2. history[p][i] \in HistoryRow
    BY <2>1
  <2> QED
    BY <2>2 DEF HistoryRow
<1> USE TriageAssumption
<1> USE DEF EInv, IInv, TypeOK, StampsArePast
<1>1. CASE UNCHANGED vars
  BY <1>1 DEF vars, store, request
<1>2. CASE Tick
  BY <1>0, <1>2 DEF Tick, store, request
<1>3. CASE \E S \in SUBSET Postings : Create(S)
  BY <1>3 DEF Create, request
<1>4. ASSUME NEW r \in Requests, NEW k \in {"one", "bulk"}, NEW S \in SUBSET Postings,
             NEW s \in STATUSES, Arrive(r, k, S, s)
      PROVE  StampsArePast'
  BY <1>4 DEF Arrive, store
<1>5. ASSUME NEW r \in Requests, Refuse(r) \/ Select(r) \/ Lock(r)  PROVE StampsArePast'
  <2>1. /\ UNCHANGED <<history, clock, kind, now>>
        /\ \A q \in Requests : pc'[q] = "commit" => pc[q] = "commit" /\ rows'[q] = rows[q]
    BY <1>5 DEF Refuse, Select, Lock, store, request
  <2> QED
    BY <2>1
<1>6. ASSUME NEW r \in Requests, Transition(r)  PROVE StampsArePast'
  <2>1. UNCHANGED <<history, clock, kind, rows>>
    BY <1>6 DEF Transition, store, request
  <2>2. kind[r] = "one" => now'[r] = clock
    BY <1>6 DEF Transition, Stamps
  <2>3. \A q \in Requests \ {r} : pc'[q] = pc[q] /\ now'[q] = now[q]
    BY <1>6 DEF Transition
  <2>4. rows[r] \subseteq Postings /\ pc[r] # "commit"
    BY <1>6 DEF Transition
  <2> SUFFICES ASSUME NEW q \in Requests, pc'[q] = "commit", kind'[q] = "one",
                      NEW p \in rows'[q], NEW i \in DOMAIN history'[p]
               PROVE  history'[p][i].changed_at <= now'[q]
    BY <2>1
  <2>5. CASE q = r
    <3>1. p \in Postings /\ kind[r] = "one"
      BY <2>1, <2>4, <2>5
    <3> QED
      BY <2>1, <2>2, <2>5, <3>1
  <2>6. CASE q # r
    BY <2>1, <2>3, <2>6
  <2> QED
    BY <2>5, <2>6
<1>7. ASSUME NEW r \in Requests, SelectNone(r) \/ Abort(r)  PROVE StampsArePast'
  <2>1. /\ UNCHANGED <<history, clock, kind>>
        /\ \A q \in Requests : pc'[q] = "commit" =>
              pc[q] = "commit" /\ rows'[q] = rows[q] /\ now'[q] = now[q]
    BY <1>7 DEF SelectNone, Abort, Forget, store
  <2> QED
    BY <2>1
<1>8. ASSUME NEW r \in Requests, Commit(r)  PROVE StampsArePast'
  BY <1>8, StampsCommit
<1> QED
  BY <1>1, <1>2, <1>3, <1>4, <1>5, <1>6, <1>7, <1>8 DEF Next, Serve, SetStatus, SetStatusBulk

LEMMA BackdateStep ==
  EInv /\ StampsArePast /\ SingleStampsNeverBackdate /\ [Next]_vars => SingleStampsNeverBackdate'
<1> SUFFICES ASSUME EInv, StampsArePast, SingleStampsNeverBackdate, [Next]_vars
             PROVE  SingleStampsNeverBackdate'
  OBVIOUS
<1> USE DEF EInv, IInv, TypeOK
<1>1. ASSUME UNCHANGED <<history, kind>>  PROVE SingleStampsNeverBackdate'
  BY <1>1 DEF SingleStampsNeverBackdate
<1>2. ASSUME NEW r \in Requests, NEW k \in {"one", "bulk"}, NEW S \in SUBSET Postings,
             NEW s \in STATUSES, Arrive(r, k, S, s)
      PROVE  SingleStampsNeverBackdate'
  <2>1. /\ history' = history /\ pc[r] = "idle"
        /\ \A q \in Requests \ {r} : kind'[q] = kind[q]
    BY <1>2 DEF Arrive, store
  <2>2. \A p \in Postings : \A i \in DOMAIN history[p] : history[p][i].by # r
    BY <2>1 DEF AllOrNothing, Marked
  <2> QED
    BY <2>1, <2>2 DEF SingleStampsNeverBackdate
<1>3. ASSUME NEW r \in Requests, Commit(r)  PROVE SingleStampsNeverBackdate'
  <2>1. /\ kind' = kind /\ pc[r] = "commit" /\ rows[r] \subseteq Postings
        /\ \A p \in rows[r] : history'[p] = Append(history[p], RowOf(r, p))
        /\ \A p \in Postings \ rows[r] : history'[p] = history[p]
    BY <1>3 DEF Commit, Forget, Written
  <2> SUFFICES ASSUME NEW p \in Postings, NEW j \in DOMAIN history'[p], NEW i \in 1..(j - 1),
                      history'[p][j].by \in {q \in Requests : kind[q] = "one"}
               PROVE  history'[p][i].changed_at <= history'[p][j].changed_at
    BY <2>1 DEF SingleStampsNeverBackdate
  <2>2. CASE p \notin rows[r]
    <3>1. history'[p] = history[p]
      BY <2>1, <2>2
    <3> QED
      BY <3>1 DEF SingleStampsNeverBackdate
  <2>3. CASE p \in rows[r]
    <3>1. history[p] \in Seq(HistoryRow) /\ RowOf(r, p) \in HistoryRow
      BY <1>3, <2>3, CommitRows
    <3>2. history'[p] = Append(history[p], RowOf(r, p))
      BY <2>1, <2>3
    <3>3. /\ RowOf(r, p).changed_at = now[r] /\ RowOf(r, p).by = r
      BY DEF RowOf
    <3>4. CASE j \in DOMAIN history[p]
      <4>1. i \in DOMAIN history[p] /\ history'[p][i] = history[p][i] /\ history'[p][j] = history[p][j]
        BY <3>1, <3>2, <3>4
      <4> QED
        BY <3>4, <4>1 DEF SingleStampsNeverBackdate
    <3>5. CASE j \notin DOMAIN history[p]
      <4>1. /\ i \in DOMAIN history[p] /\ history'[p][i] = history[p][i]
            /\ history'[p][j] = RowOf(r, p)
        BY <3>1, <3>2, <3>5
      <4>2. kind[r] = "one"
        BY <3>3, <4>1
      <4> QED
        BY <2>1, <2>3, <3>3, <4>1, <4>2 DEF StampsArePast
    <3> QED
      BY <3>4, <3>5
  <2> QED
    BY <2>2, <2>3
<1>4. CASE UNCHANGED vars
  BY <1>1, <1>4 DEF vars, store, request
<1>5. CASE Tick
  BY <1>1, <1>5 DEF Tick, store, request
<1>6. CASE \E S \in SUBSET Postings : Create(S)
  BY <1>1, <1>6 DEF Create, request
<1>7. ASSUME NEW r \in Requests,
             Refuse(r) \/ Select(r) \/ SelectNone(r) \/ Lock(r) \/ Transition(r) \/ Abort(r)
      PROVE  SingleStampsNeverBackdate'
  <2>1. UNCHANGED <<history, kind>>
    BY <1>7 DEF Refuse, Select, SelectNone, Lock, Transition, Abort, Forget, store, request
  <2> QED
    BY <1>1, <2>1
<1> QED
  BY <1>2, <1>3, <1>4, <1>5, <1>6, <1>7 DEF Next, Serve, SetStatus, SetStatusBulk

LEMMA LInvariance == Spec => []LInv
<1>1. Init => LocksAscend /\ StampsArePast /\ SingleStampsNeverBackdate
  <2>1. Init => LocksAscend
    BY DEF Init, LocksAscend
  <2>2. ASSUME Init, NEW p \in Postings, NEW j \in DOMAIN history[p]
        PROVE  history[p][j].by = Migration
    BY <2>2 DEF Init
  <2>3. Init => SingleStampsNeverBackdate
    BY <2>2, TriageAssumption DEF SingleStampsNeverBackdate
  <2> QED
    BY <2>1, <2>3, StampsInit
<1>2. LInv /\ [Next]_vars => LocksAscend' /\ StampsArePast' /\ SingleStampsNeverBackdate'
  BY LocksAscendStep, StampsStep, BackdateStep DEF LInv
<1> QED
  BY <1>1, <1>2, EInvariance, PTL DEF Spec, LInv

LEMMA LeastElement ==
  ASSUME NEW T \in SUBSET Nat, T # {}
  PROVE  \E x \in T : \A y \in T : x <= y
<1> DEFINE Less == {ss \in Nat \X Nat : ss[1] < ss[2]}
<1>1. IsWellFoundedOn(Less, Nat)
  BY NatLessThanWellFounded DEF OpToRel
<1> HIDE DEF Less
<1>2. PICK x \in T : \A y \in T : ~ (<<y, x>> \in Less)
  BY <1>1, WFMin
<1>3. \A y \in T : ~(y < x)
  BY <1>2 DEF Less
<1> QED
  BY <1>2, <1>3

LEMMA GreatestElement ==
  ASSUME NEW N \in Nat, NEW T \in SUBSET (0..N), T # {}
  PROVE  \E x \in T : \A y \in T : y <= x
<1> DEFINE U == {N - x : x \in T}
<1>1. U \in SUBSET Nat /\ U # {}
  <2>1. \A x \in T : x \in Nat /\ N - x \in Nat
    OBVIOUS
  <2>2. \A u \in U : u \in Nat
    BY <2>1
  <2>3. PICK x \in T : TRUE
    OBVIOUS
  <2>4. N - x \in U
    BY <2>3
  <2> QED
    BY <2>2, <2>4
<1>2. PICK u \in U : \A v \in U : u <= v
  BY <1>1, LeastElement
<1>3. PICK x \in T : u = N - x
  OBVIOUS
<1>4. ASSUME NEW y \in T  PROVE y <= x
  <2>1. N - x <= N - y
    BY <1>2, <1>3
  <2>2. x \in Nat /\ y \in Nat
    OBVIOUS
  <2> QED
    BY <2>1, <2>2
<1> QED
  BY <1>4

\* A row some request has to take next, held by another: the holder, if it waits
\* too, waits for a greater row.  Ids are bounded, so somebody does not wait.
LEMMA NobodyWaitsInACircle ==
  ASSUME NEW N \in Nat, Postings \subseteq 0..N, LInv
  PROVE  NoCircularWait
<1> SUFFICES ASSUME NEW a \in Requests, pc[a] \in Active,
                    \A r \in Requests : pc[r] \in Active => Blocked(r)
             PROVE  FALSE
  BY DEF NoCircularWait
<1> USE TriageAssumption
<1> DEFINE Waiting == {r \in Requests : pc[r] = "locking"}
           Wanted == {p \in Postings : \E r \in Waiting : p \in NextRow(r)}
<1>1. ASSUME NEW r \in Waiting
      PROVE  \E p \in Postings : p \in NextRow(r) /\ p \in todo[r] /\ lock[p] # Nobody
  <2>1. todo[r] \in SUBSET Nat /\ todo[r] # {} /\ todo[r] \subseteq Postings
    BY DEF LInv, EInv, IInv, TypeOK, RowsInHand
  <2>2. PICK p \in todo[r] : \A y \in todo[r] : p <= y
    BY <2>1, LeastElement
  <2>3. p \in NextRow(r) /\ p \in Postings
    BY <2>1, <2>2 DEF NextRow
  <2>4. Blocked(r)
    BY DEF Active
  <2> QED
    BY <2>2, <2>3, <2>4 DEF Blocked
<1>2. a \in Waiting
  BY DEF Blocked
<1>3. Wanted \in SUBSET (0..N) /\ Wanted # {}
  BY <1>1, <1>2
<1>4. PICK p \in Wanted : \A y \in Wanted : y <= p
  BY <1>3, GreatestElement
<1>5. PICK r \in Waiting : p \in NextRow(r)
  OBVIOUS
<1>6. lock[p] \in Requests
  <2>1. Blocked(r)
    BY DEF Active
  <2> QED
    BY <1>5, <2>1 DEF Blocked, LInv, EInv, IInv, TypeOK
<1> DEFINE q == lock[p]
<1>7. pc[q] \in Holding /\ p \in rows[q] /\ p \notin todo[q]
  BY <1>6 DEF LInv, EInv, IInv, LocksHeld
<1>8. q \in Waiting
  <2>1. pc[q] \in Active
    BY <1>7 DEF Holding, Active
  <2> QED
    BY <1>6, <2>1 DEF Blocked
<1>9. PICK y \in Postings : y \in NextRow(q) /\ y \in todo[q]
  BY <1>1, <1>8
<1>10. p < y
  BY <1>6, <1>7, <1>8, <1>9 DEF LInv, LocksAscend
<1>11. y <= p
  BY <1>4, <1>8, <1>9
<1> QED
  BY <1>4, <1>9, <1>10, <1>11

-------------------------------------------------------------------------------
\* Theorems.

\* Bulk and single requests over overlapping postings never wait for each other
\* in a circle, because all take their rows in the order of the ids
\* (set_status_bulk: "ordered by id, avoiding deadlock").  Ids are bounded: the
\* column is an INTEGER.
THEOREM NoDeadlock ==
  ASSUME NEW N \in Nat, Postings \subseteq 0..N
  PROVE  Spec => []NoCircularWait
<1>1. LInv => NoCircularWait
  BY NobodyWaitsInACircle
<1> QED
  BY <1>1, LInvariance, PTL

\* A row written by set_status is never dated before a row it follows.
THEOREM SingleStampsInOrder == Spec => []SingleStampsNeverBackdate
<1>1. LInv => SingleStampsNeverBackdate
  BY DEF LInv
<1> QED
  BY <1>1, LInvariance, PTL

===============================================================================
