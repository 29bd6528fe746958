----------------------------- MODULE TriageLedger -----------------------------
(***************************************************************************)
(* What services/triage.py promises its callers (ADR-0013, ADR-0014): the  *)
(* triage state of the postings moves as if every request ran alone.  A    *)
(* request moves its whole selection to one status in one step or does     *)
(* nothing, and writes beside each status the row that says where the      *)
(* posting came from.  Nothing is said here of locks, of sessions or of    *)
(* the moment a timestamp is taken; Triage.tla implements this.            *)
(***************************************************************************)
EXTENDS Naturals, Sequences

CONSTANTS Requests, Postings, STATUSES, STATUS_NEW, NoStatus, Migration,
          Times      \* the timestamps a row may carry

VARIABLES status,   \* status[p]: the column, NoStatus while p does not exist
          history   \* history[p]: the rows of posting_status_history, in commit order

vars == <<status, history>>

Existing == {p \in Postings : status[p] # NoStatus}

\* Postings that predate the history table carry one baseline row and no more.
Init ==
  /\ status \in [Postings -> STATUSES \cup {NoStatus}]
  /\ history = [p \in Postings |->
        IF status[p] = NoStatus THEN <<>>
        ELSE <<[previous_status |-> NoStatus, new_status |-> status[p],
                changed_at |-> 0, by |-> Migration]>>]

\* Stage 2 inserts postings nobody has seen before: always born new.
Born(S) ==
  /\ S # {} /\ S \cap Existing = {}
  /\ status' = [p \in Postings |-> IF p \in S THEN STATUS_NEW ELSE status[p]]
  /\ UNCHANGED history

\* Request r takes effect, whole: each row records the status it replaced.
Moved(r, S, s, t) ==
  /\ S # {} /\ S \subseteq Existing
  /\ \A p \in Postings : \A i \in DOMAIN history[p] : history[p][i].by # r
  /\ status' = [p \in Postings |-> IF p \in S THEN s ELSE status[p]]
  /\ history' = [p \in Postings |->
        IF p \in S
        THEN Append(history[p], [previous_status |-> status[p], new_status |-> s,
                                 changed_at |-> t, by |-> r])
        ELSE history[p]]

Next == \/ \E S \in SUBSET Postings : Born(S)
        \/ \E r \in Requests, S \in SUBSET Postings, s \in STATUSES, t \in Times :
              Moved(r, S, s, t)

Spec == Init /\ [][Next]_vars
===============================================================================
