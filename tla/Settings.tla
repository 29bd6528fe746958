------------------------------- MODULE Settings -------------------------------
(***************************************************************************)
(* The runtime settings (services/settings.py, app_settings, RunConfig):   *)
(* saves of the whole form, key by key in one transaction, against each    *)
(* other and against the runs that resolve their configuration, key by     *)
(* key too.  session.get flushes what is pending before it reads: so the   *)
(* UPDATE of one key takes its row before the next key is read.            *)
(*                                                                         *)
(* The validators decide about one form at a time; what they let through   *)
(* is the constant Forms.                                                  *)
(***************************************************************************)
EXTENDS Naturals, FiniteSets

CONSTANTS Savers,     \* POST /settings requests, each to a web process of its own: a
                      \* save holds the event loop of its process to the end
          Runs,       \* pipeline runs, each in a session of its own
          Keys,       \* EDITABLE_KEYS, as numbers in their order
          Values,
          Default,    \* of a key: environment, else code
          Forms,      \* what _EditableModel accepts
          NoRow, Nobody

ASSUME SettingsAssumption ==
  /\ Keys \subseteq Nat /\ IsFiniteSet(Keys) /\ Keys # {}
  /\ Default \in [Keys -> Values] /\ Forms \subseteq [Keys -> Values]
  /\ NoRow \notin Values /\ Nobody \notin Savers /\ Savers \cap Runs = {}

VARIABLES stored,   \* app_settings: of a key, its value or NoRow
          holds,    \* of a key: the save whose open transaction wrote it
          at,       \* of a save: where it is
          todo,     \* of a save or a run: the keys it has not come to yet
          want,     \* of a save: the form
          saw,      \* of a save: the row as read, for the key in hand
          config,   \* of a run: RunConfig, as far as it is resolved
          joined,   \* history: of a save, another has committed since it began
          current   \* history: of a run and a key, its effective values since the run began

saving == <<stored, holds, at, want, saw>>
settingsVars == <<saving, todo, config, joined, current>>

\* get: the row if there is one, else the default.
Effective(k) == IF stored[k] = NoRow THEN Default[k] ELSE stored[k]

SettingsTypeOK ==
  /\ stored \in [Keys -> Values \cup {NoRow}]
  /\ holds \in [Keys -> Savers \cup {Nobody}]
  /\ at \in [Savers -> {"idle", "read", "write", "commit", "saved", "refused", "failed"}]
  /\ todo \in [Savers \cup Runs -> SUBSET Keys]
  /\ want \in [Savers -> Forms]
  /\ saw \in [Savers -> Values \cup {NoRow}]
  /\ \A a \in Savers : at[a] \in {"read", "write"} => todo[a] # {}
  /\ \A r \in Runs : DOMAIN config[r] \in SUBSET Keys /\ \A k \in DOMAIN config[r] : config[r][k] \in Values
  /\ \A k \in Keys : holds[k] # Nobody => at[holds[k]] \in {"read", "write", "commit"}

SettingsInit ==
  /\ \E f \in Forms : stored \in {f, [k \in Keys |-> NoRow]}
  /\ holds = [k \in Keys |-> Nobody]
  /\ at = [a \in Savers |-> "idle"]
  /\ todo = [x \in Savers \cup Runs |-> {}]
  /\ want \in [Savers -> {CHOOSE f \in Forms : TRUE}]
  /\ saw = [a \in Savers |-> NoRow]
  /\ config = [r \in Runs |-> <<>>]
  /\ joined = [a \in Savers |-> FALSE]
  /\ current = [r \in Runs |-> [k \in Keys |-> {}]]

-------------------------------------------------------------------------------
\* set_many.

FormOrder(x) ==  \* Mutant: the order of the form's fields, which is the client's.
  {k \in todo[x] : \A l \in todo[x] : IF x = CHOOSE a \in Savers : TRUE THEN l <= k ELSE k <= l}
NextKey(x) == {k \in todo[x] : \A l \in todo[x] : k <= l}

ReleaseNothing(a) == UNCHANGED holds  \* Mutant: a pooled connection keeps its transaction.
Release(a) == holds' = [k \in Keys |-> IF holds[k] = a THEN Nobody ELSE holds[k]]

\* Validation fails: 400, nothing was read.
RefuseForm(a) ==
  /\ at[a] = "idle"
  /\ at' = [at EXCEPT ![a] = "refused"]
  /\ UNCHANGED <<stored, holds, want, saw, todo, config, joined, current>>

ChangedOnly(form) == {k \in Keys : form[k] # Default[k]}  \* Mutant: defaults are not stored.
Saved(form) == Keys

BeginSave(a, form) ==
  /\ at[a] = "idle"
  /\ at' = [at EXCEPT ![a] = "read"]
  /\ want' = [want EXCEPT ![a] = form]
  /\ todo' = [todo EXCEPT ![a] = Saved(form)]
  /\ UNCHANGED <<stored, holds, saw, config, joined, current>>

Past(a, k) ==
  /\ todo' = [todo EXCEPT ![a] = @ \ {k}]
  /\ at' = [at EXCEPT ![a] = IF todo[a] = {k} THEN "commit" ELSE "read"]

\* session.get; assigning the value that is there already sends nothing.
ReadKey(a) ==
  /\ at[a] = "read"
  /\ \E k \in NextKey(a) :
       IF stored[k] = want[a][k]
       THEN Past(a, k) /\ UNCHANGED saw
       ELSE /\ at' = [at EXCEPT ![a] = "write"]
            /\ saw' = [saw EXCEPT ![a] = stored[k]]
            /\ UNCHANGED todo
  /\ UNCHANGED <<stored, holds, want, config, joined, current>>

\* The flush: an UPDATE, or an INSERT where no row was found.  Either waits for
\* the transaction that has written the key.
WriteKey(a) ==
  /\ at[a] = "write"
  /\ \E k \in NextKey(a) :
       /\ holds[k] = Nobody
       /\ saw[a] = NoRow => stored[k] = NoRow
       /\ holds' = [holds EXCEPT ![k] = a]
       /\ Past(a, k)
  /\ saw' = [saw EXCEPT ![a] = NoRow]
  /\ UNCHANGED <<stored, want, config, joined, current>>

Rollback(a) ==
  /\ at' = [at EXCEPT ![a] = "failed"]
  /\ todo' = [todo EXCEPT ![a] = {}]
  /\ saw' = [saw EXCEPT ![a] = NoRow]
  /\ Release(a)
  /\ UNCHANGED <<stored, want, config, joined, current>>

\* IntegrityError: the first save of another request got there first; 500.
Collide(a) ==
  /\ at[a] = "write" /\ saw[a] = NoRow
  /\ \E k \in NextKey(a) : holds[k] = Nobody /\ stored[k] # NoRow
  /\ Rollback(a)

\* The connection is lost.
DropSave(a) == at[a] \in {"read", "write", "commit"} /\ Rollback(a)

CommitSave(a) ==
  /\ at[a] = "commit"
  /\ stored' = [k \in Keys |-> IF holds[k] = a THEN want[a][k] ELSE stored[k]]
  /\ at' = [at EXCEPT ![a] = "saved"]
  /\ joined' = [b \in Savers |-> joined[b] \/ (b # a /\ at[b] \in {"read", "write", "commit"})]
  /\ current' = [r \in Runs |-> [k \in Keys |->
                    IF current[r][k] = {} THEN {} ELSE current[r][k] \cup {Effective(k)'}]]
  /\ Release(a)
  /\ UNCHANGED <<todo, want, saw, config>>

-------------------------------------------------------------------------------
\* RunConfig.resolve.

BeginResolve(r) ==
  /\ todo' = [todo EXCEPT ![r] = Keys]
  /\ current' = [current EXCEPT ![r] = [k \in Keys |-> {Effective(k)}]]
  /\ UNCHANGED <<saving, config, joined>>

DefaultFirst(k) == Default[k]  \* Mutant: the environment wins over the table.
Resolved(k) == Effective(k)

ResolveKey(r) ==
  /\ \E k \in NextKey(r) :
       /\ config' = [config EXCEPT ![r] =
            [l \in DOMAIN @ \cup {k} |-> IF l = k THEN Resolved(k) ELSE @[l]]]
       /\ todo' = [todo EXCEPT ![r] = @ \ {k}]
  /\ UNCHANGED <<saving, joined, current>>

ServeSave(a) == ReadKey(a) \/ WriteKey(a) \/ Collide(a) \/ CommitSave(a)

SettingsNext ==
  \E a \in Savers :
    RefuseForm(a) \/ (\E f \in Forms : BeginSave(a, f)) \/ ServeSave(a) \/ DropSave(a)
===============================================================================
