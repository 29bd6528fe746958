----------------------------- MODULE IngestProofs -----------------------------
(***************************************************************************)
(* What Ingest.tla guarantees for any number of runs, of `normalise`       *)
(* invocations, listings, boards, roles and employers.  The argument is    *)
(* the one the unique indexes are there for.  A job decides what to insert *)
(* from a lookup that goes stale; but it inserts a role only while it has  *)
(* the role's key to itself and the key is free, and it keeps the key      *)
(* until its transaction ends.  So of the jobs that found a role missing,  *)
(* one commits it.  The links of a batch are written with the postings, in *)
(* one commit: a batch is folded whole or not at all, but where an         *)
(* exception left a run's handler with the part folded so far.             *)
(***************************************************************************)
EXTENDS Ingest, FiniteSetTheorems, SequenceTheorems, WellFoundedInduction, TLAPS

\* Stage 2 has read a batch; it has looked its employers up too and is writing.
HasRead(j) == pc[j] \in {"lookup", "write", "commit"}
InHand(j)  == pc[j] \in {"write", "commit"}

\* The roles a job found no posting for, and is to insert.
Missing(j) == RolesOf(plan[j]) \ KnownRoles(known[j])

\* A run lands one batch, folds only that batch, and is closed as what it did.
RunsTrack ==
  \A r \in Runs :
    /\ IsFiniteSet(raw[r])
    /\ pc[r] \in {"idle", "open"} => raw[r] = {}
    /\ batch[r] \in {r, Nobody}
    /\ pc[r] = "load" \/ HasRead(r) => batch[r] = r
    /\ pc[r] \in {"close", "ok"} /\ batch[r] = r => \A l \in raw[r] : <<r, l>> \in link
    /\ status[r] = "failed" => pc[r] = "error"
    /\ status[r] = "success" => pc[r] = "ok"

\* `normalise` opens and closes no run; it folds one.
NormalisersTrack ==
  \A c \in Normalisers :
    /\ pc[c] \notin {"open", "close"}
    /\ pc[c] = "load" \/ HasRead(c) => batch[c] \in Runs

\* What a session holds work for is the batch, or a part of it if it is to fail.
PlanIsBatch ==
  \A j \in Jobs : HasRead(j) =>
    /\ plan[j] \subseteq raw[batch[j]]
    /\ pc[j] = "lookup" \/ verdict[j] = "ok" =>
         /\ plan[j] = {} \/ plan[j] = raw[batch[j]]
         /\ j \in Runs => plan[j] = raw[j]

\* A role of the plan is still to be written, or its key is held; and if it was
\* to be inserted, no row has it by now: the unique index has the last word on a
\* stale lookup.
Mine(j, f) ==
  held[<<"posting", f>>] = j /\ (f \in KnownRoles(posting) => f \in KnownRoles(known[j]))
Claimed(j, f) == Mine(j, f) \/ \E n \in DOMAIN todo[j] : todo[j][n] = <<"posting", f>>
Claims == \A j \in Jobs : InHand(j) => \A f \in RolesOf(plan[j]) : Claimed(j, f)

NothingLeft == \A j \in Jobs : pc[j] = "commit" => todo[j] = <<>>

\* Postings are never removed, so a role the lookup found is still there.
KnownStays == \A j \in Jobs : HasRead(j) => KnownRoles(known[j]) \subseteq KnownRoles(posting)

HasOrigin(p) == \E s \in Sites : p.sources[s] = p.born
KnownOrigins == \A j \in Jobs : HasRead(j) => \A q \in known[j] : HasOrigin(q)

\* Keys are held by jobs that write; and one that makes no posting, in the order
\* of the ids.
HeldInHand == \A k \in Key : held[k] \in Jobs => InHand(held[k])

ByIds(w, H) ==
  \A n \in DOMAIN w :
    /\ w[n] \in Key /\ w[n][1] = "posting"
    /\ \A m \in 1..(n - 1) : IdOf[w[m][2]] < IdOf[w[n][2]]
    /\ \A k \in H : k[1] = "posting" /\ IdOf[k[2]] < IdOf[w[n][2]]
Ascends ==
  \A j \in Jobs :
    pc[j] = "write" /\ RolesOf(raw[batch[j]]) \subseteq KnownRoles(known[j]) =>
      ByIds(todo[j], {k \in Key : held[k] = j})

IInv == /\ TypeOK
        /\ RunsTrack
        /\ NormalisersTrack
        /\ PlanIsBatch
        /\ Claims
        /\ NothingLeft
        /\ KnownStays
        /\ KnownOrigins
        /\ HeldInHand
        /\ Ascends
        /\ OnePostingPerRole
        /\ OriginKept
        /\ FoldAllOrNothing

-------------------------------------------------------------------------------
\* What a batch writes: the key of every role it folds, in an order of its own.

\* A set of writes that a flush can send in one order only.
Linear(S) ==
  /\ IsFiniteSet(S)
  /\ \A a \in S : a.flush \in Nat /\ a.turn \in Nat /\ a.rank \in Nat /\ a.key \in Key
  /\ \A a, b \in S : a # b => Before(a, b) \/ Before(b, a)

Lists(w, R) == \A f \in R : \E n \in DOMAIN w : w[n] = <<"posting", f>>

LEMMA PlaceIsRank ==
  ASSUME NEW S, Linear(S)
  PROVE  /\ Cardinality(S) \in Nat
         /\ \A a \in S : Place(a, S) \in 0..(Cardinality(S) - 1)
         /\ \A a, b \in S : Place(a, S) = Place(b, S) => a = b
         /\ \A a, b \in S : Place(a, S) < Place(b, S) => Before(a, b)
         /\ \A n \in 0..(Cardinality(S) - 1) : \E a \in S : Place(a, S) = n
<1> DEFINE N == Cardinality(S)
           Below(a) == {b \in S : Before(b, a)}
<1>0. IsFiniteSet(S) /\ N \in Nat
  BY FS_CardinalityType DEF Linear
<1>1. ASSUME NEW a \in S
      PROVE  IsFiniteSet(Below(a)) /\ Place(a, S) = Cardinality(Below(a)) /\ Place(a, S) \in 0..(N - 1)
  <2>1. Below(a) \in SUBSET (S \ {a})
    BY DEF Before, Linear
  <2>2. IsFiniteSet(S \ {a}) /\ Cardinality(S \ {a}) = N - 1
    BY <1>0, FS_RemoveElement
  <2>3. IsFiniteSet(Below(a)) /\ Cardinality(Below(a)) <= N - 1
    BY <2>1, <2>2, FS_Subset
  <2>4. Cardinality(Below(a)) \in Nat
    BY <2>3, FS_CardinalityType
  <2> QED
    BY <1>0, <2>3, <2>4 DEF Place
<1>2. ASSUME NEW a \in S, NEW b \in S, Before(a, b)  PROVE Place(a, S) < Place(b, S)
  <2>1. Below(a) \in SUBSET Below(b)
    BY <1>2, SMT DEF Before, Linear
  <2>2. a \in Below(b) /\ a \notin Below(a)
    BY <1>2 DEF Before, Linear
  <2>3. Cardinality(Below(a)) <= Cardinality(Below(b)) /\ Cardinality(Below(a)) # Cardinality(Below(b))
    BY <1>1, <2>1, <2>2, FS_Subset
  <2> HIDE DEF Below
  <2> QED
    BY <1>0, <1>1, <2>3
<1>3. ASSUME NEW a \in S, NEW b \in S, Place(a, S) = Place(b, S)  PROVE a = b
  <2>1. a # b => Before(a, b) \/ Before(b, a)
    BY DEF Linear
  <2> HIDE DEF Below
  <2>2. Place(a, S) \in Nat /\ Place(b, S) \in Nat
    BY <1>0, <1>1
  <2> QED
    BY <1>2, <1>3, <2>1, <2>2
<1>4. \A n \in 0..(N - 1) : \E a \in S : Place(a, S) = n
  <2> DEFINE f == [a \in S |-> Place(a, S)]
  <2>1. f \in Injection(S, 0..(N - 1))
    BY <1>1, <1>3 DEF Injection, IsInjective
  <2>2. IsFiniteSet(0..(N - 1)) /\ Cardinality(0..(N - 1)) = N
    BY <1>0, FS_Interval
  <2>3. f \in Surjection(S, 0..(N - 1))
    BY <2>1, <2>2, FS_Injection, Zenon
  <2> QED
    BY <2>3 DEF Surjection
<1>5. ASSUME NEW a \in S, NEW b \in S, Place(a, S) < Place(b, S)  PROVE Before(a, b)
  <2> HIDE DEF Below
  <2>1. Place(a, S) \in Nat /\ Place(b, S) \in Nat
    BY <1>0, <1>1
  <2>2. a # b /\ ~ Before(b, a)
    BY <1>2, <1>5, <2>1
  <2> QED
    BY <2>2 DEF Linear
<1> QED
  BY <1>0, <1>1, <1>3, <1>4, <1>5

LEMMA InOrderLists ==
  ASSUME NEW S, Linear(S)
  PROVE  /\ InOrder(S) \in Seq(Key)
         /\ \A a \in S : \E n \in DOMAIN InOrder(S) : InOrder(S)[n] = a.key
         /\ \A n \in DOMAIN InOrder(S) : \E a \in S : InOrder(S)[n] = a.key
         /\ \A n \in DOMAIN InOrder(S) : \A m \in 1..(n - 1) :
              \E a, b \in S : InOrder(S)[m] = a.key /\ InOrder(S)[n] = b.key /\ Before(a, b)
<1> DEFINE N == Cardinality(S)
           Nth(n) == CHOOSE a \in S : Place(a, S) = n - 1
<1>0. N \in Nat
  BY PlaceIsRank
<1>1. ASSUME NEW n \in 1..N  PROVE Nth(n) \in S /\ Place(Nth(n), S) = n - 1
  <2>1. n - 1 \in 0..(N - 1)
    BY <1>0
  <2> QED
    BY <2>1, PlaceIsRank
<1>2. InOrder(S) = [n \in 1..N |-> Nth(n).key]
  BY DEF InOrder
<1>3. \A n \in 1..N : Nth(n).key \in Key
  BY <1>1 DEF Linear
<1> HIDE DEF Nth
<1>4. InOrder(S) \in Seq(Key)
  <2>1. InOrder(S) \in [1..N -> Key]
    BY <1>2, <1>3
  <2> QED
    BY <1>0, <2>1
<1>5. ASSUME NEW a \in S  PROVE \E n \in DOMAIN InOrder(S) : InOrder(S)[n] = a.key
  <2>1. Place(a, S) + 1 \in 1..N /\ Place(a, S) = (Place(a, S) + 1) - 1
    BY <1>0, PlaceIsRank
  <2>2. Nth(Place(a, S) + 1) = a
    BY <1>1, <2>1, PlaceIsRank
  <2> QED
    BY <1>2, <2>1, <2>2
<1>6. \A n \in DOMAIN InOrder(S) : \E a \in S : InOrder(S)[n] = a.key
  BY <1>1, <1>2
<1>7. ASSUME NEW n \in DOMAIN InOrder(S), NEW m \in 1..(n - 1)
      PROVE  \E a, b \in S : InOrder(S)[m] = a.key /\ InOrder(S)[n] = b.key /\ Before(a, b)
  <2>1. n \in 1..N /\ m \in 1..N /\ m - 1 < n - 1
    BY <1>0, <1>2
  <2>2. Before(Nth(m), Nth(n))
    BY <1>1, <2>1, PlaceIsRank
  <2> QED
    BY <1>1, <1>2, <2>1, <2>2
<1> QED
  BY <1>4, <1>5, <1>6, <1>7

LEMMA LeastIndex ==
  ASSUME NEW T \in SUBSET Nat, T # {}
  PROVE  \E x \in T : \A y \in T : x <= y
<1> DEFINE Less == {ss \in Nat \X Nat : ss[1] < ss[2]}
<1>1. IsWellFoundedOn(Less, Nat)
  BY NatLessThanWellFounded DEF OpToRel
<1> HIDE DEF Less
<1>2. PICK x \in T : \A y \in T : ~ (<<y, x>> \in Less)
  BY <1>1, WFMin
<1>3. \A y \in T : ~(y < x)
  BY <1>2 DEF Less
<1> QED
  BY <1>2, <1>3

LEMMA OrdersList ==
  ASSUME NEW S, IsFiniteSet(S), S \subseteq Listings, NEW rows \in Orders(S)
  PROVE  /\ Cardinality(S) \in Nat /\ DOMAIN rows = 1..Cardinality(S)
         /\ \A i \in DOMAIN rows : rows[i] \in S
         /\ \A l \in S : \E i \in DOMAIN rows : rows[i] = l
<1> DEFINE N == Cardinality(S)
<1>0. N \in Nat
  BY FS_CardinalityType
<1>1. rows \in [1..N -> S] /\ \A i, j \in 1..N : i # j => rows[i] # rows[j]
  BY DEF Orders, SetToSeqs
<1>2. rows \in Injection(1..N, S)
  BY <1>1 DEF Injection, IsInjective
<1>3. IsFiniteSet(1..N) /\ Cardinality(1..N) = N
  BY <1>0, FS_Interval
<1>4. rows \in Surjection(1..N, S)
  BY <1>2, <1>3, FS_Injection, Zenon
<1> QED
  BY <1>0, <1>1, <1>4 DEF Surjection

\* The rows before the one that raises; they come with the first row of their role.
LEMMA FoldsIsPrefix ==
  ASSUME NEW S, IsFiniteSet(S), S \subseteq Listings, NEW rows \in Orders(S), NEW F, NEW E,
         NEW i \in Folds(rows, F, E), NEW h \in 1..i
  PROVE  h \in Folds(rows, F, E)
BY OrdersList DEF Folds, Raises, Makes

LEMMA PendingIsLinear ==
  ASSUME NEW S, IsFiniteSet(S), S \subseteq Listings, NEW rows \in Orders(S),
         NEW F \in SUBSET Roles, NEW E \in SUBSET Employers, NEW H \in SUBSET (DOMAIN rows)
  PROVE  /\ Linear(Pending(rows, F, E, H))
         /\ \A i \in Folds(rows, F, E) :
              \E a \in Pending(rows, F, E, H) : a.key = <<"posting", RoleOf[rows[i]]>>
<1> DEFINE N == Cardinality(S)
           Role(i) == RoleOf[rows[i]]
           firsts == {i \in Folds(rows, F, E) : \A h \in 1..(i - 1) : Role(h) # Role(i)}
           Pre(i) == Cardinality({h \in H : h < i})
           Upto(i) == Cardinality({h \in H : h <= i})
           hire(i) == [flush |-> Pre(i), turn |-> 0, rank |-> 0, key |-> <<"employer", EmployerOf[Role(i)]>>]
           sight(i) == [flush |-> Pre(i), turn |-> 1, rank |-> IdOf[Role(i)], key |-> <<"posting", Role(i)>>]
           birth(i) == [flush |-> Upto(i), turn |-> 2, rank |-> i, key |-> <<"posting", Role(i)>>]
           Seen == {i \in firsts : Role(i) \in F}
           Born == {i \in firsts : Role(i) \notin F}
<1>0. N \in Nat /\ DOMAIN rows = 1..N /\ \A i \in 1..N : rows[i] \in S
  BY OrdersList
<1>1. Pending(rows, F, E, H) = {hire(i) : i \in H} \cup {sight(i) : i \in Seen} \cup {birth(i) : i \in Born}
  <2>1. Seen = {i \in Folds(rows, F, E) : Role(i) \in F /\ \A h \in 1..(i - 1) : Role(h) # Role(i)}
    OBVIOUS
  <2>2. Born = Makes(rows, F) \cap Folds(rows, F, E)
    BY DEF Makes, Folds
  <2> QED
    BY <2>1, <2>2 DEF Pending, UpdateRank
<1>2. H \subseteq 1..N /\ firsts \subseteq 1..N /\ Seen \subseteq firsts /\ Born \subseteq firsts
  BY <1>0 DEF Folds
<1>3. \A i \in 1..N : Role(i) \in Roles /\ EmployerOf[Role(i)] \in Employers /\ IdOf[Role(i)] \in Nat
  BY <1>0, IngestAssumption
<1>4. \A i \in 1..N : Pre(i) \in Nat /\ Upto(i) \in Nat
  <2>1. IsFiniteSet(1..N)
    BY <1>0, FS_Interval
  <2>2. \A i \in 1..N : {h \in H : h < i} \in SUBSET (1..N) /\ {h \in H : h <= i} \in SUBSET (1..N)
    BY <1>2
  <2>3. \A T \in SUBSET (1..N) : Cardinality(T) \in Nat
    BY <2>1, FS_Subset, FS_CardinalityType
  <2> QED
    BY <2>2, <2>3
<1>5. ASSUME NEW i \in H, NEW j \in H, i < j  PROVE Pre(i) # Pre(j)
  <2> DEFINE A == {h \in H : h < i}
             B == {h \in H : h < j}
  <2>1. A \in SUBSET B /\ B \in SUBSET (1..N) /\ i \in B /\ i \notin A
    BY <1>0, <1>2, <1>5
  <2>2. IsFiniteSet(B)
    <3>1. IsFiniteSet(1..N)
      BY <1>0, FS_Interval
    <3> QED
      BY <2>1, <3>1, FS_Subset
  <2> HIDE DEF A, B
  <2>3. Cardinality(A) # Cardinality(B)
    BY <2>1, <2>2, FS_Subset
  <2> QED
    BY <2>3 DEF A, B
<1>6. ASSUME NEW i \in firsts, NEW j \in firsts, i # j  PROVE Role(i) # Role(j)
  BY <1>0, <1>2, <1>6
<1>7. IsFiniteSet(Pending(rows, F, E, H))
  <2>1. IsFiniteSet(1..N)
    BY <1>0, FS_Interval
  <2>2. IsFiniteSet(H) /\ IsFiniteSet(Seen) /\ IsFiniteSet(Born)
    <3>1. H \in SUBSET (1..N) /\ Seen \in SUBSET (1..N) /\ Born \in SUBSET (1..N)
      BY <1>2
    <3> HIDE DEF Seen, Born
    <3> QED
      BY <2>1, <3>1, FS_Subset
  <2> HIDE DEF Seen, Born, hire, sight, birth
  <2>3. IsFiniteSet({hire(i) : i \in H})
    <3>1. [i \in H |-> hire(i)] \in Surjection(H, {hire(i) : i \in H})
      BY DEF Surjection
    <3> QED
      BY <2>2, <3>1, FS_Surjection
  <2>4. IsFiniteSet({sight(i) : i \in Seen})
    <3>1. [i \in Seen |-> sight(i)] \in Surjection(Seen, {sight(i) : i \in Seen})
      BY DEF Surjection
    <3> QED
      BY <2>2, <3>1, FS_Surjection
  <2>5. IsFiniteSet({birth(i) : i \in Born})
    <3>1. [i \in Born |-> birth(i)] \in Surjection(Born, {birth(i) : i \in Born})
      BY DEF Surjection
    <3> QED
      BY <2>2, <3>1, FS_Surjection
  <2> QED
    BY <1>1, <2>3, <2>4, <2>5, FS_Union
<1>8. \A i \in Folds(rows, F, E) :
        \E a \in Pending(rows, F, E, H) : a.key = <<"posting", RoleOf[rows[i]]>>
  <2> TAKE i \in Folds(rows, F, E)
  <2> DEFINE T == {h \in 1..i : Role(h) = Role(i)}
  <2>1. i \in 1..N
    BY <1>0 DEF Folds
  <2>2. T \in SUBSET Nat /\ T # {}
    BY <1>0, <2>1
  <2>3. PICK x \in T : \A y \in T : x <= y
    <3> HIDE DEF T
    <3> QED
      BY <2>2, LeastIndex
  <2>6. x \in firsts
    <3>1. x \in Folds(rows, F, E) /\ x \in 1..N
      BY <1>0, <2>1, FoldsIsPrefix
    <3> QED
      BY <1>0, <2>1, <2>3, <3>1
  <2>4. CASE Role(x) \in F
    <3>1. x \in Seen
      BY <2>6, <2>4
    <3>2. sight(x) \in Pending(rows, F, E, H)
      BY <1>1, <3>1
    <3> QED
      BY <2>3, <3>2
  <2>5. CASE Role(x) \notin F
    <3>1. x \in Born
      BY <2>6, <2>5
    <3>2. birth(x) \in Pending(rows, F, E, H)
      BY <1>1, <3>1
    <3> QED
      BY <2>3, <3>2
  <2> QED
    BY <2>4, <2>5
<1>9. \A a \in Pending(rows, F, E, H) : a.flush \in Nat /\ a.turn \in Nat /\ a.rank \in Nat /\ a.key \in Key
  <2>1. \A i \in H : hire(i).flush \in Nat /\ hire(i).turn \in Nat /\ hire(i).rank \in Nat /\ hire(i).key \in Key
    BY <1>2, <1>3, <1>4 DEF Key
  <2>2. \A i \in Seen : sight(i).flush \in Nat /\ sight(i).turn \in Nat /\ sight(i).rank \in Nat /\ sight(i).key \in Key
    BY <1>2, <1>3, <1>4 DEF Key
  <2>3. \A i \in Born : birth(i).flush \in Nat /\ birth(i).turn \in Nat /\ birth(i).rank \in Nat /\ birth(i).key \in Key
    <3>1. ASSUME NEW i \in Born
          PROVE  i \in Nat /\ Upto(i) \in Nat /\ <<"posting", Role(i)>> \in Key
      <4>1. i \in 1..N
        BY <1>2
      <4>2. <<"posting", Role(i)>> \in Key
        BY <1>3, <4>1 DEF Key
      <4>3. Upto(i) \in Nat
        BY <1>4, <4>1
      <4> QED
        BY <1>0, <4>1, <4>2, <4>3
    <3> HIDE DEF Born, Upto
    <3> QED
      BY <3>1
  <2> HIDE DEF Seen, Born, hire, sight, birth
  <2> QED
    BY <1>1, <2>1, <2>2, <2>3
<1>10. ASSUME NEW a \in Pending(rows, F, E, H), NEW b \in Pending(rows, F, E, H), a # b
       PROVE  Before(a, b) \/ Before(b, a)
  <2>0. ASSUME NEW c \in Pending(rows, F, E, H)
        PROVE  \/ c.turn = 0 /\ \E i \in H : c = hire(i)
               \/ c.turn = 1 /\ \E i \in Seen : c = sight(i)
               \/ c.turn = 2 /\ \E i \in Born : c = birth(i)
    <3>1. \A i : hire(i).turn = 0 /\ sight(i).turn = 1 /\ birth(i).turn = 2
      OBVIOUS
    <3> HIDE DEF Seen, Born, hire, sight, birth
    <3> QED
      BY <1>1, <3>1
  <2>1. \/ a.turn = 0 /\ \E i \in H : a = hire(i)
        \/ a.turn = 1 /\ \E i \in Seen : a = sight(i)
        \/ a.turn = 2 /\ \E i \in Born : a = birth(i)
    BY <2>0
  <2>2. \/ b.turn = 0 /\ \E i \in H : b = hire(i)
        \/ b.turn = 1 /\ \E i \in Seen : b = sight(i)
        \/ b.turn = 2 /\ \E i \in Born : b = birth(i)
    BY <2>0
  <2>3. a.flush # b.flush \/ a.turn # b.turn \/ a.rank # b.rank => Before(a, b) \/ Before(b, a)
    BY <1>9 DEF Before
  <2>4. ASSUME NEW i \in H, a = hire(i), NEW j \in H, b = hire(j)  PROVE a.flush # b.flush
    <3>1. i # j /\ i \in 1..N /\ j \in 1..N
      <4> HIDE DEF hire
      <4> QED
        BY <1>2, <1>10, <2>4
    <3>2. Pre(i) # Pre(j)
      <4>1. i < j \/ j < i
        BY <1>0, <3>1
      <4> QED
        BY <1>5, <4>1
    <3> QED
      BY <2>4, <3>2
  <2>5. ASSUME NEW i \in Seen, a = sight(i), NEW j \in Seen, b = sight(j)  PROVE a.rank # b.rank
    <3>1. Role(i) # Role(j) /\ Role(i) \in Roles /\ Role(j) \in Roles
      BY <1>2, <1>3, <1>6, <1>10, <2>5
    <3>2. IdOf[Role(i)] # IdOf[Role(j)]
      BY <3>1, IngestAssumption
    <3> QED
      BY <2>5, <3>2
  <2>6. ASSUME NEW i \in Born, a = birth(i), NEW j \in Born, b = birth(j)  PROVE a.rank # b.rank
    BY <1>10, <2>6
  <2> HIDE DEF Seen, Born, hire, sight, birth
  <2> QED
    BY <2>1, <2>2, <2>3, <2>4, <2>5, <2>6
<1> QED
  BY <1>7, <1>8, <1>9, <1>10 DEF Linear

\* A part of a batch's writes is sent in one order, too.
LEMMA LinearPart ==
  ASSUME NEW S, Linear(S), NEW T \in SUBSET S
  PROVE  Linear(T)
<1>1. IsFiniteSet(T)
  BY FS_Subset DEF Linear
<1> QED
  BY <1>1 DEF Linear

LEMMA HiredIsRows ==
  ASSUME NEW rows, NEW F, NEW E
  PROVE  Hired(rows, F, E) \in SUBSET (DOMAIN rows)
BY DEF Hired, Hires, Makes

\* A batch of roles all found makes no posting: its UPDATEs are one flush.
LEMMA ObserversWrite ==
  ASSUME NEW S, IsFiniteSet(S), S \subseteq Listings, NEW rows \in Orders(S),
         NEW F \in SUBSET Roles, NEW E \in SUBSET Employers, RolesOf(S) \subseteq F
  PROVE  /\ Raises(rows, F, E) = {} /\ Hired(rows, F, E) = {}
         /\ Refused(rows, Pending(rows, F, E, {})) = {}
         /\ ByIds(InOrder(Pending(rows, F, E, {})), {})
<1> DEFINE W == Pending(rows, F, E, {})
<1>1. Makes(rows, F) = {}
  BY OrdersList DEF Makes, RolesOf
<1>2. Raises(rows, F, E) = {} /\ Hired(rows, F, E) = {}
  BY <1>1 DEF Raises, Hired, Hires
<1>3. ASSUME NEW a \in W
      PROVE  /\ a.flush = 0 /\ a.turn = 1 /\ a.key \in Key /\ a.key[1] = "posting"
             /\ a.rank = IdOf[a.key[2]] /\ a.rank \in Nat
  <2>1. \A i : {h \in {} : h < i} = {}
    OBVIOUS
  <2>2. Cardinality({}) = 0
    BY FS_EmptySet
  <2>3. PICK i \in DOMAIN rows :
          a = [flush |-> 0, turn |-> 1, rank |-> IdOf[RoleOf[rows[i]]], key |-> <<"posting", RoleOf[rows[i]]>>]
    BY <1>1, <2>1, <2>2 DEF Pending, UpdateRank, Folds
  <2>4. RoleOf[rows[i]] \in Roles /\ IdOf[RoleOf[rows[i]]] \in Nat
    BY OrdersList, IngestAssumption
  <2> QED
    BY <2>3, <2>4 DEF Key
<1>4. Linear(W)
  BY PendingIsLinear
<1> HIDE DEF W
<1>5. Refused(rows, W) = {}
  BY <1>3 DEF Refused
<1>6. ASSUME NEW n \in DOMAIN InOrder(W)
      PROVE  /\ InOrder(W)[n] \in Key /\ InOrder(W)[n][1] = "posting"
             /\ \A m \in 1..(n - 1) : IdOf[InOrder(W)[m][2]] < IdOf[InOrder(W)[n][2]]
  <2>1. InOrder(W)[n] \in Key /\ InOrder(W)[n][1] = "posting"
    BY <1>3, <1>4, InOrderLists
  <2>2. ASSUME NEW m \in 1..(n - 1)
        PROVE  IdOf[InOrder(W)[m][2]] < IdOf[InOrder(W)[n][2]]
    <3>1. PICK a \in W, b \in W : InOrder(W)[m] = a.key /\ InOrder(W)[n] = b.key /\ Before(a, b)
      BY <1>4, InOrderLists
    <3>2. a.rank < b.rank
      BY <1>3, <3>1 DEF Before
    <3> QED
      BY <1>3, <3>1, <3>2
  <2> QED
    BY <2>1, <2>2
<1> QED
  BY <1>2, <1>5, <1>6 DEF ByIds, W

-------------------------------------------------------------------------------
\* The invariant is inductive.

LEMMA InitIInv == Init => IInv
<1> SUFFICES ASSUME Init PROVE IInv
  OBVIOUS
<1> USE IngestAssumption DEF Init
<1>1. TypeOK
  BY DEF TypeOK, Verdicts, Jobs, Posting
<1>2. RunsTrack
  BY FS_EmptySet DEF RunsTrack, HasRead, Jobs
<1>3. NormalisersTrack /\ PlanIsBatch /\ Claims /\ NothingLeft /\ KnownStays /\ KnownOrigins
  BY DEF NormalisersTrack, PlanIsBatch, Claims, NothingLeft, KnownStays, KnownOrigins, InHand, HasRead,
         Jobs
<1>5. HeldInHand /\ Ascends
  BY DEF HeldInHand, Ascends, Jobs
<1>4. OnePostingPerRole /\ OriginKept /\ FoldAllOrNothing
  BY DEF OnePostingPerRole, OriginKept, FoldAllOrNothing
<1> QED
  BY <1>1, <1>2, <1>3, <1>4, <1>5 DEF IInv

\* What a session holds is a matter of that session and of nobody else's.
LEMMA BystanderSessions ==
  ASSUME IInv,
         \A i \in Jobs : /\ HasRead(i)' => HasRead(i)
                         /\ InHand(i)' <=> InHand(i)
                         /\ pc'[i] = "write" =>
                              pc[i] = "write" /\ batch'[i] = batch[i] /\ raw[batch[i]] \subseteq raw'[batch[i]],
         UNCHANGED <<plan, known, todo, held, posting>>
  PROVE  Claims' /\ KnownStays' /\ KnownOrigins' /\ HeldInHand' /\ Ascends'
<1>1. \A i \in Jobs : \A f : Claimed(i, f)' = Claimed(i, f)
  BY DEF Claimed, Mine
<1>2. Claims'
  BY <1>1 DEF IInv, Claims, RolesOf
<1>3. KnownStays' /\ KnownOrigins'
  BY DEF IInv, KnownStays, KnownOrigins, HasOrigin
<1>4. HeldInHand'
  BY DEF IInv, HeldInHand
<1>5. Ascends'
  BY DEF IInv, Ascends, RolesOf, KnownRoles
<1> QED
  BY <1>2, <1>3, <1>4, <1>5

\* Who stops writing lets its keys go, and the other writers keep theirs.
LEMMA OthersWrite ==
  ASSUME IInv, NEW j \in Jobs, Release(j), ~InHand(j)', raw' = raw, batch' = batch,
         \A i \in Jobs \ {j} : pc'[i] = pc[i] /\ known'[i] = known[i] /\ todo'[i] = todo[i]
  PROVE  HeldInHand' /\ Ascends'
<1>1. HeldInHand'
  BY IngestAssumption DEF IInv, TypeOK, HeldInHand, Release, InHand, Jobs
<1>2. Ascends'
  <2> SUFFICES ASSUME NEW i \in Jobs, pc'[i] = "write", RolesOf(raw[batch[i]]) \subseteq KnownRoles(known'[i])
               PROVE  ByIds(todo'[i], {k \in Key : held'[k] = i})
    BY DEF Ascends, RolesOf, KnownRoles
  <2>1. i # j /\ pc[i] = "write" /\ known'[i] = known[i] /\ todo'[i] = todo[i]
    BY DEF InHand
  <2>2. {k \in Key : held'[k] = i} \subseteq {k \in Key : held[k] = i}
    BY <2>1, IngestAssumption DEF Release, Jobs
  <2>3. ByIds(todo[i], {k \in Key : held[k] = i})
    BY <2>1 DEF IInv, Ascends
  <2> QED
    BY <2>1, <2>2, <2>3 DEF ByIds
<1> QED
  BY <1>1, <1>2

\* A job that ends without a commit: its keys are free again, the store is as it
\* was, but for the status of its own run.
LEMMA EndStep ==
  ASSUME IInv, NEW j \in Jobs, pc[j] \in Working,
         NEW how \in {"error", "dead"}, how = "dead" => j \in Runs,
         NEW why \in Verdicts, End(j, how, why),
         \/ status' = status
         \/ how = "error" /\ j \in Runs /\ status' = [status EXCEPT ![j] = "failed"],
         UNCHANGED <<raw, link, posting, employers>>, faults' \in 0..MaxFaults
  PROVE  IInv'
<1> USE IngestAssumption DEF IInv, End, Release
<1>1. TypeOK'
  <2>1. status' \in [Runs -> {"none", "running", "success", "failed"}]
    BY DEF TypeOK
  <2>2. pc' \in [Jobs -> {"idle"} \cup Working \cup Ended] /\ verdict' \in [Jobs -> Verdicts]
    BY DEF TypeOK, Ended
  <2>3. held' \in [Key -> Jobs \cup {Nobody}]
    BY DEF TypeOK
  <2>4. plan' \in [Jobs -> SUBSET Listings] /\ known' \in [Jobs -> SUBSET Posting]
        /\ todo' \in [Jobs -> Seq(Key)]
    BY DEF TypeOK
  <2> QED
    BY <2>1, <2>2, <2>3, <2>4 DEF TypeOK
<1>2. RunsTrack'
  BY DEF RunsTrack, HasRead, TypeOK, Jobs, Working
<1>3. NormalisersTrack'
  BY DEF NormalisersTrack, HasRead, TypeOK, Jobs
<1>4. PlanIsBatch'
  BY DEF PlanIsBatch, HasRead, TypeOK
<1>5. Claims'
  <2> SUFFICES ASSUME NEW i \in Jobs, InHand(i)', NEW f \in RolesOf(plan[i])'
               PROVE  Claimed(i, f)'
    BY DEF Claims
  <2>1. i # j /\ InHand(i) /\ f \in RolesOf(plan[i])
    BY DEF TypeOK, InHand, RolesOf
  <2>2. <<"posting", f>> \in Key
    BY <2>1 DEF RolesOf, TypeOK, Key
  <2> QED
    BY <2>1, <2>2 DEF Claims, Claimed, Mine, TypeOK
<1>6. NothingLeft' /\ KnownStays' /\ KnownOrigins'
  BY DEF NothingLeft, KnownStays, KnownOrigins, HasOrigin, HasRead, TypeOK
<1>7. OnePostingPerRole' /\ OriginKept' /\ FoldAllOrNothing'
  BY DEF OnePostingPerRole, OriginKept, FoldAllOrNothing, TypeOK, Jobs
<1>8. HeldInHand' /\ Ascends'
  <2>1. ~InHand(j)' /\ \A i \in Jobs \ {j} : pc'[i] = pc[i] /\ known'[i] = known[i] /\ todo'[i] = todo[i]
    BY DEF InHand, TypeOK
  <2> QED
    BY <2>1, OthersWrite
<1> QED
  BY <1>1, <1>2, <1>3, <1>4, <1>5, <1>6, <1>7, <1>8

LEMMA DatabaseErrorStep ==
  ASSUME IInv, NEW j \in Jobs, pc[j] \in Working, NEW why \in Verdicts,
         DatabaseError(j, why), faults' \in 0..MaxFaults
  PROVE  IInv'
<1> QED
  BY EndStep DEF DatabaseError, store

LEMMA FailStep ==
  ASSUME IInv, NEW j \in Runs, Fail(j)
  PROVE  IInv'
<1>1. pc[j] \in Working /\ "exception" \in Verdicts /\ faults' \in 0..MaxFaults
  <2>1. faults \in 0..MaxFaults /\ MaxFaults \in Nat
    BY IngestAssumption DEF IInv, TypeOK
  <2> QED
    BY <2>1 DEF Fail, Working, Verdicts
<1> QED
  BY <1>1, EndStep DEF Fail, Jobs

LEMMA LoseConnectionStep ==
  ASSUME IInv, NEW j \in Jobs, LoseConnection(j)
  PROVE  IInv'
<1>1. "lost" \in Verdicts /\ faults' \in 0..MaxFaults
  <2>1. faults \in 0..MaxFaults /\ MaxFaults \in Nat
    BY IngestAssumption DEF IInv, TypeOK
  <2> QED
    BY <2>1 DEF LoseConnection, Verdicts
<1> QED
  BY <1>1, DatabaseErrorStep DEF LoseConnection

LEMMA CrashStep ==
  ASSUME IInv, NEW j \in Jobs, Crash(j)
  PROVE  IInv'
<1>1. pc[j] \in Working /\ "lost" \in Verdicts /\ faults' \in 0..MaxFaults
  <2>1. faults \in 0..MaxFaults /\ MaxFaults \in Nat
    BY IngestAssumption DEF IInv, TypeOK
  <2> QED
    BY <2>1 DEF Crash, Verdicts
<1>2. CASE j \in Runs
  BY <1>1, <1>2, EndStep DEF Crash, store
<1>3. CASE j \notin Runs
  BY <1>1, <1>3, EndStep DEF Crash, store
<1> QED
  BY <1>2, <1>3

\* The database, or an exception nobody commits after, ends a transaction with
\* nothing kept.
LEMMA LosingStep ==
  ASSUME IInv, NEW j \in Jobs,
         DeadlockVictim(j) \/ Relink(j) \/ GiveUp(j) \/ \E k \in Key : Collide(j, k)
  PROVE  IInv'
<1>1. faults \in 0..MaxFaults
  BY DEF IInv, TypeOK
<1>2. CASE DeadlockVictim(j)
  <2>1. pc[j] \in Working
    BY <1>2 DEF DeadlockVictim, Stuck, WaitsFor, Ready, Working
  <2> QED
    BY <1>1, <1>2, <2>1, DatabaseErrorStep DEF DeadlockVictim, Verdicts
<1>3. CASE Relink(j)
  BY <1>1, <1>3, DatabaseErrorStep DEF Relink, Verdicts, Working
<1>4. ASSUME NEW k \in Key, Collide(j, k)  PROVE IInv'
  BY <1>1, <1>4, DatabaseErrorStep DEF Collide, Ready, Verdicts, Working
<1>5. CASE GiveUp(j)
  BY <1>1, <1>5, DatabaseErrorStep DEF GiveUp, Verdicts, Working
<1> QED
  BY <1>2, <1>3, <1>4, <1>5

LEMMA OpenStep ==
  ASSUME IInv, NEW r \in Runs, Open(r)
  PROVE  IInv'
<1> USE IngestAssumption DEF IInv, Open
<1>1. TypeOK'
  BY DEF TypeOK, Jobs, Working
<1>2. RunsTrack'
  BY DEF RunsTrack, HasRead, TypeOK, Jobs
<1>3. NormalisersTrack'
  BY DEF NormalisersTrack, HasRead, TypeOK, Jobs
<1>4. PlanIsBatch'
  BY DEF PlanIsBatch, HasRead, TypeOK, Jobs
<1>5. Claims' /\ KnownStays' /\ KnownOrigins' /\ HeldInHand' /\ Ascends' /\ NothingLeft'
  <2>1. \A i \in Jobs : /\ HasRead(i)' => HasRead(i)
                        /\ InHand(i)' <=> InHand(i)
                        /\ pc'[i] = "write" =>
                             pc[i] = "write" /\ batch'[i] = batch[i] /\ raw[batch[i]] \subseteq raw'[batch[i]]
    BY DEF InHand, HasRead, TypeOK, Jobs
  <2>2. NothingLeft'
    BY DEF NothingLeft, TypeOK, Jobs
  <2> QED
    BY <2>1, <2>2, BystanderSessions
<1>6. OnePostingPerRole' /\ OriginKept' /\ FoldAllOrNothing'
  BY DEF OnePostingPerRole, OriginKept, FoldAllOrNothing, RunsTrack, TypeOK, Jobs
<1> QED
  BY <1>1, <1>2, <1>3, <1>4, <1>5, <1>6

LEMMA CloseStep ==
  ASSUME IInv, NEW r \in Runs, Close(r)
  PROVE  IInv'
<1> USE IngestAssumption DEF IInv, Close
<1>1. TypeOK'
  BY DEF TypeOK, Jobs, Ended
<1>2. RunsTrack'
  BY DEF RunsTrack, HasRead, TypeOK, Jobs
<1>3. NormalisersTrack'
  BY DEF NormalisersTrack, HasRead, TypeOK, Jobs
<1>4. PlanIsBatch'
  BY DEF PlanIsBatch, HasRead, TypeOK, Jobs
<1>5. Claims' /\ KnownStays' /\ KnownOrigins' /\ HeldInHand' /\ Ascends' /\ NothingLeft'
  <2>1. \A i \in Jobs : /\ HasRead(i)' => HasRead(i)
                        /\ InHand(i)' <=> InHand(i)
                        /\ pc'[i] = "write" =>
                             pc[i] = "write" /\ batch'[i] = batch[i] /\ raw[batch[i]] \subseteq raw'[batch[i]]
    BY DEF InHand, HasRead, TypeOK, Jobs
  <2>2. NothingLeft'
    BY DEF NothingLeft, TypeOK, Jobs
  <2> QED
    BY <2>1, <2>2, BystanderSessions
<1>6. OnePostingPerRole' /\ OriginKept' /\ FoldAllOrNothing'
  BY DEF OnePostingPerRole, OriginKept, FoldAllOrNothing, RunsTrack, TypeOK, Jobs
<1> QED
  BY <1>1, <1>2, <1>3, <1>4, <1>5, <1>6

\* The one step that changes raw rows; nothing of the run is linked yet, and a
\* `normalise` that has read the run has an empty plan in hand.
LEMMA CollectStep ==
  ASSUME IInv, NEW r \in Runs, Collect(r)
  PROVE  IInv'
<1> USE IngestAssumption DEF IInv, Collect
<1>0. raw[r] = {} /\ \A l : <<r, l>> \notin link
  BY DEF RunsTrack, TypeOK
<1>1. TypeOK'
  <2>1. raw' \in [Runs -> SUBSET Listings]
    <3>1. PICK S \in Offers[r] : raw' = [raw EXCEPT ![r] = S]
      OBVIOUS
    <3>2. S \subseteq Listings
      BY <3>1
    <3> QED
      BY <3>1, <3>2 DEF TypeOK
  <2>2. link' \subseteq {x \in Runs \X Listings : x[2] \in raw'[x[1]]}
    BY <1>0 DEF TypeOK
  <2> QED
    BY <2>1, <2>2 DEF TypeOK, Jobs, Working
<1>2. RunsTrack'
  BY DEF RunsTrack, HasRead, TypeOK, Jobs
<1>3. NormalisersTrack'
  BY DEF NormalisersTrack, HasRead, TypeOK, Jobs
<1>4. PlanIsBatch'
  <2> SUFFICES ASSUME NEW i \in Jobs, HasRead(i)'
               PROVE  /\ plan[i] \subseteq raw'[batch[i]]
                      /\ pc'[i] = "lookup" \/ verdict[i] = "ok" =>
                           /\ plan[i] = {} \/ plan[i] = raw'[batch[i]]
                           /\ i \in Runs => plan[i] = raw'[i]
    BY DEF PlanIsBatch
  <2>1. i # r /\ HasRead(i) /\ pc'[i] = pc[i] /\ r \in Jobs
    BY DEF HasRead, TypeOK, Jobs
  <2>2. CASE batch[i] = r
    <3>1. i \notin Runs
      BY <2>1, <2>2 DEF RunsTrack
    <3>2. plan[i] = {}
      BY <1>0, <2>1, <2>2 DEF PlanIsBatch
    <3> QED
      BY <3>1, <3>2
  <2>3. CASE batch[i] # r
    <3>1. raw'[batch[i]] = raw[batch[i]] /\ (i \in Runs => raw'[i] = raw[i])
      BY <2>1, <2>3 DEF TypeOK, RunsTrack, NormalisersTrack, Jobs
    <3> QED
      BY <2>1, <3>1 DEF PlanIsBatch
  <2> QED
    BY <2>2, <2>3
<1>5. Claims' /\ KnownStays' /\ KnownOrigins' /\ HeldInHand' /\ Ascends' /\ NothingLeft'
  <2>1. \A i \in Jobs : /\ HasRead(i)' => HasRead(i)
                        /\ InHand(i)' <=> InHand(i)
                        /\ pc'[i] = "write" =>
                             pc[i] = "write" /\ batch'[i] = batch[i] /\ raw[batch[i]] \subseteq raw'[batch[i]]
    <3> SUFFICES ASSUME NEW i \in Jobs
                 PROVE  /\ HasRead(i)' => HasRead(i)
                        /\ InHand(i)' <=> InHand(i)
                        /\ pc'[i] = "write" =>
                             pc[i] = "write" /\ batch'[i] = batch[i] /\ raw[batch[i]] \subseteq raw'[batch[i]]
      OBVIOUS
    <3>1. pc'[i] \in {"lookup", "write", "commit"} \/ HasRead(i) => pc'[i] = pc[i] /\ batch[i] \in Runs
      BY DEF HasRead, TypeOK, RunsTrack, NormalisersTrack, Jobs
    <3>2. batch[i] \in Runs => raw[batch[i]] \subseteq raw'[batch[i]]
      BY <1>0 DEF TypeOK
    <3> QED
      BY <3>1, <3>2 DEF InHand, HasRead
  <2>2. NothingLeft'
    BY DEF NothingLeft, TypeOK, Jobs
  <2> QED
    BY <2>1, <2>2, BystanderSessions
<1>6. OnePostingPerRole' /\ OriginKept' /\ FoldAllOrNothing'
  BY <1>0 DEF OnePostingPerRole, OriginKept, FoldAllOrNothing, TypeOK
<1> QED
  BY <1>1, <1>2, <1>3, <1>4, <1>5, <1>6

LEMMA StartNormaliseStep ==
  ASSUME IInv, NEW c \in Normalisers, NEW r \in Runs, StartNormalise(c, r)
  PROVE  IInv'
<1> USE IngestAssumption DEF IInv, StartNormalise, store
<1>1. TypeOK'
  BY DEF TypeOK, Jobs, Working, Verdicts
<1>2. RunsTrack'
  BY DEF RunsTrack, HasRead, TypeOK, Jobs
<1>3. NormalisersTrack'
  BY DEF NormalisersTrack, HasRead, TypeOK, Jobs
<1>4. PlanIsBatch'
  BY DEF PlanIsBatch, HasRead, TypeOK, Jobs
<1>5. Claims' /\ KnownStays' /\ KnownOrigins' /\ HeldInHand' /\ Ascends' /\ NothingLeft'
  <2>1. \A i \in Jobs : /\ HasRead(i)' => HasRead(i)
                        /\ InHand(i)' <=> InHand(i)
                        /\ pc'[i] = "write" =>
                             pc[i] = "write" /\ batch'[i] = batch[i] /\ raw[batch[i]] \subseteq raw'[batch[i]]
    BY DEF InHand, HasRead, TypeOK, Jobs
  <2>2. NothingLeft'
    BY DEF NothingLeft, TypeOK, Jobs
  <2> QED
    BY <2>1, <2>2, BystanderSessions
<1>6. OnePostingPerRole' /\ OriginKept' /\ FoldAllOrNothing'
  BY DEF OnePostingPerRole, OriginKept, FoldAllOrNothing
<1> QED
  BY <1>1, <1>2, <1>3, <1>4, <1>5, <1>6

LEMMA WriteNothingStep ==
  ASSUME IInv, NEW j \in Jobs, WriteNothing(j)
  PROVE  IInv'
<1> USE IngestAssumption DEF IInv, WriteNothing, store
<1>1. TypeOK'
  BY DEF TypeOK, Working
<1>2. RunsTrack'
  BY DEF RunsTrack, HasRead, TypeOK, Jobs
<1>3. NormalisersTrack'
  BY DEF NormalisersTrack, HasRead, TypeOK, Jobs
<1>4. PlanIsBatch'
  BY DEF PlanIsBatch, HasRead, TypeOK, Jobs
<1>5. Claims' /\ KnownStays' /\ KnownOrigins' /\ HeldInHand' /\ Ascends' /\ NothingLeft'
  <2>1. \A i \in Jobs : /\ HasRead(i)' => HasRead(i)
                        /\ InHand(i)' <=> InHand(i)
                        /\ pc'[i] = "write" =>
                             pc[i] = "write" /\ batch'[i] = batch[i] /\ raw[batch[i]] \subseteq raw'[batch[i]]
    BY DEF InHand, HasRead, TypeOK, Jobs
  <2>2. NothingLeft'
    BY DEF NothingLeft, TypeOK, Jobs
  <2> QED
    BY <2>1, <2>2, BystanderSessions
<1>6. OnePostingPerRole' /\ OriginKept' /\ FoldAllOrNothing'
  BY DEF OnePostingPerRole, OriginKept, FoldAllOrNothing
<1> QED
  BY <1>1, <1>2, <1>3, <1>4, <1>5, <1>6

\* What the lookup reads is what the plan is made of.
LEMMA LoadStep ==
  ASSUME IInv, NEW j \in Jobs, Load(j)
  PROVE  IInv'
<1> DEFINE S == raw[batch[j]]
           P == {p \in posting : p.role \in RolesOf(S)}
<1> USE IngestAssumption DEF IInv, store
<1>1. batch[j] \in Runs /\ (j \in Runs => batch[j] = j) /\ pc[j] = "load"
  BY DEF Load, RunsTrack, NormalisersTrack, Jobs
<1>2. S \subseteq Listings /\ P \subseteq posting /\ P \subseteq Posting
  BY <1>1 DEF TypeOK
<1>3. /\ plan' = [plan EXCEPT ![j] = S] /\ known' = [known EXCEPT ![j] = P]
      /\ pc' = [pc EXCEPT ![j] = "lookup"]
      /\ UNCHANGED <<status, raw, link, posting, employers, batch, todo, verdict, held, faults>>
  BY DEF Load, RowsOf
<1> HIDE DEF P, S
<1>4. TypeOK'
  BY <1>2, <1>3 DEF TypeOK, Working
<1>5. RunsTrack' /\ NormalisersTrack'
  BY <1>1, <1>3 DEF RunsTrack, NormalisersTrack, HasRead, TypeOK, Jobs
<1>6. PlanIsBatch'
  BY <1>1, <1>3 DEF PlanIsBatch, HasRead, TypeOK, S
<1>7. \A i \in Jobs : (InHand(i)' <=> InHand(i)) /\ (InHand(i) => i # j)
  BY <1>1, <1>3 DEF InHand, TypeOK
<1>8. Claims'
  <2> SUFFICES ASSUME NEW i \in Jobs, InHand(i)', NEW f \in RolesOf(plan[i])'
               PROVE  Claimed(i, f)'
    BY DEF Claims
  <2>1. InHand(i) /\ f \in RolesOf(plan[i]) /\ known'[i] = known[i]
    BY <1>3, <1>7 DEF RolesOf, TypeOK
  <2> QED
    BY <1>3, <2>1 DEF Claims, Claimed, Mine
<1>9. NothingLeft'
  BY <1>1, <1>3 DEF NothingLeft, TypeOK
<1>10. KnownStays' /\ KnownOrigins'
  BY <1>2, <1>3 DEF KnownStays, KnownOrigins, KnownRoles, OriginKept, HasOrigin, HasRead, TypeOK
<1>11. HeldInHand' /\ Ascends'
  <2>1. HeldInHand'
    BY <1>3, <1>7 DEF HeldInHand
  <2>2. \A i \in Jobs : pc'[i] = "write" => pc[i] = "write" /\ known'[i] = known[i]
    BY <1>3 DEF TypeOK
  <2>3. Ascends'
    BY <1>3, <2>2 DEF Ascends, RolesOf, KnownRoles
  <2> QED
    BY <2>1, <2>3
<1>12. OnePostingPerRole' /\ OriginKept' /\ FoldAllOrNothing'
  BY <1>3 DEF OnePostingPerRole, OriginKept, FoldAllOrNothing
<1> QED
  BY <1>4, <1>5, <1>6, <1>8, <1>9, <1>10, <1>11, <1>12

\* What LookUp decides to write and to fold: every role it folds is written; and
\* of a batch that makes no posting all is, in the order of the ids.
LEMMA LookUpPlans ==
  ASSUME IInv, NEW j \in Jobs, LookUp(j)
  PROVE  \E w \in Seq(Key), why \in Verdicts, fold \in SUBSET plan[j] :
           /\ todo' = [todo EXCEPT ![j] = w]
           /\ verdict' = [verdict EXCEPT ![j] = why]
           /\ plan' = [plan EXCEPT ![j] = fold]
           /\ why = "ok" => fold = plan[j]
           /\ Lists(w, RolesOf(fold))
           /\ RolesOf(plan[j]) \subseteq KnownRoles(known[j]) => ByIds(w, {})
<1> DEFINE F == KnownRoles(known[j])
           E == employers
<1> USE DEF IInv
<1>1. HasRead(j) /\ plan[j] \subseteq Listings /\ F \in SUBSET Roles /\ E \in SUBSET Employers
  BY DEF LookUp, HasRead, TypeOK, Posting, KnownRoles
<1>2. IsFiniteSet(plan[j])
  <2>1. batch[j] \in Runs
    BY <1>1 DEF RunsTrack, NormalisersTrack, Jobs
  <2> QED
    BY <1>1, <2>1, FS_Subset DEF PlanIsBatch, RunsTrack
<1>3. PICK rows \in Orders(plan[j]), G \in {KnownRoles(known[j])} :
     \E H \in {Hired(rows, G, employers)}, raised \in {Raises(rows, G, employers) # {}} :
     \E S \in {{a \in Pending(rows, G, employers, H) :
                 j \in Runs \/ ~raised \/ a.flush < Cardinality(H)}} :
     \E sent \in {{a \in S : \A b \in Refused(rows, S) : Before(a, b)}} :
     \E how \in {IF sent # S THEN "rejected" ELSE IF raised THEN "exception" ELSE "ok"} :
       /\ todo' = [todo EXCEPT ![j] = InOrder(sent)]
       /\ verdict' = [verdict EXCEPT ![j] = how]
       /\ plan' = [plan EXCEPT ![j] = IF how = "ok" \/ (how = "exception" /\ j \in Runs)
                                     THEN {rows[i] : i \in Folds(rows, G, employers)} ELSE {}]
  BY Zenon DEF LookUp
<1>4. G = F
  OBVIOUS
<1> HIDE DEF F, IInv
<1> DEFINE H == Hired(rows, F, E)
           W == Pending(rows, F, E, H)
           raised == Raises(rows, F, E) # {}
           S == {a \in W : j \in Runs \/ ~raised \/ a.flush < Cardinality(H)}
           sent == {a \in S : \A b \in Refused(rows, S) : Before(a, b)}
           how == IF sent # S THEN "rejected" ELSE IF raised THEN "exception" ELSE "ok"
           fold == IF how = "ok" \/ (how = "exception" /\ j \in Runs)
                   THEN {rows[i] : i \in Folds(rows, F, E)} ELSE {}
<1>20. /\ todo' = [todo EXCEPT ![j] = InOrder(sent)]
       /\ verdict' = [verdict EXCEPT ![j] = how]
       /\ plan' = [plan EXCEPT ![j] = fold]
  <2>1. PICK H0 \in {Hired(rows, G, employers)}, raised0 \in {Raises(rows, G, employers) # {}} :
     \E S0 \in {{a \in Pending(rows, G, employers, H0) :
                  j \in Runs \/ ~raised0 \/ a.flush < Cardinality(H0)}} :
     \E sent0 \in {{a \in S0 : \A b \in Refused(rows, S0) : Before(a, b)}} :
     \E how0 \in {IF sent0 # S0 THEN "rejected" ELSE IF raised0 THEN "exception" ELSE "ok"} :
       /\ todo' = [todo EXCEPT ![j] = InOrder(sent0)]
       /\ verdict' = [verdict EXCEPT ![j] = how0]
       /\ plan' = [plan EXCEPT ![j] = IF how0 = "ok" \/ (how0 = "exception" /\ j \in Runs)
                                     THEN {rows[i] : i \in Folds(rows, G, employers)} ELSE {}]
    BY <1>3, Zenon
  <2>2. H0 = H /\ raised0 = raised
    BY <1>4
  <2>3. PICK S0 \in {{a \in Pending(rows, G, employers, H0) :
                  j \in Runs \/ ~raised0 \/ a.flush < Cardinality(H0)}} :
     \E sent0 \in {{a \in S0 : \A b \in Refused(rows, S0) : Before(a, b)}} :
     \E how0 \in {IF sent0 # S0 THEN "rejected" ELSE IF raised0 THEN "exception" ELSE "ok"} :
       /\ todo' = [todo EXCEPT ![j] = InOrder(sent0)]
       /\ verdict' = [verdict EXCEPT ![j] = how0]
       /\ plan' = [plan EXCEPT ![j] = IF how0 = "ok" \/ (how0 = "exception" /\ j \in Runs)
                                     THEN {rows[i] : i \in Folds(rows, G, employers)} ELSE {}]
    BY <2>1, Zenon
  <2>4. S0 = S
    <3> HIDE DEF H, raised
    <3> QED
      BY <1>4, <2>2
  <2>5. PICK sent0 \in {{a \in S0 : \A b \in Refused(rows, S0) : Before(a, b)}} :
     \E how0 \in {IF sent0 # S0 THEN "rejected" ELSE IF raised0 THEN "exception" ELSE "ok"} :
       /\ todo' = [todo EXCEPT ![j] = InOrder(sent0)]
       /\ verdict' = [verdict EXCEPT ![j] = how0]
       /\ plan' = [plan EXCEPT ![j] = IF how0 = "ok" \/ (how0 = "exception" /\ j \in Runs)
                                     THEN {rows[i] : i \in Folds(rows, G, employers)} ELSE {}]
    BY <2>3, Zenon
  <2>6. sent0 = sent
    <3> HIDE DEF S
    <3> QED
      BY <2>4
  <2>7. PICK how0 \in {IF sent0 # S0 THEN "rejected" ELSE IF raised0 THEN "exception" ELSE "ok"} :
       /\ todo' = [todo EXCEPT ![j] = InOrder(sent0)]
       /\ verdict' = [verdict EXCEPT ![j] = how0]
       /\ plan' = [plan EXCEPT ![j] = IF how0 = "ok" \/ (how0 = "exception" /\ j \in Runs)
                                     THEN {rows[i] : i \in Folds(rows, G, employers)} ELSE {}]
    BY <2>5, Zenon
  <2>8. how0 = how
    <3> HIDE DEF S, sent, raised
    <3> QED
      BY <2>2, <2>4, <2>6
  <2> HIDE DEF S, sent, how
  <2> QED
    BY <1>4, <2>6, <2>7, <2>8
<1>5. /\ Linear(W)
      /\ \A i \in Folds(rows, F, E) : \E a \in W : a.key = <<"posting", RoleOf[rows[i]]>>
  <2>1. H \in SUBSET (DOMAIN rows)
    BY HiredIsRows
  <2> HIDE DEF H
  <2>2. rows \in Orders(plan[j]) /\ plan[j] \subseteq Listings /\ IsFiniteSet(plan[j])
    BY <1>1, <1>2
  <2>3. F \in SUBSET Roles /\ E \in SUBSET Employers
    BY <1>1
  <2> HIDE DEF E
  <2> QED
    BY <2>1, <2>2, <2>3, PendingIsLinear
<1>6. S \subseteq W /\ sent \subseteq S
  OBVIOUS
<1>7. how \in Verdicts
  BY DEF Verdicts
<1>8. fold \in SUBSET plan[j]
  BY <1>1, <1>2, OrdersList DEF Folds
<1>9. how = "ok" => fold = plan[j]
  <2> SUFFICES ASSUME how = "ok" PROVE fold = plan[j]
    OBVIOUS
  <2>1. Raises(rows, F, E) = {}
    OBVIOUS
  <2>2. Folds(rows, F, E) = DOMAIN rows
    BY <2>1 DEF Folds
  <2>3. {rows[i] : i \in DOMAIN rows} = plan[j]
    <3> HIDE DEF fold, how, W, H
    <3> QED
      BY <1>1, <1>2, OrdersList
  <2>4. fold = {rows[i] : i \in Folds(rows, F, E)}
    <3> HIDE DEF how
    <3> QED
      OBVIOUS
  <2> QED
    BY <2>2, <2>3, <2>4
<1>10. fold # {} => sent = W /\ fold = {rows[i] : i \in Folds(rows, F, E)}
  OBVIOUS
<1>11. Linear(sent)
  <2> HIDE DEF W, sent, S
  <2> QED
    BY <1>5, <1>6, LinearPart
<1>12. /\ InOrder(sent) \in Seq(Key)
       /\ \A a \in sent : \E n \in DOMAIN InOrder(sent) : InOrder(sent)[n] = a.key
  <2> HIDE DEF sent
  <2> QED
    BY <1>11, InOrderLists
<1>13. Lists(InOrder(sent), RolesOf(fold))
  <2> SUFFICES ASSUME NEW f \in RolesOf(fold)
               PROVE  \E n \in DOMAIN InOrder(sent) : InOrder(sent)[n] = <<"posting", f>>
    BY DEF Lists
  <2>1. sent = W /\ \E i \in Folds(rows, F, E) : f = RoleOf[rows[i]]
    BY <1>10 DEF RolesOf
  <2> HIDE DEF sent, W, fold
  <2>2. \E a \in sent : a.key = <<"posting", f>>
    BY <1>5, <2>1
  <2> QED
    BY <1>12, <2>2
<1>14. ASSUME RolesOf(plan[j]) \subseteq F  PROVE ByIds(InOrder(sent), {})
  <2>1. Raises(rows, F, E) = {} /\ H = {} /\ Refused(rows, Pending(rows, F, E, {})) = {}
        /\ ByIds(InOrder(Pending(rows, F, E, {})), {})
    BY <1>1, <1>2, <1>14, ObserversWrite
  <2>2. W = Pending(rows, F, E, {}) /\ S = W
    BY <2>1
  <2>3. sent = W
    BY <2>1, <2>2
  <2> QED
    BY <2>1, <2>2, <2>3
<1> HIDE DEF how, fold, sent, F
<1> QED
  BY <1>7, <1>8, <1>9, <1>12, <1>13, <1>14, <1>20 DEF F

LEMMA LookUpStep ==
  ASSUME IInv, NEW j \in Jobs, LookUp(j)
  PROVE  IInv'
<1> USE IngestAssumption DEF IInv, store
<1>1. PICK w \in Seq(Key), why \in Verdicts, fold \in SUBSET plan[j] :
        /\ todo' = [todo EXCEPT ![j] = w]
        /\ verdict' = [verdict EXCEPT ![j] = why]
        /\ plan' = [plan EXCEPT ![j] = fold]
        /\ why = "ok" => fold = plan[j]
        /\ Lists(w, RolesOf(fold))
        /\ RolesOf(plan[j]) \subseteq KnownRoles(known[j]) => ByIds(w, {})
  BY LookUpPlans
<1>2. /\ pc' = [pc EXCEPT ![j] = "write"] /\ pc[j] = "lookup"
      /\ UNCHANGED <<status, raw, link, posting, employers, batch, known, held, faults>>
  BY DEF LookUp
<1>3. HasRead(j) /\ ~InHand(j) /\ plan[j] \subseteq Listings
  BY <1>2 DEF HasRead, InHand, TypeOK
<1>4. TypeOK'
  <2>1. plan' \in [Jobs -> SUBSET Listings] /\ todo' \in [Jobs -> Seq(Key)]
        /\ verdict' \in [Jobs -> Verdicts] /\ pc' \in [Jobs -> {"idle"} \cup Working \cup Ended]
    BY <1>1, <1>2, <1>3 DEF TypeOK, Working
  <2> QED
    BY <1>2, <2>1 DEF TypeOK
<1>5. RunsTrack' /\ NormalisersTrack'
  BY <1>2 DEF RunsTrack, NormalisersTrack, HasRead, TypeOK, Jobs
<1>6. PlanIsBatch'
  <2> SUFFICES ASSUME NEW i \in Jobs, HasRead(i)'
               PROVE  /\ plan'[i] \subseteq raw[batch[i]]
                      /\ pc'[i] = "lookup" \/ verdict'[i] = "ok" =>
                           /\ plan'[i] = {} \/ plan'[i] = raw[batch[i]]
                           /\ i \in Runs => plan'[i] = raw[i]
    BY <1>2 DEF PlanIsBatch
  <2>1. CASE i = j
    <3>1. plan'[i] = fold /\ verdict'[i] = why /\ pc'[i] = "write"
      BY <1>1, <1>2, <2>1 DEF TypeOK
    <3> QED
      BY <1>1, <1>2, <1>3, <2>1, <3>1 DEF PlanIsBatch
  <2>2. CASE i # j
    <3>1. plan'[i] = plan[i] /\ verdict'[i] = verdict[i] /\ pc'[i] = pc[i]
      BY <1>1, <1>2, <2>2
    <3> QED
      BY <3>1 DEF PlanIsBatch, HasRead
  <2> QED
    BY <2>1, <2>2
<1>7. Claims'
  <2> SUFFICES ASSUME NEW i \in Jobs, InHand(i)', NEW f \in RolesOf(plan[i])'
               PROVE  Claimed(i, f)'
    BY DEF Claims
  <2>1. CASE i = j
    <3>1. f \in RolesOf(fold) /\ todo'[i] = w
      BY <1>1, <2>1 DEF RolesOf, TypeOK
    <3> QED
      BY <1>1, <3>1 DEF Claimed, Lists
  <2>2. CASE i # j
    <3>1. InHand(i) /\ f \in RolesOf(plan[i]) /\ todo'[i] = todo[i]
      BY <1>1, <1>2, <2>2 DEF InHand, RolesOf, TypeOK
    <3> QED
      BY <1>2, <3>1 DEF Claims, Claimed, Mine
  <2> QED
    BY <2>1, <2>2
<1>8. NothingLeft'
  BY <1>1, <1>2 DEF NothingLeft, TypeOK
<1>9. KnownStays' /\ KnownOrigins'
  BY <1>2 DEF KnownStays, KnownOrigins, HasOrigin, HasRead, TypeOK
<1>10. HeldInHand'
  BY <1>2 DEF HeldInHand, InHand, TypeOK
<1>11. Ascends'
  <2> SUFFICES ASSUME NEW i \in Jobs, pc'[i] = "write", RolesOf(raw[batch[i]]) \subseteq KnownRoles(known[i])
               PROVE  ByIds(todo'[i], {k \in Key : held[k] = i})
    BY <1>2 DEF Ascends
  <2>1. CASE i = j
    <3>1. \A k \in Key : held[k] # i
      BY <1>3, <2>1 DEF HeldInHand
    <3>2. plan[j] \subseteq raw[batch[j]]
      BY <1>3 DEF PlanIsBatch
    <3>3. RolesOf(plan[j]) \subseteq KnownRoles(known[j])
      BY <2>1, <3>2 DEF RolesOf
    <3>4. todo'[i] = w /\ ByIds(w, {})
      BY <1>1, <2>1, <3>3 DEF TypeOK
    <3> QED
      BY <3>1, <3>4 DEF ByIds
  <2>2. CASE i # j
    <3>1. pc[i] = "write" /\ todo'[i] = todo[i]
      BY <1>1, <1>2, <2>2
    <3> QED
      BY <3>1 DEF Ascends
  <2> QED
    BY <2>1, <2>2
<1>12. OnePostingPerRole' /\ OriginKept' /\ FoldAllOrNothing'
  BY <1>2 DEF OnePostingPerRole, OriginKept, FoldAllOrNothing
<1> QED
  BY <1>4, <1>5, <1>6, <1>7, <1>8, <1>9, <1>10, <1>11, <1>12

LEMMA TailFacts ==
  ASSUME NEW S, NEW w \in Seq(S), w # <<>>
  PROVE  /\ Tail(w) \in Seq(S) /\ Len(w) \in Nat \ {0}
         /\ Len(w) = 1 => Tail(w) = <<>>
         /\ \A n \in 2..Len(w) : n - 1 \in DOMAIN Tail(w) /\ Tail(w)[n - 1] = w[n]
<1>1. Tail(w) \in Seq(S) /\ Len(Tail(w)) = Len(w) - 1 /\ Len(w) \in Nat \ {0}
  OBVIOUS
<1>2. \A n \in 2..Len(w) : Tail(w)[n - 1] = w[n]
  OBVIOUS
<1>3. Len(w) = 1 => Tail(w) = <<>>
  <2>1. Len(w) = 1 => Len(Tail(w)) = 0
    BY <1>1
  <2>2. Tail(w) # <<>> => Len(Tail(w)) \in Nat \ {0}
    BY <1>1, EmptySeq
  <2> QED
    BY <2>1, <2>2
<1>4. \A n \in 2..Len(w) : n - 1 \in DOMAIN Tail(w)
  BY <1>1
<1> QED
  BY <1>1, <1>2, <1>3, <1>4

\* A key goes from what is to be written to what is held; an INSERT has found it free.
LEMMA WriteStep ==
  ASSUME IInv, NEW j \in Jobs, NEW k \in Key, Write(j, k)
  PROVE  IInv'
<1> USE IngestAssumption DEF IInv, store
<1>1. /\ pc[j] = "write" /\ InHand(j)
      /\ todo[j] \in Seq(Key) /\ todo[j] # <<>> /\ k = todo[j][1]
      /\ held[k] = Nobody /\ Nobody \notin Jobs
      /\ ~(Inserts(j, k) /\ Taken(k))
  BY DEF Write, Ready, InHand, TypeOK, Jobs
<1>2. /\ held' = [held EXCEPT ![k] = j]
      /\ todo' = [todo EXCEPT ![j] = Tail(@)]
      /\ pc' = [pc EXCEPT ![j] = IF Len(todo[j]) = 1 THEN "commit" ELSE "write"]
      /\ UNCHANGED <<status, raw, link, posting, employers, batch, plan, known, verdict, faults>>
  BY DEF Write
<1>3. /\ Tail(todo[j]) \in Seq(Key) /\ (Len(todo[j]) = 1 => Tail(todo[j]) = <<>>)
      /\ \A n \in 2..Len(todo[j]) :
           n - 1 \in DOMAIN Tail(todo[j]) /\ Tail(todo[j])[n - 1] = todo[j][n]
  BY <1>1, TailFacts
<1>4. \A i \in Jobs : (InHand(i)' <=> InHand(i)) /\ (HasRead(i)' <=> HasRead(i))
                       /\ (pc'[i] = "lookup" <=> pc[i] = "lookup")
  BY <1>1, <1>2 DEF InHand, HasRead, TypeOK
<1>5. TypeOK'
  BY <1>2, <1>3 DEF TypeOK, Working
<1>6. RunsTrack' /\ NormalisersTrack'
  BY <1>1, <1>2, <1>4 DEF RunsTrack, NormalisersTrack, HasRead, TypeOK, Jobs
<1>7. PlanIsBatch' /\ KnownStays' /\ KnownOrigins'
  BY <1>2, <1>4 DEF PlanIsBatch, KnownStays, KnownOrigins, HasOrigin
<1>8. NothingLeft'
  BY <1>1, <1>2, <1>3 DEF NothingLeft, TypeOK
<1>9. Claims'
  <2> SUFFICES ASSUME NEW i \in Jobs, InHand(i)', NEW f \in RolesOf(plan[i])'
               PROVE  Claimed(i, f)'
    BY DEF Claims
  <2>1. InHand(i) /\ f \in RolesOf(plan[i]) /\ Claimed(i, f)
    BY <1>2, <1>4 DEF Claims, RolesOf
  <2>2. <<"posting", f>> \in Key
    BY <2>1 DEF RolesOf, TypeOK, Key
  <2>3. CASE Mine(i, f)
    <3>1. k # <<"posting", f>>
      BY <1>1, <2>3 DEF Mine
    <3> QED
      BY <1>2, <2>2, <2>3, <3>1 DEF Claimed, Mine, TypeOK
  <2>4. CASE \E n \in DOMAIN todo[i] : todo[i][n] = <<"posting", f>>
    <3>1. PICK n \in DOMAIN todo[i] : todo[i][n] = <<"posting", f>>
      BY <2>4
    <3>2. CASE i # j
      BY <1>2, <3>1, <3>2 DEF Claimed, TypeOK
    <3>3. CASE i = j /\ n = 1
      <4>1. k = <<"posting", f>>
        BY <1>1, <3>1, <3>3
      <4>2. f \notin KnownRoles(known[j]) => Inserts(j, k)
        BY <4>1 DEF Inserts
      <4>3. f \in KnownRoles(posting) => f \in KnownRoles(known[j])
        BY <1>1, <4>1, <4>2 DEF Taken
      <4> QED
        BY <1>2, <2>2, <3>3, <4>1, <4>3 DEF Claimed, Mine, TypeOK
    <3>4. CASE i = j /\ n # 1
      <4>1. n - 1 \in DOMAIN Tail(todo[j]) /\ Tail(todo[j])[n - 1] = <<"posting", f>>
        <5>1. n \in 2..Len(todo[j])
          BY <1>1, <3>1, <3>4
        <5> QED
          BY <1>3, <3>1, <3>4, <5>1
      <4>2. todo'[i] = Tail(todo[j])
        BY <1>2, <3>4 DEF TypeOK
      <4> QED
        BY <4>1, <4>2 DEF Claimed
    <3> QED
      BY <3>2, <3>3, <3>4
  <2> QED
    BY <2>1, <2>3, <2>4 DEF Claimed
<1>10. OnePostingPerRole' /\ OriginKept' /\ FoldAllOrNothing'
  BY <1>2 DEF OnePostingPerRole, OriginKept, FoldAllOrNothing
<1>11. HeldInHand'
  BY <1>1, <1>2, <1>4 DEF HeldInHand, TypeOK
<1>12. Ascends'
  <2> SUFFICES ASSUME NEW i \in Jobs, pc'[i] = "write", RolesOf(raw[batch[i]]) \subseteq KnownRoles(known[i])
               PROVE  ByIds(todo'[i], {x \in Key : held'[x] = i})
    BY <1>2 DEF Ascends
  <2>1. pc[i] = "write" /\ ByIds(todo[i], {x \in Key : held[x] = i})
    BY <1>1, <1>2 DEF Ascends, TypeOK
  <2>2. CASE i # j
    <3>1. todo'[i] = todo[i] /\ \A x \in Key : held'[x] = i => held[x] = i
      BY <1>2, <2>2 DEF TypeOK
    <3> QED
      BY <2>1, <3>1 DEF ByIds
  <2>3. CASE i = j
    <3> DEFINE t == todo[j]
               u == Tail(todo[j])
    <3>1. todo'[i] = u /\ \A x \in Key : held'[x] = i => held[x] = i \/ x = k
      BY <1>2, <2>3 DEF TypeOK
    <3>2. DOMAIN t = 1..Len(t) /\ Len(t) \in Nat /\ DOMAIN u = 1..(Len(t) - 1)
          /\ \A n \in DOMAIN u : n + 1 \in DOMAIN t /\ u[n] = t[n + 1]
      <4>1. u \in Seq(Key) /\ Len(u) = Len(t) - 1 /\ Len(t) \in Nat /\ DOMAIN t = 1..Len(t)
        BY <1>1, <1>3
      <4>2. DOMAIN u = 1..(Len(t) - 1)
        BY <4>1
      <4>3. ASSUME NEW n \in DOMAIN u  PROVE n + 1 \in 2..Len(t) /\ (n + 1) - 1 = n
        BY <4>1, <4>2
      <4> QED
        BY <1>3, <4>1, <4>2, <4>3
    <3> HIDE DEF u
    <3> SUFFICES ASSUME NEW n \in DOMAIN u
                 PROVE  /\ u[n] \in Key /\ u[n][1] = "posting"
                        /\ \A m \in 1..(n - 1) : IdOf[u[m][2]] < IdOf[u[n][2]]
                        /\ \A x \in Key : held'[x] = i => x[1] = "posting" /\ IdOf[x[2]] < IdOf[u[n][2]]
      BY <3>1 DEF ByIds
    <3>3. n + 1 \in DOMAIN t /\ u[n] = t[n + 1] /\ 1 \in 1..((n + 1) - 1) /\ 1 \in DOMAIN t
      BY <3>2
    <3>4. /\ t[n + 1] \in Key /\ t[n + 1][1] = "posting"
          /\ \A m \in 1..((n + 1) - 1) : IdOf[t[m][2]] < IdOf[t[n + 1][2]]
          /\ \A x \in Key : held[x] = i => x[1] = "posting" /\ IdOf[x[2]] < IdOf[t[n + 1][2]]
      BY <2>1, <2>3, <3>3 DEF ByIds
    <3>5. k[1] = "posting" /\ IdOf[k[2]] < IdOf[t[n + 1][2]]
      BY <1>1, <2>1, <2>3, <3>3, <3>4 DEF ByIds
    <3>6. ASSUME NEW m \in 1..(n - 1)  PROVE IdOf[u[m][2]] < IdOf[u[n][2]]
      <4>1. m \in DOMAIN u /\ m + 1 \in 1..((n + 1) - 1)
        BY <3>2
      <4> QED
        BY <3>2, <3>3, <3>4, <4>1
    <3> QED
      BY <3>1, <3>3, <3>4, <3>5, <3>6
  <2> QED
    BY <2>2, <2>3
<1> QED
  BY <1>5, <1>6, <1>7, <1>8, <1>9, <1>10, <1>11, <1>12

LEMMA ObserveKeeps ==
  ASSUME NEW j \in Jobs, NEW q \in Posting
  PROVE  /\ Observe(j, q) \in Posting
         /\ Observe(j, q).role = q.role /\ Observe(j, q).born = q.born
         /\ HasOrigin(q) => HasOrigin(Observe(j, q))
<1>1. q.role \in Roles /\ q.born \in Jobs /\ q.sources \in [Sites -> Jobs \cup {Nobody}]
      /\ q = [role |-> q.role, born |-> q.born, sources |-> q.sources]
  BY DEF Posting
<1> DEFINE src == [s \in Sites |-> IF q.sources[s] = Nobody /\ \E l \in plan[j] : RoleOf[l] = q.role /\ SiteOf[l] = s
                                   THEN j ELSE q.sources[s]]
<1>2. Observe(j, q) = [role |-> q.role, born |-> q.born, sources |-> src]
  BY <1>1 DEF Observe
<1>3. src \in [Sites -> Jobs \cup {Nobody}]
  BY <1>1
<1>4. HasOrigin(q) => \E s \in Sites : src[s] = q.born
  BY <1>1, IngestAssumption DEF HasOrigin, Jobs
<1> HIDE DEF src
<1> QED
  BY <1>1, <1>2, <1>3, <1>4 DEF Posting, HasOrigin

\* What a commit makes of the postings: each keeps its role and an origin, each
\* role of the batch has one.
LEMMA FoldedPostings ==
  ASSUME IInv, NEW j \in Jobs, pc[j] = "commit", NEW again
  PROVE  /\ Folded(j, again) \subseteq Posting
         /\ \A p \in Folded(j, again) : HasOrigin(p)
         /\ KnownRoles(Folded(j, again)) = KnownRoles(posting) \cup RolesOf(plan[j])
         /\ \A f \in RolesOf(plan[j]) : held[<<"posting", f>>] = j
         /\ KnownRoles(Folded(j, again)) = KnownRoles(posting) \cup Missing(j)
         /\ \A p, q \in Folded(j, again) : p.role = q.role => p = q
<1> DEFINE New(f) == Observe(j, Fresh(j, f))
<1> USE IngestAssumption DEF IInv
<1>0. InHand(j) /\ HasRead(j) /\ plan[j] \subseteq Listings /\ posting \subseteq Posting /\ known[j] \subseteq Posting
  BY DEF InHand, HasRead, TypeOK
<1>1. ASSUME NEW p \in posting
      PROVE  Updated(j, p, again) \in Posting /\ Updated(j, p, again).role = p.role /\ HasOrigin(Updated(j, p, again))
  <2>1. CASE \E q \in known[j] : q.role = p.role /\ q.born = p.born /\ (Observe(j, q) # q \/ p.role \in again)
    <3> DEFINE q == CHOOSE q \in known[j] : q.role = p.role /\ q.born = p.born
    <3>1. q \in known[j] /\ q.role = p.role
      BY <2>1
    <3>2. Updated(j, p, again) = Observe(j, q)
      BY <2>1 DEF Updated
    <3>3. HasOrigin(q)
      BY <1>0, <3>1 DEF KnownOrigins
    <3> HIDE DEF q
    <3> QED
      BY <1>0, <3>1, <3>2, <3>3, ObserveKeeps
  <2>2. CASE ~ \E q \in known[j] : q.role = p.role /\ q.born = p.born /\ (Observe(j, q) # q \/ p.role \in again)
    <3>1. Updated(j, p, again) = p
      BY <2>2 DEF Updated
    <3> QED
      BY <1>0, <3>1 DEF OriginKept, HasOrigin
  <2> QED
    BY <2>1, <2>2
<1>2. ASSUME NEW f \in Missing(j)
      PROVE  New(f) \in Posting /\ New(f).role = f /\ HasOrigin(New(f))
  <2>1. f \in Roles /\ \E l \in plan[j] : RoleOf[l] = f
    BY <1>0, <1>2 DEF Missing, RolesOf
  <2>2. Fresh(j, f) \in Posting /\ Fresh(j, f).role = f /\ Fresh(j, f).born = j
        /\ \A s \in Sites : Fresh(j, f).sources[s] = Nobody
    BY <2>1 DEF Fresh, Posting, Jobs
  <2>3. PICK l \in plan[j] : RoleOf[l] = f
    BY <2>1
  <2>4. SiteOf[l] \in Sites
    BY <1>0
  <2>5. New(f).sources[SiteOf[l]] = j
    BY <2>2, <2>3, <2>4 DEF Observe, Posting
  <2> QED
    BY <2>2, <2>4, <2>5, ObserveKeeps DEF HasOrigin
<1>3. Folded(j, again) = {Updated(j, p, again) : p \in posting} \cup {New(f) : f \in Missing(j)}
  BY DEF Folded, Missing
<1>4. ASSUME NEW f \in RolesOf(plan[j])
      PROVE  held[<<"posting", f>>] = j /\ (f \in Missing(j) => f \notin KnownRoles(posting))
  <2>1. Claimed(j, f) /\ todo[j] = <<>>
    BY <1>0, <1>4 DEF Claims, NothingLeft
  <2> QED
    BY <2>1 DEF Claimed, Mine, Missing
<1>5. RolesOf(plan[j]) \subseteq KnownRoles(posting) \cup Missing(j) /\ Missing(j) \subseteq RolesOf(plan[j])
  BY <1>0 DEF Missing, KnownStays
<1> HIDE DEF New
<1>6. KnownRoles(Folded(j, again)) = KnownRoles(posting) \cup Missing(j)
  BY <1>1, <1>2, <1>3 DEF KnownRoles
<1>7. ASSUME NEW p \in Folded(j, again), NEW q \in Folded(j, again), p.role = q.role  PROVE p = q
  <2>1. (\E a \in posting : p = Updated(j, a, again)) \/ (\E f \in Missing(j) : p = New(f))
    BY <1>3
  <2>2. (\E a \in posting : q = Updated(j, a, again)) \/ (\E f \in Missing(j) : q = New(f))
    BY <1>3
  <2>3. \A a \in posting : a.role \in KnownRoles(posting)
    BY DEF KnownRoles
  <2>4. \A a \in posting, f \in Missing(j) : Updated(j, a, again).role # New(f).role
    BY <1>1, <1>2, <1>4, <1>5, <2>3
  <2>5. \A a, b \in posting : Updated(j, a, again).role = Updated(j, b, again).role => a = b
    BY <1>1 DEF OnePostingPerRole
  <2>6. \A f, g \in Missing(j) : New(f).role = New(g).role => f = g
    BY <1>2
  <2> QED
    BY <1>7, <2>1, <2>2, <2>4, <2>5, <2>6
<1> QED
  BY <1>1, <1>2, <1>3, <1>4, <1>5, <1>6, <1>7

\* What holds after a commit whichever way the job goes on.
LEMMA PublishStep ==
  ASSUME IInv, NEW j \in Jobs, pc[j] = "commit", Publish(j),
         Release(j), UNCHANGED batch,
         \A i \in Jobs \ {j} : /\ pc'[i] = pc[i] /\ plan'[i] = plan[i] /\ known'[i] = known[i]
                               /\ todo'[i] = todo[i] /\ verdict'[i] = verdict[i],
         ~HasRead(j)'
  PROVE  /\ posting' \subseteq Posting /\ employers' \subseteq Employers
         /\ link' \subseteq {x \in Runs \X Listings : x[2] \in raw'[x[1]]}
         /\ held' \in [Key -> Jobs \cup {Nobody}]
         /\ PlanIsBatch' /\ Claims' /\ KnownStays' /\ KnownOrigins' /\ HeldInHand' /\ Ascends'
         /\ OnePostingPerRole' /\ OriginKept'
<1> USE IngestAssumption DEF IInv, Publish, Release
<1>1. InHand(j) /\ batch[j] \in Runs /\ plan[j] \subseteq Listings /\ plan[j] \subseteq raw[batch[j]]
  BY DEF InHand, HasRead, TypeOK, PlanIsBatch, RunsTrack, NormalisersTrack, Jobs
<1>0. PICK again : posting' = Folded(j, again)
  OBVIOUS
<1>2. employers' \subseteq Employers
  BY <1>1 DEF TypeOK, RolesOf
<1>3. link' \subseteq {x \in Runs \X Listings : x[2] \in raw'[x[1]]}
  BY <1>1 DEF TypeOK, Batch
<1>4. held' \in [Key -> Jobs \cup {Nobody}]
  BY DEF TypeOK
<1>5. \A i \in Jobs : (InHand(i)' => i # j /\ InHand(i)) /\ (HasRead(i)' => i # j /\ HasRead(i))
  BY DEF InHand, HasRead
<1>6. PlanIsBatch'
  BY <1>5 DEF PlanIsBatch, HasRead
<1>7. Claims'
  <2> SUFFICES ASSUME NEW i \in Jobs, InHand(i)', NEW f \in RolesOf(plan[i])'
               PROVE  Claimed(i, f)'
    BY DEF Claims
  <2>1. i # j /\ InHand(i) /\ f \in RolesOf(plan[i]) /\ todo'[i] = todo[i] /\ known'[i] = known[i]
    BY <1>5 DEF RolesOf
  <2>2. <<"posting", f>> \in Key
    BY <2>1 DEF RolesOf, TypeOK, Key
  <2>3. ASSUME Mine(i, f)  PROVE Mine(i, f)'
    <3>1. f \notin RolesOf(plan[j])
      BY <2>1, <2>3, FoldedPostings DEF Mine
    <3>2. KnownRoles(posting') = KnownRoles(posting) \cup RolesOf(plan[j])
      BY <1>0, FoldedPostings
    <3> QED
      BY <2>1, <2>2, <2>3, <3>1, <3>2 DEF Mine
  <2>4. Claimed(i, f)
    BY <2>1 DEF Claims
  <2> QED
    BY <2>1, <2>3, <2>4 DEF Claimed
<1>8. KnownStays' /\ KnownOrigins'
  <2>1. KnownRoles(posting) \subseteq KnownRoles(posting')
    BY <1>0, FoldedPostings
  <2> QED
    BY <1>5, <2>1 DEF KnownStays, KnownOrigins, HasOrigin
<1>9. posting' \subseteq Posting /\ OnePostingPerRole' /\ OriginKept'
  BY <1>0, FoldedPostings DEF OnePostingPerRole, OriginKept, HasOrigin
<1>10. HeldInHand' /\ Ascends'
  <2>1. ~InHand(j)' /\ raw' = raw
    BY DEF InHand, HasRead
  <2> QED
    BY <2>1, OthersWrite
<1> QED
  BY <1>2, <1>3, <1>4, <1>6, <1>7, <1>8, <1>9, <1>10

LEMMA CommitStep ==
  ASSUME IInv, NEW j \in Jobs, Commit(j)
  PROVE  IInv'
<1> USE IngestAssumption DEF IInv
<1>1. /\ pc[j] = "commit" /\ verdict[j] = "ok" /\ Publish(j) /\ Release(j)
      /\ pc' = [pc EXCEPT ![j] = IF j \in Runs THEN "close" ELSE "ok"]
      /\ known' = [known EXCEPT ![j] = {}] /\ plan' = [plan EXCEPT ![j] = {}]
      /\ link' = link \cup Batch(j) /\ raw' = raw
      /\ UNCHANGED <<status, batch, todo, verdict, faults>>
  BY DEF Commit, Publish
<1>2. InHand(j) /\ batch[j] \in Runs /\ (j \in Runs => batch[j] = j /\ plan[j] = raw[j])
      /\ (plan[j] = {} \/ plan[j] = raw[batch[j]])
  BY <1>1 DEF InHand, HasRead, PlanIsBatch, RunsTrack, NormalisersTrack, Jobs
<1>3. ~HasRead(j)' /\ \A i \in Jobs \ {j} : /\ pc'[i] = pc[i] /\ plan'[i] = plan[i] /\ known'[i] = known[i]
                                            /\ todo'[i] = todo[i] /\ verdict'[i] = verdict[i]
  BY <1>1 DEF HasRead, TypeOK
<1>4. /\ posting' \subseteq Posting /\ employers' \subseteq Employers
      /\ link' \subseteq {x \in Runs \X Listings : x[2] \in raw'[x[1]]}
      /\ held' \in [Key -> Jobs \cup {Nobody}]
      /\ PlanIsBatch' /\ Claims' /\ KnownStays' /\ KnownOrigins' /\ HeldInHand' /\ Ascends'
      /\ OnePostingPerRole' /\ OriginKept'
  BY <1>1, <1>3, PublishStep
<1>5. TypeOK'
  BY <1>1, <1>4 DEF TypeOK, Working, Ended
<1>6. RunsTrack'
  <2> SUFFICES ASSUME NEW r \in Runs
               PROVE  /\ IsFiniteSet(raw'[r])
                      /\ pc'[r] \in {"idle", "open"} => raw'[r] = {}
                      /\ batch'[r] \in {r, Nobody}
                      /\ pc'[r] = "load" \/ HasRead(r)' => batch'[r] = r
                      /\ pc'[r] \in {"close", "ok"} /\ batch'[r] = r => \A l \in raw'[r] : <<r, l>> \in link'
                      /\ status'[r] = "failed" => pc'[r] = "error"
                      /\ status'[r] = "success" => pc'[r] = "ok"
    BY DEF RunsTrack
  <2>1. CASE r = j
    <3>1. \A l \in raw[j] : <<j, l>> \in link'
      BY <1>1, <1>2, <2>1 DEF Batch
    <3> QED
      BY <1>1, <1>2, <2>1, <3>1 DEF RunsTrack, HasRead, TypeOK
  <2>2. CASE r # j
    BY <1>1, <2>2 DEF RunsTrack, HasRead, TypeOK, Jobs
  <2> QED
    BY <2>1, <2>2
<1>7. NormalisersTrack' /\ NothingLeft'
  BY <1>1, <1>3 DEF NormalisersTrack, NothingLeft, HasRead, TypeOK, Jobs
<1>8. FoldAllOrNothing'
  <2> SUFFICES ASSUME NEW r \in Runs, status[r] # "failed"
               PROVE  \/ \A l \in raw[r] : <<r, l>> \notin link'
                      \/ \A l \in raw[r] : <<r, l>> \in link'
    BY <1>1 DEF FoldAllOrNothing
  <2>1. CASE r = batch[j] /\ plan[j] = raw[r]
    BY <1>1, <2>1 DEF Batch
  <2>2. CASE r # batch[j] \/ plan[j] = {}
    <3>1. \A l : <<r, l>> \in link' <=> <<r, l>> \in link
      BY <1>1, <2>2 DEF Batch
    <3> QED
      BY <3>1 DEF FoldAllOrNothing
  <2> QED
    BY <1>2, <2>1, <2>2
<1> QED
  BY <1>4, <1>5, <1>6, <1>7, <1>8

LEMMA CommitFailedStep ==
  ASSUME IInv, NEW j \in Runs, CommitFailed(j)
  PROVE  IInv'
<1> USE IngestAssumption DEF IInv
<1>1. /\ pc[j] = "commit" /\ verdict[j] = "exception" /\ Publish(j) /\ Release(j)
      /\ pc' = [pc EXCEPT ![j] = "error"] /\ verdict' = [verdict EXCEPT ![j] = "exception"]
      /\ plan' = [plan EXCEPT ![j] = {}] /\ known' = [known EXCEPT ![j] = {}]
      /\ todo' = [todo EXCEPT ![j] = <<>>]
      /\ link' = link \cup Batch(j) /\ raw' = raw
      /\ status' = [status EXCEPT ![j] = "failed"]
      /\ UNCHANGED <<batch, faults>>
  BY DEF CommitFailed, Publish, End
<1>2. HasRead(j) /\ j \in Jobs /\ batch[j] = j
  BY <1>1 DEF HasRead, RunsTrack, Jobs
<1>3. ~HasRead(j)' /\ \A i \in Jobs \ {j} : /\ pc'[i] = pc[i] /\ plan'[i] = plan[i] /\ known'[i] = known[i]
                                            /\ todo'[i] = todo[i] /\ verdict'[i] = verdict[i]
  BY <1>1, <1>2 DEF HasRead, TypeOK
<1>4. /\ posting' \subseteq Posting /\ employers' \subseteq Employers
      /\ link' \subseteq {x \in Runs \X Listings : x[2] \in raw'[x[1]]}
      /\ held' \in [Key -> Jobs \cup {Nobody}]
      /\ PlanIsBatch' /\ Claims' /\ KnownStays' /\ KnownOrigins' /\ HeldInHand' /\ Ascends'
      /\ OnePostingPerRole' /\ OriginKept'
  BY <1>1, <1>2, <1>3, PublishStep
<1>5. TypeOK'
  <2>1. /\ pc' \in [Jobs -> {"idle"} \cup Working \cup Ended]
        /\ verdict' \in [Jobs -> Verdicts] /\ status' \in [Runs -> {"none", "running", "success", "failed"}]
    BY <1>1, <1>2 DEF TypeOK, Ended, Verdicts
  <2>2. /\ plan' \in [Jobs -> SUBSET Listings] /\ known' \in [Jobs -> SUBSET Posting]
        /\ todo' \in [Jobs -> Seq(Key)]
    BY <1>1, <1>2 DEF TypeOK
  <2> QED
    BY <1>1, <1>4, <2>1, <2>2 DEF TypeOK
<1>6. RunsTrack'
  BY <1>1, <1>2 DEF RunsTrack, HasRead, TypeOK, Jobs
<1>7. NormalisersTrack' /\ NothingLeft'
  BY <1>1, <1>2, <1>3 DEF NormalisersTrack, NothingLeft, HasRead, TypeOK, Jobs
<1>8. FoldAllOrNothing'
  <2> SUFFICES ASSUME NEW r \in Runs, r # j, status[r] # "failed"
               PROVE  \/ \A l \in raw[r] : <<r, l>> \notin link'
                      \/ \A l \in raw[r] : <<r, l>> \in link'
    BY <1>1, <1>2 DEF FoldAllOrNothing, TypeOK
  <2>1. \A l : <<r, l>> \in link' <=> <<r, l>> \in link
    BY <1>1, <1>2 DEF Batch
  <2> QED
    BY <2>1 DEF FoldAllOrNothing
<1> QED
  BY <1>4, <1>5, <1>6, <1>7, <1>8

LEMMA StepIInv == IInv /\ [Next]_vars => IInv'
<1> SUFFICES ASSUME IInv, [Next]_vars PROVE IInv'
  OBVIOUS
<1>1. CASE UNCHANGED vars
  <2> USE <1>1 DEF vars, store, job, IInv
  <2>1. TypeOK' /\ RunsTrack' /\ NormalisersTrack'
    BY DEF TypeOK, RunsTrack, NormalisersTrack, HasRead
  <2>2. PlanIsBatch' /\ Claims' /\ NothingLeft'
    BY DEF PlanIsBatch, Claims, Claimed, Mine, RolesOf, NothingLeft, InHand, HasRead
  <2>3. KnownStays' /\ KnownOrigins'
    BY DEF KnownStays, KnownOrigins, HasOrigin, HasRead
  <2>5. HeldInHand' /\ Ascends'
    BY DEF HeldInHand, Ascends, InHand, RolesOf, KnownRoles
  <2>4. OnePostingPerRole' /\ OriginKept' /\ FoldAllOrNothing'
    BY DEF OnePostingPerRole, OriginKept, FoldAllOrNothing
  <2> QED
    BY <2>1, <2>2, <2>3, <2>4, <2>5
<1>2. ASSUME NEW r \in Runs, Open(r)  PROVE IInv'
  BY <1>2, OpenStep
<1>3. ASSUME NEW c \in Normalisers, NEW r \in Runs, StartNormalise(c, r)  PROVE IInv'
  BY <1>3, StartNormaliseStep
<1>4. ASSUME NEW j \in Jobs, Step(j)  PROVE IInv'
  <2>1. CASE j \in Runs /\ (Collect(j) \/ CommitFailed(j) \/ Close(j))
    BY <2>1, CollectStep, CommitFailedStep, CloseStep
  <2>2. CASE Load(j) \/ LookUp(j) \/ WriteNothing(j)
    BY <2>2, LoadStep, LookUpStep, WriteNothingStep
  <2>3. CASE Commit(j)
    BY <2>3, CommitStep
  <2>4. CASE DeadlockVictim(j) \/ Relink(j) \/ GiveUp(j)
    BY <2>4, LosingStep
  <2>5. ASSUME NEW k \in Key, Write(j, k) \/ Collide(j, k)  PROVE IInv'
    BY <2>5, WriteStep, LosingStep
  <2> QED
    BY <1>4, <2>1, <2>2, <2>3, <2>4, <2>5 DEF Step
<1>5. ASSUME NEW r \in Runs, Fail(r)  PROVE IInv'
  BY <1>5, FailStep
<1>6. ASSUME NEW j \in Jobs, LoseConnection(j) \/ Crash(j)  PROVE IInv'
  BY <1>6, LoseConnectionStep, CrashStep
<1> QED
  BY <1>1, <1>2, <1>3, <1>4, <1>5, <1>6 DEF Next

-------------------------------------------------------------------------------
\* What follows for every behaviour.

LEMMA IngestInvariance == Spec => []IInv
<1> QED
  BY InitIInv, StepIInv, PTL DEF Spec

\* Every variable keeps its type: in particular a link is always to a row its run
\* has landed, whatever runs and `normalise` do to each other.
THEOREM IngestTypeCorrect == Spec => []TypeOK
<1>1. IInv => TypeOK
  BY DEF IInv
<1> QED
  BY <1>1, IngestInvariance, PTL

\* However many runs and `normalise` invocations find a role missing at the same
\* moment, run_normalise's look-before-insert leaves one posting of it.
THEOREM RoleHasOnePosting == Spec => []OnePostingPerRole
<1>1. IInv => OnePostingPerRole
  BY DEF IInv
<1> QED
  BY <1>1, IngestInvariance, PTL

\* Unless track_run closed the run as failed after an exception in the loop, the
\* rows of a run are all linked or none is.
THEOREM RunsFoldWhole == Spec => []FoldAllOrNothing
<1>1. IInv => FoldAllOrNothing
  BY DEF IInv
<1> QED
  BY <1>1, IngestInvariance, PTL

\* track_run writes 'success' over a run of both stages only when nothing of what
\* it landed is left to fold.
THEOREM SuccessIsComplete == Spec => []SuccessMeansFolded
<1>1. IInv => SuccessMeansFolded
  BY DEF IInv, RunsTrack, SuccessMeansFolded
<1> QED
  BY <1>1, IngestInvariance, PTL

\* Posting.observe, applied by any number of jobs to rows they read before each
\* other's commits, never loses the board the posting was created from: the stale
\* `sources` that are written back, be it for a board that is new or for the url of
\* one that is not, were read from a row that had it.
THEOREM OriginSurvives == Spec => []OriginKept
<1>1. IInv => OriginKept
  BY DEF IInv
<1> QED
  BY <1>1, IngestInvariance, PTL

\* The store only ever sees whole batches land and rows of one run folded once
\* into their roles: Ingest implements DedupLedger.
THEOREM IngestImplementsDedup == Spec => ImplementsDedup
<1>1. Init => Ledger!Init
  BY DEF Init, Ledger!Init, KnownRoles
<1>2. IInv /\ [Next]_vars => [Ledger!Next]_(Ledger!vars)
  <2> SUFFICES ASSUME IInv, Next, ~ UNCHANGED Ledger!vars PROVE Ledger!Next
    BY DEF vars, store, Ledger!vars
  <2> USE DEF Ledger!vars
  <2>1. ASSUME NEW r \in Runs, Collect(r)  PROVE Ledger!Next
    <3>1. PICK S \in Offers[r] : raw' = [raw EXCEPT ![r] = S]
      BY <2>1 DEF Collect
    <3>2. S \in SUBSET Listings
      BY <3>1, IngestAssumption
    <3>3. raw[r] = {}
      BY <2>1 DEF Collect, IInv, RunsTrack
    <3>4. Ledger!Land(r, S)
      BY <2>1, <3>1, <3>3 DEF Ledger!Land, Collect
    <3> QED
      BY <3>2, <3>4 DEF Ledger!Next
  <2>2. ASSUME NEW j \in Jobs, Commit(j) \/ CommitFailed(j)  PROVE Ledger!Next
    <3>1. pc[j] = "commit" /\ Publish(j) /\ Batch(j) \cap link = {}
      BY <2>2 DEF Commit, CommitFailed
    <3>2. batch[j] \in Runs /\ plan[j] \in SUBSET Listings /\ plan[j] \subseteq raw[batch[j]]
      BY <3>1 DEF IInv, TypeOK, HasRead, PlanIsBatch, RunsTrack, NormalisersTrack, Jobs
    <3>3. KnownRoles(posting') = KnownRoles(posting) \cup {RoleOf[l] : l \in plan[j]}
      BY <3>1, FoldedPostings DEF Publish, RolesOf
    <3>4. Ledger!Fold(batch[j], plan[j])
      BY <3>1, <3>2, <3>3 DEF Ledger!Fold, Publish, Batch
    <3> QED
      BY <3>2, <3>4 DEF Ledger!Next
  <2>3. ASSUME NEW j \in Jobs, Step(j)  PROVE Ledger!Next
    <3>1. CASE (\E r \in Runs : Collect(r)) \/ Commit(j) \/ CommitFailed(j)
      BY <2>1, <2>2, <3>1
    <3>2. CASE Load(j) \/ LookUp(j) \/ WriteNothing(j) \/ Close(j)
      BY <3>2 DEF Load, LookUp, WriteNothing, Close, store
    <3>3. CASE Relink(j) \/ GiveUp(j) \/ DeadlockVictim(j)
      BY <3>3 DEF Relink, GiveUp, DeadlockVictim, DatabaseError, store
    <3>4. ASSUME NEW k \in Key, Write(j, k) \/ Collide(j, k)  PROVE Ledger!Next
      BY <3>4 DEF Write, Collide, DatabaseError, store
    <3> QED
      BY <2>3, <3>1, <3>2, <3>3, <3>4 DEF Step
  <2>4. ASSUME NEW j \in Jobs, Fail(j) \/ LoseConnection(j) \/ Crash(j)  PROVE Ledger!Next
    BY <2>4 DEF Fail, LoseConnection, Crash, DatabaseError, store
  <2>5. CASE \E r \in Runs : Open(r)
    BY <2>5 DEF Open
  <2>6. CASE \E c \in Normalisers, r \in Runs : StartNormalise(c, r)
    BY <2>6 DEF StartNormalise, store
  <2> QED
    BY <2>3, <2>4, <2>5, <2>6 DEF Next, Jobs
<1> QED
  BY <1>1, <1>2, IngestInvariance, PTL DEF Spec, ImplementsDedup, Ledger!Spec
===============================================================================
