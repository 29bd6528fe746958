--------------------------- MODULE FingerprintProofs ---------------------------
(***************************************************************************)
(* What Fingerprint.tla guarantees for every vocabulary.  All that the     *)
(* rules drop - Arabic words, marks, markers - they drop wherever it is,   *)
(* so what they make of a text is what they make of its pieces; and a      *)
(* bilingual name loses exactly its Arabic words and its marks, as long as *)
(* no part of it is read in a way the properties name and exclude.         *)
(***************************************************************************)
EXTENDS Fingerprint, FiniteSetTheorems, SequenceTheorems, TLAPS

-------------------------------------------------------------------------------
\* The tokens of a text at some positions.

Rank(i, I) == Cardinality({h \in I : h < i})

LEMMA Intervals ==
  ASSUME NEW n \in Nat
  PROVE  /\ IsFiniteSet(1..n) /\ Cardinality(1..n) = n
         /\ IsFiniteSet(0..(n - 1)) /\ Cardinality(0..(n - 1)) = n
  BY FS_Interval

LEMMA RankFacts ==
  ASSUME NEW I, IsFiniteSet(I), \A i \in I : i \in Int
  PROVE  /\ Cardinality(I) \in Nat
         /\ \A i \in I : Rank(i, I) \in 0..(Cardinality(I) - 1)
         /\ \A i, j \in I : i < j => Rank(i, I) < Rank(j, I)
         /\ \A i, j \in I : Rank(i, I) = Rank(j, I) => i = j
         /\ \A n \in 0..(Cardinality(I) - 1) : \E i \in I : Rank(i, I) = n
<1> DEFINE N == Cardinality(I)
           Below(i) == {h \in I : h < i}
<1>0. N \in Nat
  BY FS_CardinalityType
<1>1. ASSUME NEW i \in I
      PROVE  IsFiniteSet(Below(i)) /\ Rank(i, I) = Cardinality(Below(i)) /\ Rank(i, I) \in 0..(N - 1)
  <2>1. Below(i) \in SUBSET (I \ {i})
    OBVIOUS
  <2>2. IsFiniteSet(I \ {i}) /\ Cardinality(I \ {i}) = N - 1
    BY <1>0, FS_RemoveElement
  <2>3. IsFiniteSet(Below(i)) /\ Cardinality(Below(i)) <= N - 1
    BY <2>1, <2>2, FS_Subset
  <2>4. Cardinality(Below(i)) \in Nat
    BY <2>3, FS_CardinalityType
  <2> QED
    BY <1>0, <2>3, <2>4 DEF Rank
<1>2. ASSUME NEW i \in I, NEW j \in I, i < j  PROVE Rank(i, I) < Rank(j, I)
  <2>1. Below(i) \in SUBSET Below(j)
    BY <1>2
  <2>2. i \in Below(j) /\ i \notin Below(i)
    BY <1>2
  <2>3. Cardinality(Below(i)) <= Cardinality(Below(j)) /\ Cardinality(Below(i)) # Cardinality(Below(j))
    BY <1>1, <2>1, <2>2, FS_Subset
  <2> HIDE DEF Below
  <2> QED
    BY <1>0, <1>1, <2>3
<1>3. ASSUME NEW i \in I, NEW j \in I, Rank(i, I) = Rank(j, I)  PROVE i = j
  <2>1. i < j \/ j < i \/ i = j
    OBVIOUS
  <2> HIDE DEF N, Below
  <2>2. Rank(i, I) \in Nat /\ Rank(j, I) \in Nat
    BY <1>0, <1>1
  <2> QED
    BY <1>2, <1>3, <2>1, <2>2
<1>4. \A n \in 0..(N - 1) : \E i \in I : Rank(i, I) = n
  <2> DEFINE f == [i \in I |-> Rank(i, I)]
  <2>1. f \in Injection(I, 0..(N - 1))
    BY <1>1, <1>3 DEF Injection, IsInjective
  <2>2. IsFiniteSet(0..(N - 1)) /\ Cardinality(0..(N - 1)) = N
    BY <1>0, Intervals
  <2>3. f \in Surjection(I, 0..(N - 1))
    BY <2>1, <2>2, FS_Injection, Zenon
  <2> QED
    BY <2>3 DEF Surjection
<1> QED
  BY <1>0, <1>1, <1>2, <1>3, <1>4

LEMMA AtFacts ==
  ASSUME NEW S, NEW text \in Seq(S), NEW I \in SUBSET DOMAIN text
  PROVE  /\ IsFiniteSet(I) /\ Cardinality(I) \in Nat
         /\ At(text, I) \in Seq(S) /\ Len(At(text, I)) = Cardinality(I)
         /\ \A i \in I : Rank(i, I) + 1 \in 1..Cardinality(I) /\ At(text, I)[Rank(i, I) + 1] = text[i]
         /\ \A k \in 1..Cardinality(I) : \E i \in I : k = Rank(i, I) + 1
<1> DEFINE N == Cardinality(I)
           At0 == [k \in 1..N |-> text[CHOOSE i \in I : Rank(i, I) = k - 1]]
<1>1. DOMAIN text = 1..Len(text) /\ Len(text) \in Nat /\ \A i \in DOMAIN text : text[i] \in S
  OBVIOUS
<1>2. IsFiniteSet(I) /\ \A i \in I : i \in Int
  <2>1. IsFiniteSet(DOMAIN text)
    BY <1>1, Intervals
  <2>2. \A i \in I : i \in 1..Len(text)
    BY <1>1
  <2> QED
    BY <2>1, <2>2, FS_Subset
<1>3. /\ N \in Nat
      /\ \A i \in I : Rank(i, I) \in 0..(N - 1)
      /\ \A i, j \in I : Rank(i, I) = Rank(j, I) => i = j
      /\ \A n \in 0..(N - 1) : \E i \in I : Rank(i, I) = n
  BY <1>2, RankFacts
<1>4. At(text, I) = At0
  BY DEF At, Rank
<1>5. \A k \in 1..N : \E i \in I : k = Rank(i, I) + 1
  <2> SUFFICES ASSUME NEW k \in 1..N  PROVE \E i \in I : k = Rank(i, I) + 1
    OBVIOUS
  <2>1. k - 1 \in 0..(N - 1)
    BY <1>3
  <2>2. PICK i \in I : Rank(i, I) = k - 1
    BY <1>3, <2>1
  <2> QED
    BY <2>2
<1>6. \A i \in I : Rank(i, I) + 1 \in 1..N /\ At0[Rank(i, I) + 1] = text[i]
  <2> SUFFICES ASSUME NEW i \in I  PROVE Rank(i, I) + 1 \in 1..N /\ At0[Rank(i, I) + 1] = text[i]
    OBVIOUS
  <2>1. Rank(i, I) + 1 \in 1..N /\ (Rank(i, I) + 1) - 1 = Rank(i, I)
    BY <1>3
  <2>2. (CHOOSE j \in I : Rank(j, I) = (Rank(i, I) + 1) - 1) = i
    BY <1>3, <2>1
  <2> QED
    BY <2>1, <2>2
<1>7. At0 \in Seq(S) /\ Len(At0) = N
  <2>1. \A k \in 1..N : At0[k] \in S
    <3> SUFFICES ASSUME NEW k \in 1..N  PROVE At0[k] \in S
      OBVIOUS
    <3>1. PICK i \in I : k = Rank(i, I) + 1
      BY <1>5
    <3> HIDE DEF At0
    <3> QED
      BY <1>1, <1>6, <3>1
  <2>2. At0 = [k \in 1..N |-> At0[k]]
    OBVIOUS
  <2> HIDE DEF At0
  <2>3. At0 \in [1..N -> S]
    BY <2>1, <2>2
  <2> QED
    BY <1>3, <2>3
<1> HIDE DEF At0
<1> QED
  BY <1>2, <1>3, <1>4, <1>5, <1>6, <1>7

LEMMA AtUnique ==
  ASSUME NEW S, NEW text \in Seq(S), NEW I \in SUBSET DOMAIN text, NEW s \in Seq(S),
         Len(s) = Cardinality(I), \A i \in I : s[Rank(i, I) + 1] = text[i]
  PROVE  At(text, I) = s
<1> DEFINE t == At(text, I)
<1>1. /\ Cardinality(I) \in Nat
      /\ t \in Seq(S) /\ Len(t) = Cardinality(I)
      /\ \A i \in I : t[Rank(i, I) + 1] = text[i]
      /\ \A k \in 1..Cardinality(I) : \E i \in I : k = Rank(i, I) + 1
  BY AtFacts
<1> HIDE DEF t
<1>2. \A k \in 1..Cardinality(I) : t[k] = s[k]
  BY <1>1
<1>3. t = s
  BY <1>1, <1>2
<1> QED
  BY <1>3 DEF t

LEMMA AtAll ==
  ASSUME NEW S, NEW text \in Seq(S)
  PROVE  At(text, DOMAIN text) = text
<1>1. DOMAIN text = 1..Len(text) /\ Len(text) \in Nat
  OBVIOUS
<1>2. Cardinality(DOMAIN text) = Len(text)
  BY <1>1, Intervals
<1>3. ASSUME NEW i \in DOMAIN text  PROVE Rank(i, DOMAIN text) + 1 = i
  <2>1. {h \in DOMAIN text : h < i} = 1..(i - 1)
    BY <1>1
  <2>2. i \in Nat /\ Cardinality(1..(i - 1)) = i - 1
    <3>1. i \in Nat /\ i - 1 \in Nat
      BY <1>1
    <3> QED
      BY <3>1, Intervals
  <2>3. Rank(i, DOMAIN text) = i - 1
    BY <2>1, <2>2 DEF Rank
  <2> QED
    BY <2>2, <2>3
<1> QED
  BY <1>2, <1>3, AtUnique

LEMMA AtNone ==
  ASSUME NEW S, NEW text \in Seq(S)
  PROVE  At(text, {}) = <<>>
<1>1. Cardinality({}) = 0
  BY FS_EmptySet
<1>2. <<>> \in Seq(S) /\ Len(<<>>) = 0
  OBVIOUS
<1>3. {} \in SUBSET DOMAIN text /\ \A i \in {} : <<>>[Rank(i, {}) + 1] = text[i]
  OBVIOUS
<1> QED
  BY <1>1, <1>2, <1>3, AtUnique

Shifted(n, J) == {n + j : j \in J}

\* One text after another, by a name under which the lemmas can be applied.
Join(u, v) == u \o v

\* A text and what is taken from it, piece by piece.
LEMMA AtConcat ==
  ASSUME NEW S, NEW u \in Seq(S), NEW v \in Seq(S), NEW I \in SUBSET DOMAIN u, NEW J \in SUBSET DOMAIN v
  PROVE  /\ I \cup Shifted(Len(u), J) \in SUBSET DOMAIN Join(u, v)
         /\ At(Join(u, v), I \cup Shifted(Len(u), J)) = Join(At(u, I), At(v, J))
<1> DEFINE n == Len(u)
           text == u \o v
           M == Shifted(n, J)
           K == I \cup M
           s == At(u, I)
           t == At(v, J)
<1>1. /\ n \in Nat /\ Len(v) \in Nat /\ DOMAIN u = 1..n /\ DOMAIN v = 1..Len(v)
      /\ text \in Seq(S) /\ DOMAIN text = 1..(n + Len(v))
      /\ \A i \in 1..n : text[i] = u[i]
      /\ \A j \in 1..Len(v) : text[n + j] = v[j]
  OBVIOUS
<1>2. /\ IsFiniteSet(I) /\ Cardinality(I) \in Nat
      /\ s \in Seq(S) /\ Len(s) = Cardinality(I)
      /\ \A i \in I : Rank(i, I) + 1 \in 1..Cardinality(I) /\ s[Rank(i, I) + 1] = u[i]
  BY AtFacts
<1>3. /\ IsFiniteSet(J) /\ Cardinality(J) \in Nat
      /\ t \in Seq(S) /\ Len(t) = Cardinality(J)
      /\ \A j \in J : Rank(j, J) + 1 \in 1..Cardinality(J) /\ t[Rank(j, J) + 1] = v[j]
  BY AtFacts
<1>4. K \in SUBSET DOMAIN text /\ \A i \in I, m \in M : i < m
  BY <1>1 DEF Shifted
<1>5. ASSUME NEW L \in SUBSET J
      PROVE  /\ IsFiniteSet(Shifted(n, L)) /\ Cardinality(Shifted(n, L)) = Cardinality(L)
             /\ IsFiniteSet(L) /\ Cardinality(L) \in Nat
  <2>0. IsFiniteSet(L) /\ Cardinality(L) \in Nat
    BY <1>3, FS_Subset, FS_CardinalityType
  <2> DEFINE f == [j \in L |-> n + j]
  <2>1. f \in Bijection(L, Shifted(n, L))
    <3>1. f \in [L -> Shifted(n, L)]
      BY DEF Shifted
    <3>2. \A i, j \in L : f[i] = f[j] => i = j
      BY <1>1
    <3>3. \A m \in Shifted(n, L) : \E j \in L : f[j] = m
      BY DEF Shifted
    <3> HIDE DEF f
    <3> QED
      BY <3>1, <3>2, <3>3 DEF Bijection, Injection, Surjection, IsInjective
  <2>2. ExistsBijection(L, Shifted(n, L))
    BY <2>1 DEF ExistsBijection
  <2> QED
    BY <2>0, <2>2, FS_Bijection
<1>6. ASSUME NEW L \in SUBSET J
      PROVE  IsFiniteSet(I \cup Shifted(n, L))
             /\ Cardinality(I \cup Shifted(n, L)) = Cardinality(I) + Cardinality(L)
  <2>1. I \cap Shifted(n, L) = {}
    BY <1>1 DEF Shifted
  <2>2. Cardinality(I \cap Shifted(n, L)) = 0
    BY <2>1, FS_EmptySet
  <2>3. /\ IsFiniteSet(I \cup Shifted(n, L))
        /\ Cardinality(I \cup Shifted(n, L))
             = Cardinality(I) + Cardinality(Shifted(n, L)) - Cardinality(I \cap Shifted(n, L))
    BY <1>2, <1>5, FS_Union
  <2> QED
    BY <1>2, <1>5, <2>2, <2>3
<1> HIDE DEF s, t, text
<1>7. s \o t \in Seq(S) /\ Len(s \o t) = Cardinality(K)
  <2>1. J \in SUBSET J
    OBVIOUS
  <2>2. Cardinality(K) = Cardinality(I) + Cardinality(J)
    BY <1>6, <2>1
  <2> HIDE DEF K
  <2> QED
    BY <1>2, <1>3, <2>2
<1>8. ASSUME NEW i \in I  PROVE (s \o t)[Rank(i, K) + 1] = text[i]
  <2>1. {h \in K : h < i} = {h \in I : h < i}
    BY <1>1, <1>4
  <2>2. Rank(i, K) = Rank(i, I)
    BY <2>1 DEF Rank
  <2>3. text[i] = u[i]
    BY <1>1
  <2> QED
    BY <1>2, <1>3, <2>2, <2>3
<1>9. ASSUME NEW j \in J  PROVE (s \o t)[Rank(n + j, K) + 1] = text[n + j]
  <2> DEFINE L == {h \in J : h < j}
  <2>1. {h \in K : h < n + j} = I \cup Shifted(n, L)
    <3>1. \A h \in I : h < n + j
      BY <1>1
    <3>2. \A h \in J : n + h < n + j <=> h < j
      BY <1>1
    <3>3. {h \in M : h < n + j} = Shifted(n, L)
      BY <3>2 DEF Shifted
    <3> QED
      BY <3>1, <3>3
  <2>2. Rank(n + j, K) = Cardinality(I) + Rank(j, J)
    <3>1. Rank(n + j, K) = Cardinality(I \cup Shifted(n, L))
      BY <2>1 DEF Rank
    <3>2. L \in SUBSET J
      OBVIOUS
    <3> QED
      BY <1>6, <3>1, <3>2 DEF Rank
  <2>3. Rank(j, J) + 1 \in 1..Cardinality(J) /\ t[Rank(j, J) + 1] = v[j] /\ Rank(j, J) \in Int
    <3>1. L \in SUBSET J
      OBVIOUS
    <3> QED
      BY <1>3, <1>5, <3>1 DEF Rank
  <2>4. Rank(n + j, K) + 1 = Len(s) + (Rank(j, J) + 1)
    BY <1>2, <2>2, <2>3
  <2>5. (s \o t)[Len(s) + (Rank(j, J) + 1)] = t[Rank(j, J) + 1]
    BY <1>2, <1>3, <2>3
  <2> QED
    BY <1>1, <2>3, <2>4, <2>5
<1>10. \A i \in K : (s \o t)[Rank(i, K) + 1] = text[i]
  BY <1>8, <1>9 DEF Shifted
<1>11. At(text, K) = s \o t
  BY <1>1, <1>4, <1>7, <1>10, AtUnique
<1> QED
  BY <1>4, <1>11 DEF s, t, text, Join

\* What a rule drops, it drops from every piece of a text.
LEMMA WithoutConcat ==
  ASSUME NEW S, NEW u \in Seq(S), NEW v \in Seq(S), NEW T
  PROVE  Without(Join(u, v), T) = Join(Without(u, T), Without(v, T))
<1> DEFINE text == Join(u, v)
           I == {i \in DOMAIN u : u[i] \notin T}
           J == {j \in DOMAIN v : v[j] \notin T}
           K == {i \in DOMAIN text : text[i] \notin T}
<1>1. /\ Len(u) \in Nat /\ Len(v) \in Nat /\ DOMAIN u = 1..Len(u) /\ DOMAIN v = 1..Len(v)
      /\ DOMAIN text = 1..(Len(u) + Len(v))
      /\ \A i \in 1..Len(u) : text[i] = u[i]
      /\ \A j \in 1..Len(v) : text[Len(u) + j] = v[j]
  BY DEF Join
<1> HIDE DEF text
<1>2. ASSUME NEW k \in DOMAIN text  PROVE k \in DOMAIN u \/ \E j \in DOMAIN v : k = Len(u) + j
  <2>1. k \in Int /\ (k > Len(u) => k - Len(u) \in DOMAIN v /\ k = Len(u) + (k - Len(u)))
    BY <1>1
  <2> QED
    BY <1>1, <2>1
<1>3. ASSUME NEW j \in DOMAIN v  PROVE Len(u) + j \in DOMAIN text /\ Len(u) + j \notin DOMAIN u
  BY <1>1
<1>4. K = I \cup Shifted(Len(u), J)
  BY <1>1, <1>2, <1>3 DEF Shifted
<1>5. I \in SUBSET DOMAIN u /\ J \in SUBSET DOMAIN v
  OBVIOUS
<1>6. Without(text, T) = At(text, K) /\ Without(u, T) = At(u, I) /\ Without(v, T) = At(v, J)
  BY DEF Without
<1> HIDE DEF I, J, K
<1>7. At(text, I \cup Shifted(Len(u), J)) = Join(At(u, I), At(v, J))
  BY <1>5, AtConcat DEF text
<1> QED
  BY <1>4, <1>6, <1>7 DEF text

LEMMA WithoutFacts ==
  ASSUME NEW S, NEW text \in Seq(S), NEW T
  PROVE  /\ Without(text, T) \in Seq(S)
         /\ \A k \in DOMAIN Without(text, T) :
              \E i \in DOMAIN text : Without(text, T)[k] = text[i] /\ text[i] \notin T
         /\ \A i \in DOMAIN text : text[i] \notin T =>
              \E k \in DOMAIN Without(text, T) : Without(text, T)[k] = text[i]
<1> DEFINE I == {i \in DOMAIN text : text[i] \notin T}
<1>1. Without(text, T) = At(text, I) /\ I \in SUBSET DOMAIN text
  BY DEF Without
<1>2. \A i \in DOMAIN text : i \in I <=> text[i] \notin T
  OBVIOUS
<1> HIDE DEF I
<1>3. /\ At(text, I) \in Seq(S) /\ Len(At(text, I)) = Cardinality(I)
      /\ \A i \in I : Rank(i, I) + 1 \in 1..Cardinality(I) /\ At(text, I)[Rank(i, I) + 1] = text[i]
      /\ \A k \in 1..Cardinality(I) : \E i \in I : k = Rank(i, I) + 1
  BY <1>1, AtFacts
<1>4. DOMAIN At(text, I) = 1..Cardinality(I)
  BY <1>3
<1> QED
  BY <1>1, <1>2, <1>3, <1>4

LEMMA WithoutSame ==
  ASSUME NEW text, NEW A, NEW B, \A i \in DOMAIN text : text[i] \in A <=> text[i] \in B
  PROVE  Without(text, A) = Without(text, B)
<1>1. {i \in DOMAIN text : text[i] \notin A} = {i \in DOMAIN text : text[i] \notin B}
  OBVIOUS
<1> QED
  BY <1>1 DEF Without

LEMMA WithoutNothing ==
  ASSUME NEW S, NEW text \in Seq(S), NEW T, ~In(text, T)
  PROVE  Without(text, T) = text
<1>1. {i \in DOMAIN text : text[i] \notin T} = DOMAIN text
  BY DEF In
<1> QED
  BY <1>1, AtAll DEF Without

LEMMA WithoutEverything ==
  ASSUME NEW S, NEW text \in Seq(S), NEW T, \A i \in DOMAIN text : text[i] \in T
  PROVE  Without(text, T) = <<>>
<1>1. {i \in DOMAIN text : text[i] \notin T} = {}
  OBVIOUS
<1> QED
  BY <1>1, AtNone DEF Without

LEMMA WithoutOnce ==
  ASSUME NEW S, NEW text \in Seq(S), NEW T
  PROVE  ~In(Without(text, T), T)
  BY WithoutFacts DEF In

-------------------------------------------------------------------------------
\* The words of a text.

Map(words) == [i \in DOMAIN words |-> AcronymWord(words[i])]

LEMMA MapConcat ==
  ASSUME NEW S, NEW u \in Seq(S), NEW v \in Seq(S)
  PROVE  Map(Join(u, v)) = Join(Map(u), Map(v))
<1> DEFINE W == {AcronymWord(w) : w \in S}
           text == Join(u, v)
           a == Map(u)
           b == Map(v)
<1>1. /\ Len(u) \in Nat /\ Len(v) \in Nat /\ DOMAIN u = 1..Len(u) /\ DOMAIN v = 1..Len(v)
      /\ DOMAIN text = 1..(Len(u) + Len(v))
      /\ \A i \in 1..Len(u) : text[i] = u[i]
      /\ \A i \in 1..(Len(u) + Len(v)) : i \notin 1..Len(u) => i - Len(u) \in 1..Len(v) /\ text[i] = v[i - Len(u)]
  BY DEF Join
<1>2. \A i \in 1..Len(u) : u[i] \in S
  OBVIOUS
<1>3. \A i \in 1..Len(v) : v[i] \in S
  OBVIOUS
<1> HIDE DEF text
<1>4. a \in Seq(W) /\ Len(a) = Len(u) /\ \A i \in 1..Len(u) : a[i] = AcronymWord(u[i])
  BY <1>1, <1>2 DEF Map
<1>5. b \in Seq(W) /\ Len(b) = Len(v) /\ \A i \in 1..Len(v) : b[i] = AcronymWord(v[i])
  BY <1>1, <1>3 DEF Map
<1>6. Map(text) = [i \in 1..(Len(u) + Len(v)) |-> AcronymWord(text[i])]
  BY <1>1 DEF Map
<1> HIDE DEF a, b, W
<1> DEFINE c == a \o b
<1>7. /\ c = [i \in 1..(Len(u) + Len(v)) |-> c[i]]
      /\ \A i \in 1..Len(u) : c[i] = a[i]
      /\ \A i \in 1..(Len(u) + Len(v)) : i \notin 1..Len(u) => c[i] = b[i - Len(u)]
  <2>1. a \in Seq(W) /\ b \in Seq(W) /\ Len(a) = Len(u) /\ Len(b) = Len(v)
    BY <1>4, <1>5
  <2>2. /\ c \in Seq(W) /\ Len(c) = Len(a) + Len(b)
        /\ \A i \in 1..(Len(a) + Len(b)) : c[i] = IF i <= Len(a) THEN a[i] ELSE b[i - Len(a)]
    BY <2>1, ConcatProperties, Zenon
  <2> HIDE DEF c
  <2>3. c = [i \in 1..(Len(u) + Len(v)) |-> c[i]]
    BY <2>1, <2>2
  <2>4. ASSUME NEW i \in 1..Len(u)  PROVE c[i] = a[i]
    BY <1>1, <2>1, <2>2
  <2>5. ASSUME NEW i \in 1..(Len(u) + Len(v)), i \notin 1..Len(u)  PROVE c[i] = b[i - Len(u)]
    BY <1>1, <2>1, <2>2, <2>5
  <2> QED
    BY <2>3, <2>4, <2>5
<1> HIDE DEF c
<1>8. \A i \in 1..(Len(u) + Len(v)) : AcronymWord(text[i]) = c[i]
  BY <1>1, <1>4, <1>5, <1>7
<1> QED
  BY <1>6, <1>7, <1>8 DEF text, a, b, c, Join

LEMMA JoinFacts ==
  ASSUME NEW S, NEW u \in Seq(S), NEW v \in Seq(S)
  PROVE  /\ Join(u, v) \in Seq(S) /\ Len(Join(u, v)) = Len(u) + Len(v)
         /\ \A i \in DOMAIN u : i \in DOMAIN Join(u, v) /\ Join(u, v)[i] = u[i]
         /\ \A i \in DOMAIN v : Len(u) + i \in DOMAIN Join(u, v) /\ Join(u, v)[Len(u) + i] = v[i]
         /\ \A i \in DOMAIN Join(u, v) : i \in DOMAIN u \/ \E j \in DOMAIN v : i = Len(u) + j
         /\ Join(u, <<>>) = u /\ Join(<<>>, u) = u
<1>1. /\ Len(u) \in Nat /\ Len(v) \in Nat /\ DOMAIN u = 1..Len(u) /\ DOMAIN v = 1..Len(v)
      /\ u \o v \in Seq(S) /\ Len(u \o v) = Len(u) + Len(v) /\ DOMAIN (u \o v) = 1..(Len(u) + Len(v))
      /\ \A i \in 1..Len(u) : (u \o v)[i] = u[i]
      /\ \A i \in 1..Len(v) : (u \o v)[Len(u) + i] = v[i]
  OBVIOUS
<1>2. Join(u, <<>>) = u /\ Join(<<>>, u) = u
  BY DEF Join
<1>3. ASSUME NEW i \in 1..(Len(u) + Len(v))  PROVE i \in 1..Len(u) \/ \E j \in 1..Len(v) : i = Len(u) + j
  <2>1. i \notin 1..Len(u) => i - Len(u) \in 1..Len(v) /\ i = Len(u) + (i - Len(u))
    BY <1>1
  <2> QED
    BY <2>1
<1>4. \A i \in 1..Len(u) : i \in 1..(Len(u) + Len(v))
  BY <1>1
<1>5. \A i \in 1..Len(v) : Len(u) + i \in 1..(Len(u) + Len(v))
  BY <1>1
<1>6. Join(u, v) = u \o v
  BY DEF Join
<1> QED
  BY <1>1, <1>2, <1>3, <1>4, <1>5, <1>6

LEMMA InJoin ==
  ASSUME NEW S, NEW u \in Seq(S), NEW v \in Seq(S), NEW T
  PROVE  In(Join(u, v), T) <=> In(u, T) \/ In(v, T)
<1>1. /\ \A i \in DOMAIN u : i \in DOMAIN Join(u, v) /\ Join(u, v)[i] = u[i]
      /\ \A i \in DOMAIN v : Len(u) + i \in DOMAIN Join(u, v) /\ Join(u, v)[Len(u) + i] = v[i]
      /\ \A i \in DOMAIN Join(u, v) : i \in DOMAIN u \/ \E j \in DOMAIN v : i = Len(u) + j
  <2>1. \A i \in DOMAIN u : i \in DOMAIN Join(u, v) /\ Join(u, v)[i] = u[i]
    BY JoinFacts
  <2>2. \A i \in DOMAIN v : Len(u) + i \in DOMAIN Join(u, v) /\ Join(u, v)[Len(u) + i] = v[i]
    BY JoinFacts
  <2>3. \A i \in DOMAIN Join(u, v) : i \in DOMAIN u \/ \E j \in DOMAIN v : i = Len(u) + j
    BY JoinFacts
  <2> QED
    BY <2>1, <2>2, <2>3
<1>2. ASSUME In(Join(u, v), T)  PROVE In(u, T) \/ In(v, T)
  <2>1. PICK i \in DOMAIN Join(u, v) : Join(u, v)[i] \in T
    BY <1>2 DEF In
  <2>2. CASE i \in DOMAIN u
    BY <1>1, <2>1, <2>2 DEF In
  <2>3. CASE \E j \in DOMAIN v : i = Len(u) + j
    BY <1>1, <2>1, <2>3 DEF In
  <2> QED
    BY <1>1, <2>2, <2>3
<1>3. In(u, T) => In(Join(u, v), T)
  BY <1>1 DEF In
<1>4. In(v, T) => In(Join(u, v), T)
  BY <1>1 DEF In
<1> QED
  BY <1>2, <1>3, <1>4

-------------------------------------------------------------------------------
\* The parts of a text.

Token == STRING \cup ARABIC \cup MARKS \cup NUMBERS \cup {GENDER_MARKER}

LEMMA SeqOfMore ==
  ASSUME NEW A, NEW B, A \subseteq B
  PROVE  Seq(A) \subseteq Seq(B)
<1>1. ASSUME NEW s \in Seq(A)  PROVE s \in Seq(B)
  OBVIOUS
<1> QED
  BY <1>1

LEMMA SeqOfOne ==
  ASSUME NEW A, NEW a \in A
  PROVE  <<a>> \in Seq(A) /\ Len(<<a>>) = 1 /\ DOMAIN <<a>> = {1} /\ <<a>>[1] = a
  OBVIOUS

LEMMA Vocabulary ==
  /\ Names \cup Forms \cup Titles \cup Tags \cup Glosses \subseteq Seq(Token)
  /\ <<"-">> \in Seq(Token) /\ <<"|">> \in Seq(Token)
  /\ \A g \in Glosses : \A i \in DOMAIN g : g[i] \in ARABIC
<1>0. STRING \subseteq Token /\ ARABIC \subseteq Token /\ MARKS \subseteq Token
  BY Zenon DEF Token
<1>1. Seq(STRING) \subseteq Seq(Token) /\ Seq(ARABIC) \subseteq Seq(Token)
  BY <1>0, SeqOfMore, Zenon
<1>2. <<"-">> \in Seq(Token) /\ <<"|">> \in Seq(Token)
  <2>1. "-" \in Token /\ "|" \in Token
    BY <1>0, VocabularyAssumption
  <2> QED
    BY <2>1, SeqOfOne, Zenon
<1>3. \A g \in Seq(ARABIC) : \A i \in DOMAIN g : g[i] \in ARABIC
  OBVIOUS
<1> QED
  BY <1>1, <1>2, <1>3, VocabularyAssumption, Zenon

Has(text, w) == \E i \in DOMAIN text : text[i] = w

LEMMA Pieces ==
  ASSUME NEW u \in Seq(Token), NEW v \in Seq(Token), NEW T, NEW w
  PROVE  /\ Join(u, v) \in Seq(Token)
         /\ Without(Join(u, v), T) = Join(Without(u, T), Without(v, T))
         /\ Has(u, w) \/ Has(v, w) => Has(Join(u, v), w)
<1>1. Join(u, v) \in Seq(Token)
  BY JoinFacts
<1>2. Without(Join(u, v), T) = Join(Without(u, T), Without(v, T))
  BY WithoutConcat
<1>3. Has(u, w) \/ Has(v, w) => Has(Join(u, v), w)
  <2>1. In(Join(u, v), {w}) <=> In(u, {w}) \/ In(v, {w})
    BY InJoin
  <2> QED
    BY <2>1 DEF In, Has
<1> QED
  BY <1>1, <1>2, <1>3

LEMMA PartFacts ==
  ASSUME NEW text \in Seq(Token), NEW i \in DOMAIN text, text[i] \notin MARKS
  PROVE  /\ i \in Part(text, i)
         /\ Part(text, i) \subseteq DOMAIN text /\ \A j \in Part(text, i) : text[j] \notin MARKS
         /\ \A j, l \in Part(text, i) : l \in Part(text, j)
<1>1. \A h \in DOMAIN text : h \in Int
  OBVIOUS
<1>2. i \in Part(text, i)
  BY <1>1 DEF Part
<1>3. Part(text, i) \subseteq DOMAIN text /\ \A j \in Part(text, i) : text[j] \notin MARKS
  BY DEF Part
<1>4. ASSUME NEW j \in Part(text, i), NEW l \in Part(text, i)  PROVE l \in Part(text, j)
  <2>1. ASSUME NEW h \in DOMAIN text, (j < h /\ h < l) \/ (l < h /\ h < j)  PROVE text[h] \notin MARKS
    <3>1. j \in Int /\ l \in Int /\ h \in Int /\ i \in Int
      BY <1>1, <1>3
    <3>2. h = i \/ (i < h /\ h < l) \/ (l < h /\ h < i) \/ (i < h /\ h < j) \/ (j < h /\ h < i)
      BY <2>1, <3>1
    <3>3. (i < h /\ h < l) \/ (l < h /\ h < i) => text[h] \notin MARKS
      BY DEF Part
    <3>4. (i < h /\ h < j) \/ (j < h /\ h < i) => text[h] \notin MARKS
      BY DEF Part
    <3> QED
      BY <3>2, <3>3, <3>4
  <2> QED
    BY <1>3, <2>1 DEF Part
<1> QED
  BY <1>2, <1>3, <1>4

\* A bilingual text keeps its words that are not Arabic, unless a part of it is
\* both or a number alone.
LEMMA Bilingual ==
  ASSUME NEW n, NEW text \in Seq(Token), In(text, ARABIC), ~In(n, ARABIC),
         ~TornByArabic(text), ~LostNumber(n, text),
         \E i \in DOMAIN text : text[i] \notin ARABIC \cup MARKS
  PROVE  Words(_prefer_latin(text)) = Map(Without(text, ARABIC \cup MARKS))
<1> DEFINE own == {i \in DOMAIN text : text[i] \notin ARABIC \cup MARKS}
<1>1. ASSUME NEW i \in DOMAIN text, text[i] \notin ARABIC \cup MARKS
      PROVE  \E j \in Part(text, i) : Latin(text[j])
  <2>1. CASE text[i] \in NUMBERS
    BY <2>1 DEF LostNumber
  <2>2. CASE text[i] \notin NUMBERS
    BY <1>1, <2>2, PartFacts DEF Latin
  <2> QED
    BY <2>1, <2>2
<1>2. \E i \in DOMAIN text : Latin(text[i])
  BY <1>1, PartFacts
<1>3. CASE ~In(text, MARKS)
  <2>1. PICK a \in DOMAIN text : text[a] \in ARABIC
    BY DEF In
  <2>2. \A i \in DOMAIN text : a \in Part(text, i)
    BY <1>3 DEF Part, In
  <2>3. LatinParts(text) = {}
    BY <2>1, <2>2 DEF LatinParts
  <2>4. _prefer_latin(text) = Without(text, ARABIC)
    BY <1>2, <2>3 DEF _prefer_latin
  <2>5. \A i \in DOMAIN text : text[i] \in ARABIC <=> text[i] \in ARABIC \cup MARKS
    BY <1>3 DEF In
  <2>6. Without(text, ARABIC) = Without(text, ARABIC \cup MARKS)
    BY <2>5, WithoutSame
  <2>7. Without(text, ARABIC) \in Seq(Token) /\ ~In(Without(text, ARABIC), MARKS)
    BY <1>3, WithoutFacts DEF In
  <2>8. Without(Without(text, ARABIC), MARKS) = Without(text, ARABIC)
    BY <2>7, WithoutNothing
  <2> QED
    BY <2>4, <2>6, <2>8 DEF Words, Map
<1>4. CASE In(text, MARKS)
  <2>1. LatinParts(text) = own
    <3>1. ASSUME NEW i \in LatinParts(text)  PROVE i \in own
      BY PartFacts DEF LatinParts
    <3>2. ASSUME NEW i \in own  PROVE i \in LatinParts(text)
      <4>1. PICK l \in Part(text, i) : Latin(text[l])
        BY <1>1
      <4>2. ASSUME NEW j \in Part(text, i), text[j] \in ARABIC  PROVE FALSE
        <5>1. l \in Part(text, j) /\ j \in DOMAIN text
          BY PartFacts
        <5> QED
          BY <1>4, <4>1, <4>2, <5>1 DEF TornByArabic
      <4> QED
        BY <4>1, <4>2 DEF LatinParts
    <3>3. LatinParts(text) \subseteq DOMAIN text /\ own \subseteq DOMAIN text
      BY DEF LatinParts
    <3> QED
      BY <3>1, <3>2, <3>3
  <2>2. LatinParts(text) # {}
    BY <2>1
  <2>3. _prefer_latin(text) = Without(text, ARABIC \cup MARKS)
    BY <1>2, <2>1, <2>2 DEF _prefer_latin, Without
  <2>4. /\ Without(text, ARABIC \cup MARKS) \in Seq(Token)
        /\ ~In(Without(text, ARABIC \cup MARKS), MARKS)
    BY WithoutFacts DEF In
  <2>5. Without(Without(text, ARABIC \cup MARKS), MARKS) = Without(text, ARABIC \cup MARKS)
    BY <2>4, WithoutNothing
  <2> QED
    BY <2>3, <2>5 DEF Words, Map
<1> QED
  BY <1>3, <1>4

-------------------------------------------------------------------------------
\* employer.py

\* What stands behind a name that does not itself end like a legal form goes.
LEMMA FormsGo ==
  ASSUME NEW S, NEW u \in Seq(S), NEW v \in Seq(S),
         u # <<>>, u[Len(u)] \notin LEGAL_SUFFIXES, \A i \in DOMAIN v : v[i] \in LEGAL_SUFFIXES
  PROVE  WithoutForms(Join(u, v)) = u
<1> DEFINE words == Join(u, v)
           last == {i \in DOMAIN words : \A j \in DOMAIN words : j >= i => words[j] \in LEGAL_SUFFIXES}
<1>1. /\ Len(u) \in Nat \ {0} /\ Len(v) \in Nat /\ DOMAIN u = 1..Len(u) /\ DOMAIN v = 1..Len(v)
      /\ words \in Seq(S) /\ Len(words) = Len(u) + Len(v) /\ DOMAIN words = 1..(Len(u) + Len(v))
      /\ \A i \in 1..Len(u) : words[i] = u[i]
      /\ \A i \in 1..Len(v) : words[Len(u) + i] = v[i]
  BY DEF Join
<1> HIDE DEF words
<1>2. ASSUME NEW i \in DOMAIN words, i > Len(u)  PROVE words[i] \in LEGAL_SUFFIXES
  <2>1. i - Len(u) \in 1..Len(v) /\ i = Len(u) + (i - Len(u))
    BY <1>1, <1>2
  <2> QED
    BY <1>1, <2>1
<1>3. last = (Len(u) + 1)..(Len(u) + Len(v))
  <2>1. ASSUME NEW i \in last  PROVE i \in (Len(u) + 1)..(Len(u) + Len(v))
    <3>1. Len(u) \in DOMAIN words /\ words[Len(u)] \notin LEGAL_SUFFIXES
      BY <1>1
    <3>2. ~(Len(u) >= i)
      BY <3>1
    <3> QED
      BY <1>1, <3>2
  <2>2. ASSUME NEW i \in (Len(u) + 1)..(Len(u) + Len(v))  PROVE i \in last
    <3>1. i \in DOMAIN words /\ i > Len(u)
      BY <1>1
    <3>2. \A j \in DOMAIN words : j >= i => j > Len(u)
      BY <1>1, <3>1
    <3> QED
      BY <1>2, <3>1, <3>2
  <2> HIDE DEF last
  <2> QED
    BY <2>1, <2>2
<1>4. Cardinality(last) = Len(v)
  <2>1. Len(u) + 1 \in Int /\ Len(u) + Len(v) \in Int
    BY <1>1
  <2>2. Cardinality((Len(u) + 1)..(Len(u) + Len(v)))
          = IF Len(u) + 1 > Len(u) + Len(v) THEN 0 ELSE (Len(u) + Len(v)) - (Len(u) + 1) + 1
    BY <2>1, FS_Interval
  <2> HIDE DEF last
  <2>3. Cardinality(last) = IF Len(u) + 1 > Len(u) + Len(v) THEN 0 ELSE (Len(u) + Len(v)) - (Len(u) + 1) + 1
    BY <1>3, <2>2
  <2> QED
    BY <1>1, <2>3
<1>5. WithoutForms(words) = SubSeq(words, 1, Len(words) - Cardinality(last))
  BY DEF WithoutForms
<1> HIDE DEF last
<1>6. Len(words) - Cardinality(last) = Len(u)
  BY <1>1, <1>4
<1>7. SubSeq(words, 1, Len(u)) = u
  BY <1>1
<1> QED
  BY <1>5, <1>6, <1>7 DEF words

LEMMA WordsFacts ==
  ASSUME NEW text \in Seq(Token)
  PROVE  /\ Words(text) = Map(Without(text, MARKS))
         /\ Words(text) \in Seq(Token) /\ ~In(Words(text), MARKS)
         /\ (\E i \in DOMAIN text : text[i] \notin MARKS) => Words(text) # <<>>
<1> DEFINE kept == Without(text, MARKS)
<1>1. Words(text) = Map(kept)
  BY DEF Words, Map
<1>2. /\ kept \in Seq(Token) /\ \A i \in DOMAIN kept : kept[i] \notin MARKS
      /\ \A i \in DOMAIN text : text[i] \notin MARKS => \E k \in DOMAIN kept : kept[k] = text[i]
  BY WithoutFacts
<1> HIDE DEF kept
<1>3. ASSUME NEW w \in Token, w \notin MARKS  PROVE AcronymWord(w) \in Token /\ AcronymWord(w) \notin MARKS
  BY <1>3, VocabularyAssumption, Zenon DEF AcronymWord, Token
<1>4. Map(kept) = [i \in 1..Len(kept) |-> AcronymWord(kept[i])] /\ DOMAIN kept = 1..Len(kept) /\ Len(kept) \in Nat
  BY <1>2 DEF Map
<1>5. \A i \in 1..Len(kept) : AcronymWord(kept[i]) \in Token /\ AcronymWord(kept[i]) \notin MARKS
  BY <1>2, <1>3, <1>4
<1>6. Map(kept) \in Seq(Token) /\ ~In(Map(kept), MARKS)
  BY <1>4, <1>5 DEF In
<1>7. (\E i \in DOMAIN text : text[i] \notin MARKS) => Map(kept) # <<>>
  BY <1>2, <1>4
<1> QED
  BY <1>1, <1>6, <1>7 DEF kept

LEMMA FormFacts ==
  ASSUME NEW f \in Forms \cup {<<>>}
  PROVE  /\ f \in Seq(Token) /\ \A i \in DOMAIN f : f[i] \notin ARABIC \cup MARKS /\ Latin(f[i])
         /\ Map(f) \in Seq(Token) /\ \A i \in DOMAIN Map(f) : Map(f)[i] \in LEGAL_SUFFIXES
<1>1. f \in Seq(Token)
  <2>1. <<>> \in Seq(Token)
    OBVIOUS
  <2> QED
    BY <2>1, Vocabulary
<1>2. \A i \in DOMAIN f : Latin(f[i]) /\ AcronymWord(f[i]) \in LEGAL_SUFFIXES
  BY EmployersAssumption DEF AcronymWord
<1>3. \A i \in DOMAIN f : f[i] \notin ARABIC \cup MARKS
  BY <1>2 DEF Latin
<1>4. ASSUME NEW w \in Token  PROVE AcronymWord(w) \in Token
  BY <1>4, VocabularyAssumption, Zenon DEF AcronymWord, Token
<1>5. DOMAIN f = 1..Len(f) /\ Len(f) \in Nat /\ \A i \in DOMAIN f : f[i] \in Token
  BY <1>1
<1>6. Map(f) = [i \in 1..Len(f) |-> AcronymWord(f[i])]
  BY <1>5 DEF Map
<1>7. Map(f) \in Seq(Token) /\ \A i \in DOMAIN Map(f) : Map(f)[i] \in LEGAL_SUFFIXES
  BY <1>2, <1>4, <1>5, <1>6
<1> QED
  BY <1>1, <1>2, <1>3, <1>7

LEMMA NameFacts ==
  ASSUME NEW n \in Names
  PROVE  n \in Seq(Token) /\ Words(n) # <<>> /\ \E i \in DOMAIN n : n[i] \notin MARKS
BY Vocabulary, EmployersAssumption, WordsFacts

LEMMA FormGone ==
  ASSUME NEW n \in Names, NEW f \in Forms \cup {<<>>}, NEW text, ~CalledLikeAForm(n),
         Words(_prefer_latin(text)) = Join(Words(n), Map(f))
  PROVE  normalise_employer(text) = Words(n)
<1>1. Words(n) \in Seq(Token) /\ Words(n) # <<>> /\ Words(n)[Len(Words(n))] \notin LEGAL_SUFFIXES
  BY NameFacts, WordsFacts DEF CalledLikeAForm
<1>2. Map(f) \in Seq(Token) /\ \A i \in DOMAIN Map(f) : Map(f)[i] \in LEGAL_SUFFIXES
  BY FormFacts
<1>3. WithoutForms(Join(Words(n), Map(f))) = Words(n)
  BY <1>1, <1>2, FormsGo
<1> QED
  BY <1>3 DEF normalise_employer

\* A name with a legal form behind it.
LEMMA NameAndForm ==
  ASSUME NEW n \in Names, NEW f \in Forms \cup {<<>>}, ~FormForName(n, Join(n, f))
  PROVE  Words(_prefer_latin(Join(n, f))) = Join(Words(n), Map(f))
<1> DEFINE text == Join(n, f)
<1>1. n \in Seq(Token) /\ f \in Seq(Token) /\ ~In(f, ARABIC) /\ ~In(f, MARKS)
  BY NameFacts, FormFacts DEF In
<1>2. text \in Seq(Token)
  BY <1>1, JoinFacts
<1>3. In(text, ARABIC) => In(n, ARABIC)
  BY <1>1, InJoin
<1>4. _prefer_latin(text) = text
  BY <1>3 DEF FormForName, _prefer_latin
<1>5. Without(n, MARKS) \in Seq(Token) /\ Without(f, MARKS) = f
  BY <1>1, WithoutFacts, WithoutNothing
<1>6. Without(text, MARKS) = Join(Without(n, MARKS), f)
  BY <1>1, <1>5, WithoutConcat
<1>7. Map(Join(Without(n, MARKS), f)) = Join(Map(Without(n, MARKS)), Map(f))
  BY <1>1, <1>5, MapConcat
<1> HIDE DEF text
<1>8. Words(text) = Map(Without(text, MARKS)) /\ Words(n) = Map(Without(n, MARKS))
  BY <1>1, <1>2, WordsFacts
<1> QED
  BY <1>4, <1>6, <1>7, <1>8 DEF text

\* The Arabic name in it or not: a text that has these pieces, and no others but
\* Arabic words and marks.
Glossed(n, f, g) == {Join(Join(Join(n, f), <<"-">>), g), Join(Join(Join(g, <<"|">>), n), f), Join(Join(n, g), f)}

LEMMA NameAndGloss ==
  ASSUME NEW n \in Names, NEW f \in Forms \cup {<<>>}, NEW g \in Glosses, NEW text \in Glossed(n, f, g),
         ~In(n, ARABIC), ~TornByArabic(text), ~LostNumber(n, text)
  PROVE  Words(_prefer_latin(text)) = Join(Words(n), Map(f))
<1> DEFINE T == ARABIC \cup MARKS
           kept == Without(n, MARKS)
           dash == <<"-">>
           bar  == <<"|">>
           none == <<>>
<1>1. /\ n \in Seq(Token) /\ f \in Seq(Token) /\ g \in Seq(Token)
      /\ dash \in Seq(Token) /\ bar \in Seq(Token)
  <2>1. n \in Seq(Token) /\ f \in Seq(Token)
    BY NameFacts, FormFacts
  <2>2. g \in Seq(Token)
    BY Vocabulary
  <2> QED
    BY <2>1, <2>2, Vocabulary
<1>2. kept \in Seq(Token) /\ Without(n, T) = kept
  BY <1>1, WithoutFacts, WithoutSame DEF In
<1>3. Without(f, T) = f
  BY <1>1, FormFacts, WithoutNothing DEF In
<1>4. Without(g, T) = none
  BY <1>1, Vocabulary, WithoutEverything
<1>5. Without(dash, T) = none /\ Without(bar, T) = none
  <2>1. {"-", "|"} \subseteq T
    BY VocabularyAssumption
  <2>2. (\A i \in DOMAIN dash : dash[i] \in T) /\ \A i \in DOMAIN bar : bar[i] \in T
    BY <2>1
  <2> QED
    BY <1>1, <2>2, WithoutEverything
<1> HIDE DEF T, kept, dash, bar, none
<1>6. text \in Seq(Token) /\ Without(text, T) = Join(kept, f) /\ \E i \in DOMAIN text : text[i] \notin T
  <2>1. PICK w : Has(n, w) /\ w \notin T
    BY NameFacts DEF In, Has, T
  <2>2. Join(kept, f) \in Seq(Token) /\ Join(Join(kept, f), none) = Join(kept, f)
    BY <1>1, <1>2, JoinFacts DEF none
  <2>3. Join(none, kept) = kept /\ Join(kept, none) = kept /\ Join(none, none) = none
    BY <1>2 DEF Join, none
  <2>4. CASE text = Join(Join(Join(n, f), dash), g)
    <3>1. Join(n, f) \in Seq(Token) /\ Without(Join(n, f), T) = Join(kept, f) /\ Has(Join(n, f), w)
      BY <1>1, <1>2, <1>3, <2>1, Pieces
    <3>2. /\ Join(Join(n, f), dash) \in Seq(Token) /\ Without(Join(Join(n, f), dash), T) = Join(kept, f)
          /\ Has(Join(Join(n, f), dash), w)
      BY <1>1, <1>5, <2>2, <3>1, Pieces
    <3>3. text \in Seq(Token) /\ Without(text, T) = Join(kept, f) /\ Has(text, w)
      BY <1>1, <1>4, <2>2, <2>4, <3>2, Pieces
    <3> QED
      BY <2>1, <3>3 DEF Has
  <2>5. CASE text = Join(Join(Join(g, bar), n), f)
    <3>1. Join(g, bar) \in Seq(Token) /\ Without(Join(g, bar), T) = none
      <4>1. Join(g, bar) \in Seq(Token) /\ Without(Join(g, bar), T) = Join(Without(g, T), Without(bar, T))
        BY <1>1, JoinFacts, WithoutConcat
      <4> QED
        BY <1>4, <1>5, <2>3, <4>1
    <3>2. /\ Join(Join(g, bar), n) \in Seq(Token) /\ Without(Join(Join(g, bar), n), T) = kept
          /\ Has(Join(Join(g, bar), n), w)
      BY <1>1, <1>2, <2>1, <2>3, <3>1, Pieces
    <3>3. text \in Seq(Token) /\ Without(text, T) = Join(kept, f) /\ Has(text, w)
      BY <1>1, <1>3, <2>5, <3>2, Pieces
    <3> QED
      BY <2>1, <3>3 DEF Has
  <2>6. CASE text = Join(Join(n, g), f)
    <3>1. Join(n, g) \in Seq(Token) /\ Without(Join(n, g), T) = kept /\ Has(Join(n, g), w)
      BY <1>1, <1>2, <1>4, <2>1, <2>3, Pieces
    <3>2. text \in Seq(Token) /\ Without(text, T) = Join(kept, f) /\ Has(text, w)
      BY <1>1, <1>3, <2>6, <3>1, Pieces
    <3> QED
      BY <2>1, <3>2 DEF Has
  <2> QED
    BY <2>4, <2>5, <2>6 DEF Glossed, dash, bar
<1>7. Words(_prefer_latin(text)) = Map(Without(text, T))
  <2>1. CASE In(text, ARABIC)
    BY <1>6, <2>1, Bilingual DEF T
  <2>2. CASE ~In(text, ARABIC)
    <3>1. _prefer_latin(text) = text /\ Words(text) = Map(Without(text, MARKS))
      BY <1>6, <2>2, WordsFacts DEF _prefer_latin
    <3>2. Without(text, MARKS) = Without(text, T)
      BY <2>2, WithoutSame DEF T, In
    <3> QED
      BY <3>1, <3>2
  <2> QED
    BY <2>1, <2>2
<1>8. Map(Join(kept, f)) = Join(Map(kept), Map(f))
  BY <1>1, <1>2, MapConcat
<1>9. Words(n) = Map(kept)
  BY <1>1, WordsFacts DEF kept
<1> QED
  BY <1>6, <1>7, <1>8, <1>9

LEMMA EmployerKey ==
  ASSUME NEW n \in Names, NEW text \in EmployerTexts(n), ~Unsure(n, text)
  PROVE  normalise_employer(text) = Words(n)
<1>1. PICK f \in Forms, g \in Glosses : text \in Renderings(n, f, g)
  BY DEF EmployerTexts
<1>2. text = Join(n, f) \/ (~In(n, ARABIC) /\ text \in Glossed(n, f, g))
  BY <1>1 DEF Renderings, Join, Glossed
<1>3. ~CalledLikeAForm(n) /\ ~FormForName(n, text) /\ ~TornByArabic(text) /\ ~LostNumber(n, text)
  BY DEF Unsure
<1>4. Words(_prefer_latin(text)) = Join(Words(n), Map(f))
  BY <1>2, <1>3, NameAndForm, NameAndGloss
<1> QED
  BY <1>3, <1>4, FormGone

\* The name alone.
LEMMA BareEmployerKey ==
  ASSUME NEW n \in Names, ~Unsure(n, n)
  PROVE  normalise_employer(n) = Words(n)
<1>1. Join(n, <<>>) = n
  BY NameFacts, JoinFacts
<1>2. Words(_prefer_latin(n)) = Join(Words(n), Map(<<>>))
  BY <1>1, NameAndForm DEF Unsure
<1> QED
  BY <1>2, FormGone DEF Unsure

-------------------------------------------------------------------------------
\* title.py.  Of a title that does not itself end like a tag, the tag goes and
\* nothing else; and what a marker leaves of a tag is no title.

LastOf(s) == s[Len(s)]

\* A requisition id goes from behind what does not look like the start of one.
LEMMA ReqIdGoes ==
  ASSUME NEW t \in Seq(Token), t # <<>>, ~In(t, KEYWORDS), LastOf(t) # "job",
         NEW x, x \notin MARKS, NEW id \in RequisitionIds(x)
  PROVE  WithoutReqId([words |-> t \o id, blank |-> FALSE]) = [words |-> t, blank |-> FALSE]
<1> DEFINE n == Len(t)
           text == t \o id
           w == [words |-> text, blank |-> FALSE]
<1>1. n \in Nat \ {0} /\ DOMAIN t = 1..n /\ t \o <<>> = t
  OBVIOUS
<1>2. \A i \in 1..n : t[i] \notin {"req", "requisition", "ref", "id"}
  BY <1>1 DEF In, KEYWORDS
<1>3. t[n] # "job"
  BY DEF LastOf
<1>4. CASE id = <<>>
  <2>1. REQ_IDs(t) = {}
    BY <1>1, <1>2 DEF REQ_IDs, KEYWORDS
  <2> QED
    BY <1>1, <1>4, <2>1 DEF WithoutReqId
<1>5. ASSUME NEW first \in Nat, first \in REQ_IDs(text), \A i \in REQ_IDs(text) : first <= i, first = n + 1,
             SubSeq(text, 1, n) = t
      PROVE  WithoutReqId(w) = [words |-> t, blank |-> FALSE]
  <2> HIDE DEF text
  <2>1. \A i \in REQ_IDs(text) : i \in Int
    BY DEF REQ_IDs
  <2>2. (CHOOSE i \in REQ_IDs(text) : \A j \in REQ_IDs(text) : i <= j) = first
    <3>1. \A i \in REQ_IDs(text) : (\A j \in REQ_IDs(text) : i <= j) => i = first
      BY <1>5, <2>1
    <3> QED
      BY <1>5, <3>1
  <2>3. WithoutReqId(w) = [w EXCEPT !.words = SubSeq(text, 1, first - 1)]
    BY <1>5, <2>2 DEF WithoutReqId
  <2>4. first - 1 = n
    BY <1>1, <1>5
  <2> QED
    BY <1>5, <2>3, <2>4
<1>6. CASE \E k \in KEYWORDS : id = <<k, x>>
  <2>1. PICK k \in KEYWORDS : id = <<k, x>>
    BY <1>6
  <2>2. /\ Len(text) = n + 2 /\ text[n + 1] = k /\ text[n + 2] = x /\ SubSeq(text, 1, n) = t
        /\ \A i \in 1..n : text[i] = t[i]
    BY <1>1, <2>1
  <2> HIDE DEF text
  <2> HIDE DEF n
  <2>3. REQ_IDs(text) = {i \in 1..(n + 1) : text[n + 2] \notin MARKS /\
                            \/ i = n + 1 /\ text[i] \in KEYWORDS
                            \/ i = n /\ text[i] \in {"req", "requisition", "job"} /\ text[i + 1] = "id"}
    <3>1. Len(text) - 1 = n + 1 /\ Len(text) - 2 = n
      BY <1>1, <2>2
    <3> QED
      BY <2>2, <3>1 DEF REQ_IDs
  <2>4. n + 1 \in REQ_IDs(text)
    BY <1>1, <2>1, <2>2, <2>3
  <2>5. ASSUME NEW i \in REQ_IDs(text)  PROVE n + 1 <= i
    <3>1. i = n + 1 \/ (i = n /\ text[i] \in {"req", "requisition", "job"})
      BY <2>3
    <3>2. n \in 1..n /\ text[n] = t[n] /\ t[n] \notin {"req", "requisition", "job"}
      BY <1>1, <1>2, <1>3, <2>2
    <3> QED
      BY <1>1, <3>1, <3>2
  <2>6. n + 1 \in Nat
    BY <1>1
  <2> QED
    BY <1>5, <2>2, <2>4, <2>5, <2>6 DEF text
<1>7. CASE \E k \in {"req", "requisition", "job"} : id = <<k, "id", x>>
  <2>1. PICK k \in {"req", "requisition", "job"} : id = <<k, "id", x>>
    BY <1>7
  <2>2. /\ Len(text) = n + 3 /\ text[n + 1] = k /\ text[n + 2] = "id" /\ text[n + 3] = x
        /\ SubSeq(text, 1, n) = t /\ \A i \in 1..n : text[i] = t[i]
    BY <1>1, <2>1
  <2> HIDE DEF text
  <2> HIDE DEF n
  <2>3. REQ_IDs(text) = {i \in 1..(n + 2) : text[n + 3] \notin MARKS /\
                            \/ i = n + 2 /\ text[i] \in KEYWORDS
                            \/ i = n + 1 /\ text[i] \in {"req", "requisition", "job"} /\ text[i + 1] = "id"}
    <3>1. Len(text) - 1 = n + 2 /\ Len(text) - 2 = n + 1
      BY <1>1, <2>2
    <3> QED
      BY <2>2, <3>1 DEF REQ_IDs
  <2>4. n + 1 \in REQ_IDs(text)
    <3>1. n + 1 \in 1..(n + 2) /\ (n + 1) + 1 = n + 2
      BY <1>1
    <3> QED
      BY <2>1, <2>2, <2>3, <3>1
  <2>5. \A i \in REQ_IDs(text) : n + 1 <= i
    BY <1>1, <2>3
  <2>6. n + 1 \in Nat
    BY <1>1
  <2> QED
    BY <1>5, <2>2, <2>4, <2>5, <2>6 DEF text
<1> QED
  BY <1>4, <1>6, <1>7 DEF RequisitionIds

LEMMA NumberGoes ==
  ASSUME NEW t \in Seq(Token), t # <<>>, ~In(t, NUMBERS), NEW number \in TagNumbers
  PROVE  WithoutNumber([words |-> t \o number, blank |-> FALSE]).words = t
<1>1. Len(t) \in Nat \ {0} /\ t \o <<>> = t /\ t[Len(t)] \notin NUMBERS
  BY DEF In
<1>2. CASE number = <<>>
  BY <1>1, <1>2 DEF WithoutNumber
<1>3. CASE \E y \in NUMBERS : number = <<y>>
  <2>1. PICK y \in NUMBERS : number = <<y>>
    BY <1>3
  <2> DEFINE text == t \o number
             w == [words |-> text, blank |-> FALSE]
  <2>2. Len(text) = Len(t) + 1 /\ text[Len(t) + 1] = y /\ SubSeq(text, 1, Len(t)) = t
    BY <1>1, <2>1
  <2> HIDE DEF text
  <2>3. Len(text) > 1 /\ text[Len(text)] \in NUMBERS /\ Len(text) - 1 = Len(t)
    BY <1>1, <2>1, <2>2
  <2>4. WithoutNumber(w) = [w EXCEPT !.words = SubSeq(text, 1, Len(text) - 1)]
    BY <2>3 DEF WithoutNumber
  <2>5. WithoutNumber(w).words = t
    BY <2>2, <2>3, <2>4
  <2> QED
    BY <2>5 DEF text
<1> QED
  BY <1>2, <1>3 DEF TagNumbers

LEMMA TagGoes ==
  ASSUME NEW t \in Titles, ~CalledLikeATag(t), NEW tag \in Tags
  PROVE  WithoutTags([words |-> t \o tag, blank |-> FALSE]).words = t
<1>1. /\ t \in Seq(Token) /\ t # <<>> /\ ~In(t, NUMBERS) /\ ~In(t, KEYWORDS) /\ t[Len(t)] # "job"
      /\ Len(t) \in Nat \ {0} /\ t \o <<>> = t
  <2>1. t \in Seq(Token) /\ t # <<>>
    BY Vocabulary, TitlesAssumption
  <2> QED
    BY <2>1 DEF CalledLikeATag, In
<1>2. \E x : x \notin MARKS /\ \E number \in TagNumbers, id \in RequisitionIds(x) : tag = number \o id
  <2>1. CASE tag = <<>>
    <3>1. <<>> \in TagNumbers /\ <<>> \in RequisitionIds("id") /\ "id" \notin MARKS /\ <<>> \o <<>> = <<>>
      BY VocabularyAssumption DEF TagNumbers, RequisitionIds, KEYWORDS
    <3> QED
      BY <2>1, <3>1
  <2>2. CASE tag # <<>>
    BY <2>2, TitlesAssumption
  <2> QED
    BY <2>1, <2>2
<1>3. PICK x : x \notin MARKS /\ \E number \in TagNumbers, id \in RequisitionIds(x) : tag = number \o id
  BY <1>2
<1>4. PICK number \in TagNumbers, id \in RequisitionIds(x) : tag = number \o id
  BY <1>3
<1> DEFINE base == t \o number
<1>5. /\ base \in Seq(Token) /\ base # <<>> /\ ~In(base, KEYWORDS) /\ LastOf(base) # "job"
  <2>1. CASE number = <<>>
    BY <1>1, <2>1 DEF LastOf
  <2>2. CASE \E y \in NUMBERS : number = <<y>>
    <3>1. PICK y \in NUMBERS : number = <<y>>
      BY <2>2
    <3>2. y \in Token
      BY Zenon DEF Token
    <3>3. /\ base \in Seq(Token) /\ Len(base) = Len(t) + 1 /\ base[Len(t) + 1] = y
          /\ \A i \in 1..Len(t) : base[i] = t[i]
      BY <1>1, <3>1, <3>2
    <3>4. y \notin KEYWORDS /\ y # "job"
      BY VocabularyAssumption
    <3> HIDE DEF base
    <3>5. base # <<>> /\ LastOf(base) # "job"
      BY <1>1, <3>3, <3>4 DEF LastOf
    <3>6. ~In(base, KEYWORDS)
      <4>1. ASSUME NEW i \in 1..(Len(t) + 1)  PROVE base[i] \notin KEYWORDS
        <5>1. i \in 1..Len(t) \/ i = Len(t) + 1
          BY <1>1
        <5> QED
          BY <1>1, <3>3, <3>4, <5>1 DEF In
      <4> QED
        BY <1>1, <3>3, <4>1 DEF In
    <3> QED
      BY <3>3, <3>5, <3>6
  <2> QED
    BY <2>1, <2>2 DEF TagNumbers
<1>6. t \o tag = base \o id
  <2>1. CASE number = <<>>
    BY <1>1, <1>4, <2>1 DEF RequisitionIds
  <2>2. CASE \E y \in NUMBERS : number = <<y>>
    <3>1. PICK y \in NUMBERS : number = <<y>>
      BY <2>2
    <3> QED
      BY <1>1, <1>4, <3>1 DEF RequisitionIds
  <2> QED
    BY <2>1, <2>2 DEF TagNumbers
<1> HIDE DEF base
<1>7. WithoutReqId([words |-> base \o id, blank |-> FALSE]) = [words |-> base, blank |-> FALSE]
  BY <1>3, <1>5, ReqIdGoes
<1>8. WithoutNumber([words |-> base, blank |-> FALSE]).words = t
  BY <1>1, NumberGoes DEF base
<1> QED
  BY <1>6, <1>7, <1>8 DEF WithoutTags

\* A tag is told by what is in it.
LEMMA TagShows ==
  ASSUME NEW tag \in Tags, tag # <<>>
  PROVE  In(tag, KEYWORDS \cup NUMBERS)
<1>1. PICK number \in TagNumbers, id \in RequisitionIds(LastOf(tag)) : tag = number \o id
  BY TitlesAssumption DEF LastOf
<1>2. CASE \E y \in NUMBERS : number = <<y>>
  <2>1. PICK y \in NUMBERS : number = <<y>>
    BY <1>2
  <2>2. 1 \in DOMAIN tag /\ tag[1] = y
    BY <1>1, <2>1 DEF RequisitionIds
  <2> QED
    BY <2>2 DEF In
<1>3. CASE number = <<>>
  <2>1. tag = id
    BY <1>1, <1>3 DEF RequisitionIds
  <2>2. CASE \E k \in KEYWORDS : id = <<k, LastOf(tag)>>
    <3>1. 1 \in DOMAIN tag /\ tag[1] \in KEYWORDS
      BY <2>1, <2>2
    <3> QED
      BY <3>1 DEF In
  <2>3. CASE \E k \in {"req", "requisition", "job"} : id = <<k, "id", LastOf(tag)>>
    <3>1. 2 \in DOMAIN tag /\ tag[2] \in KEYWORDS
      BY <2>1, <2>3 DEF KEYWORDS
    <3> QED
      BY <3>1 DEF In
  <2> QED
    BY <2>1, <2>2, <2>3 DEF RequisitionIds
<1> QED
  BY <1>2, <1>3 DEF TagNumbers

LEMMA TitleKey ==
  ASSUME NEW t \in Titles, ~CalledLikeATag(t), NEW text \in TitleTexts(t)
  PROVE  /\ \E x \in Seq(Token) : normalise_title(text) = Without(x, MARKS)
         /\ IF MarkerLast(text) THEN In(normalise_title(text), KEYWORDS \cup NUMBERS)
            ELSE normalise_title(text) = Plain(t)
<1> DEFINE g == <<GENDER_MARKER>>
           T == {GENDER_MARKER}
           Told == KEYWORDS \cup NUMBERS
           none == <<>>
<1>1. PICK tag \in Tags : text = Join(t, tag) \/ text = Join(Join(t, g), tag) \/ text = Join(Join(t, tag), g)
  BY DEF TitleTexts, Join
<1>2. /\ t \in Seq(Token) /\ t # <<>> /\ tag \in Seq(Token) /\ ~In(t, T) /\ ~In(tag, T)
      /\ Without(t, T) = t /\ Without(tag, T) = tag
  <2>1. t \in Seq(Token) /\ t # <<>> /\ tag \in Seq(Token) /\ ~In(t, T) /\ ~In(tag, T)
    BY Vocabulary, TitlesAssumption
  <2> QED
    BY <2>1, WithoutNothing
<1>3. g \in Seq(Token) /\ Without(g, T) = none /\ ~In(g, Told) /\ Len(g) = 1 /\ g[1] = GENDER_MARKER
  <2>1. GENDER_MARKER \in Token
    BY Zenon DEF Token
  <2>2. g \in Seq(Token) /\ \A i \in DOMAIN g : g[i] \in T
    BY <2>1
  <2>3. GENDER_MARKER \notin Told
    BY VocabularyAssumption DEF KEYWORDS, GENDER_MARKER
  <2>4. Without(g, T) = none
    BY <2>2, WithoutEverything
  <2> QED
    BY <2>2, <2>3, <2>4 DEF In
<1> DEFINE words == Join(t, tag)
           blank == text[Len(text)] = GENDER_MARKER
<1>4. ~In(t, Told)
  BY DEF CalledLikeATag, In
<1> HIDE DEF g, T, Told, none
<1>5. /\ Join(t, none) = t /\ Join(words, none) = words /\ words \in Seq(Token)
  BY <1>2, JoinFacts DEF none
<1>6. /\ text \in Seq(Token) /\ text # <<>> /\ Without(text, T) = words
      /\ In(text, Told) => In(tag, Told)
      /\ In(tag, Told) => In(text, Told)
  <2>1. Without(words, T) = words /\ (In(words, Told) <=> In(tag, Told))
    BY <1>2, <1>4, WithoutConcat, InJoin
  <2>2. /\ Join(t, g) \in Seq(Token) /\ Without(Join(t, g), T) = t /\ ~In(Join(t, g), Told)
        /\ Len(Join(t, g)) = Len(t) + Len(g)
    <3>1. Join(t, g) \in Seq(Token) /\ Len(Join(t, g)) = Len(t) + Len(g)
      BY <1>2, <1>3, JoinFacts
    <3>2. Without(Join(t, g), T) = Join(t, none)
      BY <1>2, <1>3, WithoutConcat
    <3>3. ~In(Join(t, g), Told)
      BY <1>2, <1>3, <1>4, InJoin
    <3> QED
      BY <1>5, <3>1, <3>2, <3>3
  <2>3. Len(t) \in Nat \ {0} /\ Len(tag) \in Nat /\ Len(g) = 1
    BY <1>2, <1>3
  <2>4. CASE text = Join(t, tag)
    <3>1. Len(text) = Len(t) + Len(tag)
      BY <1>2, <2>4, JoinFacts
    <3> HIDE DEF words
    <3> QED
      BY <1>5, <2>1, <2>3, <2>4, <3>1 DEF words
  <2>5. CASE text = Join(Join(t, g), tag)
    <3>1. text \in Seq(Token) /\ Len(text) = Len(t) + Len(g) + Len(tag)
      <4>1. text \in Seq(Token) /\ Len(text) = Len(Join(t, g)) + Len(tag)
        BY <1>2, <2>2, <2>5, JoinFacts
      <4> QED
        BY <2>2, <4>1
    <3>2. Without(text, T) = words
      BY <1>2, <2>2, <2>5, WithoutConcat
    <3>3. In(text, Told) <=> In(tag, Told)
      BY <1>2, <2>2, <2>5, InJoin
    <3>4. text # <<>>
      BY <2>3, <3>1
    <3> QED
      BY <3>1, <3>2, <3>3, <3>4
  <2>6. CASE text = Join(Join(t, tag), g)
    <3> HIDE DEF words
    <3>0. text = Join(words, g)
      BY <2>6 DEF words
    <3>1. text \in Seq(Token) /\ Len(text) = Len(words) + Len(g) /\ Len(words) \in Nat
      <4>1. text \in Seq(Token) /\ Len(text) = Len(words) + Len(g)
        BY <1>3, <1>5, <3>0, JoinFacts
      <4>2. Len(words) \in Nat
        BY <1>5
      <4> QED
        BY <4>1, <4>2
    <3>2. Without(text, T) = words
      BY <1>3, <1>5, <2>1, <3>0, WithoutConcat
    <3>3. In(text, Told) <=> In(tag, Told)
      BY <1>3, <1>5, <2>1, <3>0, InJoin
    <3>4. text # <<>>
      BY <2>3, <3>1
    <3> QED
      BY <3>1, <3>2, <3>3, <3>4
  <2> QED
    BY <1>1, <2>4, <2>5, <2>6
<1>7. WithoutMarkers(text) = [words |-> words, blank |-> blank]
  BY <1>6 DEF WithoutMarkers, T
<1>8. MarkerLast(text) <=> blank /\ In(tag, Told)
  BY <1>6 DEF MarkerLast, Told
<1>9. CASE ~blank
  <2>1. WithoutTags([words |-> words, blank |-> FALSE]).words = t
    BY TagGoes DEF Join
  <2>2. blank = FALSE
    BY <1>9
  <2> HIDE DEF blank, words
  <2>3. WithoutTags(WithoutMarkers(text)).words = t
    BY <1>7, <2>1, <2>2
  <2> QED
    BY <1>2, <1>8, <1>9, <2>3 DEF normalise_title, Plain
<1>10. CASE blank
  <2>0. blank = TRUE
    BY <1>10
  <2> HIDE DEF blank, words
  <2>1. WithoutMarkers(text) = [words |-> words, blank |-> TRUE]
    BY <1>7, <2>0
  <2>2. WithoutTags(WithoutMarkers(text)).words = words
    BY <2>1 DEF WithoutTags, WithoutReqId, WithoutNumber
  <2>3. normalise_title(text) = Without(words, MARKS)
    BY <2>2 DEF normalise_title
  <2>4. CASE In(tag, Told)
    <3>1. PICK i \in DOMAIN words : words[i] \in Told
      <4>1. In(words, Told)
        BY <1>2, <2>4, InJoin DEF words
      <4> QED
        BY <4>1 DEF In
    <3>2. words[i] \notin MARKS
      BY <3>1, VocabularyAssumption DEF Told
    <3>3. \E k \in DOMAIN Without(words, MARKS) : Without(words, MARKS)[k] = words[i]
      BY <1>5, <3>2, WithoutFacts
    <3>4. In(normalise_title(text), Told)
      BY <2>3, <3>1, <3>3 DEF In
    <3> QED
      BY <1>5, <1>8, <1>10, <2>3, <2>4, <3>4 DEF Told
  <2>5. CASE ~In(tag, Told)
    <3>1. tag = <<>>
      BY <2>5, TagShows DEF Told
    <3>2. words = t
      BY <1>5, <3>1 DEF words, none
    <3> QED
      BY <1>5, <1>8, <2>3, <2>5, <3>2 DEF Plain
  <2> QED
    BY <2>4, <2>5
<1> QED
  BY <1>9, <1>10

LEMMA BareTitleKey ==
  ASSUME NEW t \in Titles, ~CalledLikeATag(t)
  PROVE  normalise_title(t) = Plain(t)
<1>1. t \in Seq(Token) /\ t # <<>> /\ ~In(t, {GENDER_MARKER}) /\ t \in Seq(Token)
  BY Vocabulary, TitlesAssumption
<1>2. t[Len(t)] # GENDER_MARKER
  BY <1>1 DEF In
<1>3. Without(t, {GENDER_MARKER}) = t
  BY <1>1, WithoutNothing
<1>4. WithoutMarkers(t) = [words |-> t, blank |-> FALSE]
  BY <1>1, <1>2, <1>3 DEF WithoutMarkers
<1>5. WithoutTags([words |-> t, blank |-> FALSE]).words = t
  <2>1. ~In(t, KEYWORDS) /\ ~In(t, NUMBERS) /\ LastOf(t) # "job" /\ t \o <<>> = t
    BY <1>1 DEF CalledLikeATag, In, LastOf
  <2>2. "id" \notin MARKS /\ <<>> \in RequisitionIds("id") /\ <<>> \in TagNumbers
    BY VocabularyAssumption DEF KEYWORDS, RequisitionIds, TagNumbers
  <2>3. WithoutReqId([words |-> t, blank |-> FALSE]) = [words |-> t, blank |-> FALSE]
    BY <1>1, <2>1, <2>2, ReqIdGoes
  <2>4. WithoutNumber([words |-> t, blank |-> FALSE]).words = t
    BY <1>1, <2>1, <2>2, NumberGoes
  <2> QED
    BY <2>3, <2>4 DEF WithoutTags
<1> QED
  BY <1>4, <1>5 DEF normalise_title, Plain

-------------------------------------------------------------------------------
\* country.py and fingerprint.py

LEMMA SomeIsLast ==
  ASSUME NEW S, NEW segments \in Seq(S), NEW i \in DOMAIN segments, Known(segments[i])
  PROVE  LastKnown(segments) # {}
<1> DEFINE I == {k \in DOMAIN segments : Known(segments[k])}
           N == Cardinality(I)
<1>1. DOMAIN segments = 1..Len(segments) /\ Len(segments) \in Nat
  OBVIOUS
<1>2. I \in SUBSET DOMAIN segments /\ i \in I /\ \A k \in I : k \in Int
  BY <1>1
<1>3. IsFiniteSet(I)
  <2>1. IsFiniteSet(DOMAIN segments)
    BY <1>1, Intervals
  <2> HIDE DEF I
  <2> QED
    BY <1>2, <2>1, FS_Subset
<1>4. \A k \in DOMAIN segments : Known(segments[k]) <=> k \in I
  OBVIOUS
<1> HIDE DEF I
<1>5. /\ N \in Nat
      /\ \A k \in I : Rank(k, I) \in 0..(N - 1)
      /\ \A h, k \in I : h < k => Rank(h, I) < Rank(k, I)
      /\ \A n \in 0..(N - 1) : \E k \in I : Rank(k, I) = n
  BY <1>2, <1>3, RankFacts
<1> HIDE DEF N
<1>6. N - 1 \in 0..(N - 1)
  BY <1>2, <1>5
<1>7. PICK m \in I : Rank(m, I) = N - 1
  BY <1>5, <1>6
<1>8. ASSUME NEW k \in I, k > m  PROVE FALSE
  <2>1. Rank(m, I) < Rank(k, I) /\ Rank(k, I) \in 0..(N - 1)
    BY <1>2, <1>5, <1>8
  <2> QED
    BY <1>5, <1>7, <2>1
<1>9. m \in LastKnown(segments)
  BY <1>2, <1>4, <1>8 DEF LastKnown
<1> QED
  BY <1>9

LEMMA CountryCode ==
  ASSUME NEW c, NEW n \in CountryNames(c)
  PROVE  Known(n) /\ CodeOf(n) = c /\ c \notin {NoCountry, REMOTE_TOKEN, UNKNOWN_TOKEN}
BY PlacesAssumption DEF CountryNames, Known, CodeOf

\* A text that names a country, and after it no other, resolves to that country.
LEMMA CountryRead ==
  ASSUME NEW S, NEW segments \in Seq(S), NEW c, In(segments, CountryNames(c)),
         \A i, j \in DOMAIN segments :
           i < j /\ segments[i] \in CountryNames(c) /\ Known(segments[j]) => segments[j] \in CountryNames(c)
  PROVE  parse_country(segments) = c /\ c # NoCountry
<1>1. PICK i \in DOMAIN segments : segments[i] \in CountryNames(c)
  BY DEF In
<1>2. Known(segments[i]) /\ c # NoCountry
  BY <1>1, CountryCode
<1>3. LastKnown(segments) # {}
  BY <1>2, SomeIsLast
<1> DEFINE k == CHOOSE j \in LastKnown(segments) : TRUE
<1>4. k \in LastKnown(segments)
  BY <1>3
<1>5. parse_country(segments) = CodeOf(segments[k])
  BY <1>3 DEF parse_country
<1> HIDE DEF k
<1>6. k \in DOMAIN segments /\ Known(segments[k]) /\ (i > k => ~Known(segments[i]))
  BY <1>4 DEF LastKnown
<1>7. i \in Int /\ k \in Int
  BY <1>6
<1>8. i = k \/ i < k
  BY <1>2, <1>6, <1>7
<1>9. segments[k] \in CountryNames(c)
  BY <1>1, <1>6, <1>8
<1> QED
  BY <1>2, <1>5, <1>9, CountryCode

\* In what a board sends, no other follows.
LEMMA NoOtherFollows ==
  ASSUME NEW p \in Places, NEW segments \in LocationTexts(p)
  PROVE  /\ \E S : segments \in Seq(S)
         /\ \A i, j \in DOMAIN segments :
              i < j /\ segments[i] \in CountryNames(p.country) /\ Known(segments[j])
                => segments[j] \in CountryNames(p.country)
<1> DEFINE c == p.country
           u == p.cities
<1>1. /\ u \in Seq(STRING)
      /\ \A i, j \in DOMAIN u : i < j /\ u[i] \in CountryNames(c) /\ Known(u[j]) => u[j] \in CountryNames(c)
  BY PlacesAssumption
<1>2. PICK z \in Noise : segments = Join(u, z) \/ \E n \in CountryNames(c) : segments = Join(Join(u, <<n>>), z)
  BY DEF LocationTexts, Join
<1>3. z \in Seq(STRING) /\ \A i \in DOMAIN z : ~Known(z[i])
  BY PlacesAssumption
<1> HIDE DEF c, u
\* One text, with or without the country in the middle.
<1>4. PICK S, m : /\ u \in Seq(S) /\ m \in Seq(S) /\ z \in Seq(S) /\ segments = Join(Join(u, m), z)
                  /\ \A i \in DOMAIN m : m[i] \in CountryNames(c)
  <2>1. CASE segments = Join(u, z)
    <3>1. <<>> \in Seq(STRING) /\ Join(u, <<>>) = u /\ \A i \in DOMAIN <<>> : <<>>[i] \in CountryNames(c)
      BY <1>1 DEF Join
    <3> QED
      BY <1>1, <1>3, <2>1, <3>1
  <2>2. CASE \E n \in CountryNames(c) : segments = Join(Join(u, <<n>>), z)
    <3>1. PICK n \in CountryNames(c) : segments = Join(Join(u, <<n>>), z)
      BY <2>2
    <3> DEFINE S == STRING \cup {n}
               m == <<n>>
    <3>2. Seq(STRING) \subseteq Seq(S)
      <4>1. STRING \subseteq S
        BY Zenon
      <4> QED
        BY <4>1, SeqOfMore, Zenon
    <3>3. n \in S
      BY Zenon
    <3> HIDE DEF S
    <3>4. m \in Seq(S) /\ \A i \in DOMAIN m : m[i] \in CountryNames(c)
      BY <3>3
    <3>5. u \in Seq(S) /\ z \in Seq(S)
      BY <1>1, <1>3, <3>2, Zenon
    <3> QED
      BY <3>1, <3>4, <3>5
  <2> QED
    BY <1>2, <2>1, <2>2
<1>5. /\ Len(u) \in Nat /\ Len(m) \in Nat /\ Len(z) \in Nat
      /\ DOMAIN u = 1..Len(u) /\ DOMAIN m = 1..Len(m) /\ DOMAIN z = 1..Len(z)
      /\ segments \in Seq(S) /\ DOMAIN segments = 1..(Len(u) + Len(m) + Len(z))
      /\ \A i \in 1..Len(u) : segments[i] = u[i]
      /\ \A i \in 1..Len(m) : segments[Len(u) + i] = m[i]
      /\ \A i \in 1..Len(z) : segments[Len(u) + Len(m) + i] = z[i]
  BY <1>4 DEF Join
<1>6. ASSUME NEW i \in DOMAIN segments, NEW j \in DOMAIN segments,
             i < j, segments[i] \in CountryNames(c), Known(segments[j])
      PROVE  segments[j] \in CountryNames(c)
  <2>1. i \in Int /\ j \in Int
    BY <1>5
  <2>2. CASE j <= Len(u)
    <3>1. i \in 1..Len(u) /\ j \in 1..Len(u)
      BY <1>5, <1>6, <2>1, <2>2
    <3> QED
      BY <1>1, <1>5, <1>6, <3>1
  <2>3. CASE j > Len(u) /\ j <= Len(u) + Len(m)
    <3>1. j - Len(u) \in 1..Len(m) /\ j = Len(u) + (j - Len(u))
      BY <1>5, <2>1, <2>3
    <3>2. segments[j] = m[j - Len(u)]
      BY <1>5, <3>1
    <3> QED
      BY <1>4, <1>5, <3>1, <3>2
  <2>4. CASE j > Len(u) + Len(m)
    <3>1. j - (Len(u) + Len(m)) \in 1..Len(z) /\ j = Len(u) + Len(m) + (j - (Len(u) + Len(m)))
      BY <1>5, <2>1, <2>4
    <3>2. segments[j] = z[j - (Len(u) + Len(m))]
      BY <1>5, <3>1
    <3> QED
      BY <1>3, <1>5, <1>6, <3>1, <3>2
  <2> QED
    BY <1>5, <2>1, <2>2, <2>3, <2>4
<1> QED
  BY <1>5, <1>6 DEF c

\* Two keys and a separator that is in neither.
LEMMA PayloadTells ==
  ASSUME NEW a \in Seq(Token), NEW b \in Seq(Token), NEW c \in Seq(Token), NEW d \in Seq(Token), NEW l,
         ~In(a, MARKS), ~In(b, MARKS), ~In(c, MARKS), ~In(d, MARKS), Payload(a, b, l) = Payload(c, d, l)
  PROVE  a = c /\ b = d
<1>1. "|" \in MARKS
  BY VocabularyAssumption
<1> DEFINE P == Payload(a, b, l)
           Q == Payload(c, d, l)
<1>2. /\ Len(a) \in Nat /\ Len(b) \in Nat /\ Len(c) \in Nat /\ Len(d) \in Nat
      /\ \A i \in 1..Len(a) : a[i] # "|"
      /\ \A i \in 1..Len(c) : c[i] # "|"
  BY <1>1 DEF In
<1>3. /\ Len(P) = Len(a) + Len(b) + 3
      /\ \A i \in 1..Len(a) : P[i] = a[i]
      /\ P[Len(a) + 1] = "|"
      /\ \A i \in 1..Len(b) : P[Len(a) + 1 + i] = b[i]
  BY DEF Payload
<1>4. /\ Len(Q) = Len(c) + Len(d) + 3
      /\ \A i \in 1..Len(c) : Q[i] = c[i]
      /\ Q[Len(c) + 1] = "|"
      /\ \A i \in 1..Len(d) : Q[Len(c) + 1 + i] = d[i]
  BY DEF Payload
<1> HIDE DEF P, Q
<1>5. P = Q
  BY DEF P, Q
<1>6. Len(a) = Len(c)
  <2>1. ~(Len(a) < Len(c))
    <3>1. Len(a) < Len(c) => Len(a) + 1 \in 1..Len(c)
      BY <1>2
    <3> QED
      BY <1>2, <1>3, <1>4, <1>5, <3>1
  <2>2. ~(Len(c) < Len(a))
    <3>1. Len(c) < Len(a) => Len(c) + 1 \in 1..Len(a)
      BY <1>2
    <3> QED
      BY <1>2, <1>3, <1>4, <1>5, <3>1
  <2> QED
    BY <1>2, <2>1, <2>2
<1>7. Len(b) = Len(d)
  BY <1>2, <1>3, <1>4, <1>5, <1>6
<1>8. \A i \in 1..Len(a) : a[i] = c[i]
  BY <1>3, <1>4, <1>5, <1>6
<1>9. \A i \in 1..Len(b) : b[i] = d[i]
  BY <1>3, <1>4, <1>5, <1>6, <1>7
<1> QED
  BY <1>6, <1>7, <1>8, <1>9

-------------------------------------------------------------------------------
\* The properties.

\* A fingerprint is that of the listing; nothing else is needed of the state.
IInv == listing \in Listings /\ (parts = Unbuilt \/ parts = build_fingerprint(listing))

LEMMA Inductive == Spec => []IInv
<1>1. Init => IInv
  BY DEF Init, IInv
<1>2. IInv /\ [Build]_<<listing, parts>> => IInv'
  BY DEF IInv, Build
<1> QED
  BY <1>1, <1>2, PTL DEF Spec

\* The listing behind a fingerprint, and what of it is in the key.
LEMMA BuiltFacts ==
  ASSUME IInv, Built
  PROVE  /\ listing.name \in Names /\ listing.title \in Titles /\ listing.place \in Places
         /\ listing.company \in EmployerTexts(listing.name)
         /\ listing.heading \in TitleTexts(listing.title)
         /\ listing.location \in LocationTexts(listing.place)
         /\ listing.is_remote \in BOOLEAN
         /\ parts.employer = normalise_employer(listing.company)
         /\ parts.title = normalise_title(listing.heading)
         /\ parts.location = Location(listing.location, listing.is_remote)
         /\ parts.digest = Payload(parts.employer, parts.title, parts.location)
<1>1. PICK n \in Names, t \in Titles, p \in Places : listing \in ListingsOf(n, t, p)
  BY DEF IInv, Listings
<1>2. listing.name = n /\ listing.title = t /\ listing.place = p
  BY <1>1 DEF ListingsOf
<1>3. /\ listing.company \in EmployerTexts(n) /\ listing.heading \in TitleTexts(t)
      /\ listing.location \in LocationTexts(p) /\ listing.is_remote \in BOOLEAN
  BY <1>1 DEF ListingsOf
<1>4. parts = build_fingerprint(listing)
  BY DEF IInv, Built
<1> QED
  BY <1>2, <1>3, <1>4 DEF build_fingerprint, FingerprintParts

\* For every vocabulary: however a board writes the employer, the key is the name,
\* whole (normalise_employer), unless the name is one the rules cannot tell.
THEOREM EmployerKeysAreNames == Spec => []EmployerKeyIsName
<1>1. IInv => EmployerKeyIsName
  BY BuiltFacts, EmployerKey DEF EmployerKeyIsName
<1> QED
  BY <1>1, Inductive, PTL

\* For every vocabulary: the title key is the title, whole, without the tag and
\* the marker a board put behind it (normalise_title).
THEOREM TitleKeysAreTitles == Spec => []TitleKeyIsTitle
<1>1. IInv => TitleKeyIsTitle
  BY BuiltFacts, TitleKey DEF TitleKeyIsTitle
<1> QED
  BY <1>1, Inductive, PTL

\* For every table of countries: a location resolves to the country it names, to
\* none if no segment of it reads as a country, and a remote role has none
\* (parse_country).  A segment that reads as one although the location names no
\* country (a state's code, CA) is left out: it is resolved, and wrongly.
THEOREM CountriesAreNotGuessed == Spec => []CountryNeverGuessed
<1> DEFINE c == listing.place.country
           segments == listing.location
<1>1. ASSUME IInv, Built, ~listing.is_remote, In(segments, CountryNames(c))
      PROVE  parts.location = c
  <2>1. parse_country(segments) = c /\ c # NoCountry
    BY <1>1, BuiltFacts, NoOtherFollows, CountryRead
  <2> QED
    BY <1>1, <2>1, BuiltFacts DEF Location
<1>2. ASSUME IInv, Built, ~listing.is_remote, \A i \in DOMAIN segments : ~Known(segments[i])
      PROVE  parts.location = UNKNOWN_TOKEN
  <2>1. LastKnown(segments) = {}
    BY <1>2 DEF LastKnown
  <2> QED
    BY <1>2, <2>1, BuiltFacts DEF Location, parse_country
<1>3. ASSUME IInv, Built, listing.is_remote  PROVE parts.location = REMOTE_TOKEN
  BY <1>3, BuiltFacts DEF Location
<1>4. IInv => CountryNeverGuessed
  BY <1>1, <1>2, <1>3 DEF CountryNeverGuessed
<1> QED
  BY <1>4, Inductive, PTL

\* For every vocabulary: a digest is of one role only.  A key holds no separator,
\* so the digest tells the keys; the keys are the name and the title, or hold what
\* no title does.
THEOREM RolesAreToldApart == Spec => []RolesStayApart
<1>1. ASSUME IInv, Built, ~Unsure(listing.name, listing.company), ~CalledLikeATag(listing.title),
             NEW n \in Names, NEW t \in Titles, ~Unsure(n, n), ~CalledLikeATag(t),
             Payload(KeyOfName[n], KeyOfTitle[t], parts.location) = parts.digest
      PROVE  Words(n) = Words(listing.name) /\ Plain(t) = Plain(listing.title)
  <2>1. KeyOfName[n] = Words(n) /\ KeyOfTitle[t] = Plain(t)
    BY <1>1, BareEmployerKey, BareTitleKey DEF KeyOfName, KeyOfTitle
  <2>2. parts.employer = Words(listing.name)
    BY <1>1, BuiltFacts, EmployerKey
  <2>3. Payload(Words(n), Plain(t), parts.location) = Payload(Words(listing.name), parts.title, parts.location)
    BY <1>1, <2>1, <2>2, BuiltFacts
  <2>4. /\ Words(n) \in Seq(Token) /\ ~In(Words(n), MARKS)
        /\ Words(listing.name) \in Seq(Token) /\ ~In(Words(listing.name), MARKS)
    BY <1>1, BuiltFacts, NameFacts, WordsFacts
  <2>5. /\ Plain(t) \in Seq(Token) /\ ~In(Plain(t), MARKS) /\ ~In(Plain(t), KEYWORDS \cup NUMBERS)
    <3>1. t \in Seq(Token)
      BY Vocabulary
    <3>2. /\ Plain(t) \in Seq(Token)
          /\ \A k \in DOMAIN Plain(t) : \E i \in DOMAIN t : Plain(t)[k] = t[i] /\ t[i] \notin MARKS
      BY <3>1, WithoutFacts DEF Plain
    <3>3. \A i \in DOMAIN t : t[i] \notin KEYWORDS \cup NUMBERS
      BY <1>1 DEF CalledLikeATag, In
    <3> QED
      BY <3>2, <3>3 DEF In
  <2>6. parts.title \in Seq(Token) /\ ~In(parts.title, MARKS)
    <3>1. PICK x \in Seq(Token) : parts.title = Without(x, MARKS)
      BY <1>1, BuiltFacts, TitleKey
    <3> QED
      BY <3>1, WithoutFacts DEF In
  <2>7. Words(n) = Words(listing.name) /\ Plain(t) = parts.title
    BY <2>3, <2>4, <2>5, <2>6, PayloadTells
  <2>8. ~MarkerLast(listing.heading)
    BY <1>1, <2>5, <2>7, BuiltFacts, TitleKey
  <2> QED
    BY <1>1, <2>7, <2>8, BuiltFacts, TitleKey
<1>2. IInv => RolesStayApart
  BY <1>1 DEF RolesStayApart
<1> QED
  BY <1>2, Inductive, PTL
===============================================================================
