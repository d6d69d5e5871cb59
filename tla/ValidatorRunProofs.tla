-------------------------- MODULE ValidatorRunProofs --------------------------
(* That a subprocess job asks the personas its filter means, balanced over *)
(* the age buckets, loses none of them on the way to its report, announces *)
(* a winner and quotes reasons that its rows support, and that its summary *)
(* is read from a report of its own run: for every index, payload, answer, *)
(* time limit and death of the child.                                      *)
EXTENDS ValidatorRun, FiniteSetTheorems, TLAPS

(* Sets of numbers in order.                                                *)

LEMMA RankGrows ==
  ASSUME NEW S \in SUBSET Nat, IsFiniteSet(S)
  PROVE  /\ Cardinality(S) \in Nat
         /\ \A k \in S : Rank(k, S) \in 1..Cardinality(S)
         /\ \A j, k \in S : j < k => Rank(j, S) < Rank(k, S)
  <1> DEFINE Below(k) == {m \in S : m <= k}
  <1>1. Cardinality(S) \in Nat
    BY FS_CardinalityType
  <1>2. \A k \in S : IsFiniteSet(Below(k)) /\ Cardinality(Below(k)) \in Nat /\ Cardinality(Below(k)) <= Cardinality(S)
    <2> TAKE k \in S
    <2>1. Below(k) \in SUBSET S
      OBVIOUS
    <2>2. IsFiniteSet(Below(k)) /\ Cardinality(Below(k)) <= Cardinality(S)
      BY <2>1, FS_Subset
    <2> QED BY <2>2, FS_CardinalityType
  <1>3. ASSUME NEW k \in S PROVE Cardinality(Below(k)) \in 1..Cardinality(S)
    <2>1. Below(k) # {}
      OBVIOUS
    <2>2. Cardinality(Below(k)) # 0
      BY <1>2, <2>1, FS_EmptySet
    <2> QED BY <1>1, <1>2, <2>2
  <1>4. ASSUME NEW j \in S, NEW k \in S, j < k PROVE Cardinality(Below(j)) < Cardinality(Below(k))
    <2>0. j \in Nat /\ k \in Nat /\ \A m \in S : m \in Nat
      OBVIOUS
    <2>1. \A m \in S : m <= j => m <= k
      BY <1>4, <2>0
    <2>2. k <= k /\ ~(k <= j)
      BY <1>4, <2>0
    <2>3. Below(j) \in SUBSET Below(k)
      BY <2>1
    <2>4. k \in Below(k) /\ k \notin Below(j)
      BY <2>2
    <2>5. Cardinality(Below(j)) <= Cardinality(Below(k)) /\ Cardinality(Below(j)) # Cardinality(Below(k))
      BY <1>2, <2>3, <2>4, FS_Subset
    <2> QED BY <1>2, <2>5
  <1> QED BY <1>1, <1>3, <1>4 DEF Rank

\* Ascending(S) enumerates S, each element once and in order.
LEMMA AscendingEnumerates ==
  ASSUME NEW S \in SUBSET Nat, IsFiniteSet(S)
  PROVE  /\ Cardinality(S) \in Nat
         /\ Ascending(S) \in [1..Cardinality(S) -> S]
         /\ \A n \in 1..Cardinality(S) : Rank(Ascending(S)[n], S) = n
         /\ \A m, n \in 1..Cardinality(S) : m < n => Ascending(S)[m] < Ascending(S)[n]
         /\ \A k \in S : Rank(k, S) \in 1..Cardinality(S) /\ Ascending(S)[Rank(k, S)] = k
  <1> DEFINE N == Cardinality(S)
             rank == [k \in S |-> Rank(k, S)]
  <1>1. /\ N \in Nat
        /\ \A k \in S : Rank(k, S) \in 1..N
        /\ \A j, k \in S : j < k => Rank(j, S) < Rank(k, S)
    BY RankGrows
  <1>2. \A j, k \in S : Rank(j, S) = Rank(k, S) => j = k
    <2> TAKE j, k \in S
    <2>1. j < k \/ j = k \/ k < j
      OBVIOUS
    <2> QED BY <1>1, <2>1
  <1> HIDE DEF N
  <1>3. rank \in Injection(S, 1..N)
    BY <1>1, <1>2 DEF Injection, IsInjective
  <1>4. IsFiniteSet(1..N) /\ Cardinality(1..N) = N
    BY <1>1, FS_Interval
  <1>5. rank \in Surjection(S, 1..N)
    BY <1>3, <1>4, FS_Injection DEF N
  <1>6. \A n \in 1..N : \E k \in S : Rank(k, S) = n
    BY <1>5 DEF Surjection
  <1>7. \A n \in 1..N : Ascending(S)[n] \in S /\ Rank(Ascending(S)[n], S) = n
    BY <1>6 DEF Ascending, N
  <1>8. Ascending(S) \in [1..N -> S]
    BY <1>7 DEF Ascending, N
  <1>9. \A m, n \in 1..N : m < n => Ascending(S)[m] < Ascending(S)[n]
    <2> SUFFICES ASSUME NEW m \in 1..N, NEW n \in 1..N, m < n, ~(Ascending(S)[m] < Ascending(S)[n]) PROVE FALSE
      OBVIOUS
    <2>1. PICK x \in S, y \in S : /\ x = Ascending(S)[m] /\ y = Ascending(S)[n]
                                  /\ Rank(x, S) = m /\ Rank(y, S) = n
      BY <1>7
    <2>2. x \in Nat /\ y \in Nat
      OBVIOUS
    <2>3. y = x \/ y < x
      BY <2>1, <2>2
    <2>4. n <= m
      BY <1>1, <2>1, <2>3
    <2> QED BY <1>1, <2>4
  <1> QED BY <1>1, <1>2, <1>7, <1>8, <1>9 DEF N

-----------------------------------------------------------------------------
(* What the retrieval does with sequences of rows.                          *)

LEMMA OneTo == \A n \in Nat : IsFiniteSet(1..n) /\ Cardinality(1..n) = n
  <1> TAKE n \in Nat
  <1> QED BY FS_Interval

Distinct(s) == \A m, n \in 1..Len(s) : s[m] = s[n] => m = n

\* A sequence without repetition is as long as the set of what is in it.
LEMMA DistinctCounts ==
  ASSUME NEW S, NEW s \in Seq(S), Distinct(s)
  PROVE  /\ Len(s) \in Nat /\ IsFiniteSet(Range(s)) /\ Cardinality(Range(s)) = Len(s)
         /\ (\A x \in S : \E k \in 1..Len(s) : s[k] = x) => Range(s) = S
  <1>1. Len(s) \in Nat /\ DOMAIN s = 1..Len(s)
    OBVIOUS
  <1>2. s \in Bijection(1..Len(s), Range(s))
    BY DEF Range, Distinct, Bijection, Injection, Surjection, IsInjective
  <1>3. IsFiniteSet(1..Len(s)) /\ Cardinality(1..Len(s)) = Len(s)
    BY <1>1, OneTo
  <1>4. IsFiniteSet(Range(s)) /\ Cardinality(Range(s)) = Len(s)
    BY <1>2, <1>3, FS_Bijection DEF ExistsBijection
  <1>5. ASSUME \A x \in S : \E k \in 1..Len(s) : s[k] = x PROVE Range(s) = S
    <2>1. \A k \in 1..Len(s) : s[k] \in S
      OBVIOUS
    <2> QED BY <1>1, <1>5, <2>1 DEF Range
  <1> QED BY <1>1, <1>4, <1>5

\* Every order of a set, each element once.
LEMMA SetToSeqsIs ==
  ASSUME NEW S, IsFiniteSet(S), NEW s \in SetToSeqs(S)
  PROVE  /\ s \in Seq(S) /\ Distinct(s)
         /\ \A x \in S : \E k \in 1..Len(s) : s[k] = x
  <1> DEFINE N == Cardinality(S)
  <1>1. N \in Nat
    BY FS_CardinalityType
  <1>2. s \in [1..N -> S] /\ \A i, j \in 1..N : i # j => s[i] # s[j]
    BY DEF SetToSeqs
  <1>3. IsFiniteSet(1..N) /\ Cardinality(1..N) = N
    BY <1>1, OneTo
  <1>4. s \in Injection(1..N, S)
    BY <1>2 DEF Injection, IsInjective
  <1>5. s \in Surjection(1..N, S)
    BY <1>3, <1>4, FS_Injection
  <1>6. \A x \in S : \E k \in 1..N : s[k] = x
    BY <1>5 DEF Surjection
  <1> HIDE DEF N
  <1>7. s \in Seq(S) /\ Len(s) = N
    BY <1>1, <1>2
  <1> QED BY <1>2, <1>6, <1>7 DEF Distinct

\* One after the other of two sequences without a common element.
LEMMA ConcatIs ==
  ASSUME NEW D, NEW s \in Seq(D), NEW t \in Seq(D), Distinct(s), Distinct(t),
         \A m \in 1..Len(s), n \in 1..Len(t) : s[m] # t[n]
  PROVE  /\ s \o t \in Seq(D) /\ Distinct(s \o t)
         /\ \A k \in 1..Len(s \o t) : (\E m \in 1..Len(s) : (s \o t)[k] = s[m]) \/ (\E n \in 1..Len(t) : (s \o t)[k] = t[n])
         /\ \A m \in 1..Len(s) : \E k \in 1..Len(s \o t) : (s \o t)[k] = s[m]
         /\ \A n \in 1..Len(t) : \E k \in 1..Len(s \o t) : (s \o t)[k] = t[n]
  <1>1. PICK C : C = s \o t
    OBVIOUS
  <1>2. /\ C \in Seq(D) /\ Len(C) = Len(s) + Len(t) /\ Len(s) \in Nat /\ Len(t) \in Nat
        /\ \A k \in 1..Len(C) : C[k] = IF k <= Len(s) THEN s[k] ELSE t[k - Len(s)]
    BY <1>1
  <1>3. \A k \in 1..Len(C) : /\ k <= Len(s) => k \in 1..Len(s) /\ C[k] = s[k]
                             /\ ~(k <= Len(s)) => k - Len(s) \in 1..Len(t) /\ C[k] = t[k - Len(s)]
    BY <1>2
  <1>4. Distinct(C)
    <2> SUFFICES ASSUME NEW m \in 1..Len(C), NEW n \in 1..Len(C), C[m] = C[n] PROVE m = n
      BY DEF Distinct
    <2>1. CASE m <= Len(s) /\ n <= Len(s)
      BY <1>3, <2>1 DEF Distinct
    <2>2. CASE ~(m <= Len(s)) /\ ~(n <= Len(s))
      <3>1. m - Len(s) = n - Len(s)
        BY <1>3, <2>2 DEF Distinct
      <3> QED BY <1>2, <3>1
    <2>3. CASE m <= Len(s) /\ ~(n <= Len(s))
      BY <1>3, <2>3
    <2>4. CASE ~(m <= Len(s)) /\ n <= Len(s)
      BY <1>3, <2>4
    <2> QED BY <2>1, <2>2, <2>3, <2>4
  <1>5. \A m \in 1..Len(s) : m \in 1..Len(C) /\ C[m] = s[m]
    BY <1>2
  <1>6. \A n \in 1..Len(t) : Len(s) + n \in 1..Len(C) /\ C[Len(s) + n] = t[n]
    <2> TAKE n \in 1..Len(t)
    <2>1. Len(s) + n \in 1..Len(C) /\ ~(Len(s) + n <= Len(s)) /\ (Len(s) + n) - Len(s) = n
      BY <1>2
    <2> QED BY <1>2, <2>1
  <1> QED BY <1>1, <1>2, <1>3, <1>4, <1>5, <1>6

LEMMA FirstOfIs ==
  ASSUME NEW D, NEW s \in Seq(D)
  PROVE  /\ FirstOf(s) \in Seq(D)
         /\ Len(FirstOf(s)) <= MaxPersonas /\ Len(FirstOf(s)) <= Len(s)
         /\ Len(FirstOf(s)) = Len(s) \/ Len(FirstOf(s)) = MaxPersonas
         /\ \A n \in 1..Len(FirstOf(s)) : FirstOf(s)[n] = s[n]
         /\ FirstOf(s) = <<>> => s = <<>>
         /\ Distinct(s) => Distinct(FirstOf(s))
  <1> DEFINE N == Smaller(Len(s), MaxPersonas)
  <1>1. /\ Len(s) \in Nat /\ MaxPersonas \in Nat \ {0}
        /\ N \in Nat /\ N <= Len(s) /\ N <= MaxPersonas /\ (N = Len(s) \/ N = MaxPersonas)
    BY RetrievalAssumption DEF Smaller
  <1> HIDE DEF N
  <1>2. FirstOf(s) = SubSeq(s, 1, N)
    BY DEF FirstOf, N
  <1>3. /\ FirstOf(s) \in Seq(D) /\ Len(FirstOf(s)) = N
        /\ \A n \in 1..N : FirstOf(s)[n] = s[n]
    BY <1>1, <1>2
  <1>4. FirstOf(s) = <<>> => s = <<>>
    BY <1>1, <1>3
  <1>5. Distinct(s) => Distinct(FirstOf(s))
    BY <1>1, <1>3 DEF Distinct
  <1> QED BY <1>1, <1>3, <1>4, <1>5

\* A set of positions of a sequence, in order, picks the elements there.
LEMMA AtIs ==
  ASSUME NEW D, NEW s \in Seq(D), NEW S \in SUBSET (1..Len(s))
  PROVE  /\ At(s, S) \in Seq(D) /\ Cardinality(S) \in Nat /\ Len(At(s, S)) = Cardinality(S)
         /\ \A n \in 1..Len(At(s, S)) : \E k \in S : At(s, S)[n] = s[k]
         /\ \A k \in S : \E n \in 1..Len(At(s, S)) : At(s, S)[n] = s[k]
         /\ Distinct(s) => Distinct(At(s, S))
  <1> DEFINE N == Cardinality(S)
             A == Ascending(S)
  <1>1. S \in SUBSET Nat /\ Len(s) \in Nat
    OBVIOUS
  <1>2. IsFiniteSet(S)
    <2>1. IsFiniteSet(1..Len(s))
      BY <1>1, OneTo
    <2> QED BY <2>1, FS_Subset
  <1>3. /\ N \in Nat /\ A \in [1..N -> S]
        /\ \A m, n \in 1..N : m < n => A[m] < A[n]
        /\ \A k \in S : Rank(k, S) \in 1..N /\ A[Rank(k, S)] = k
    BY <1>1, <1>2, AscendingEnumerates
  <1>4. At(s, S) = [n \in 1..N |-> s[A[n]]]
    BY <1>3 DEF At
  <1>5. \A k \in S : k \in 1..Len(s) /\ s[k] \in D
    OBVIOUS
  <1>6. ASSUME Distinct(s), NEW m \in 1..N, NEW n \in 1..N, s[A[m]] = s[A[n]] PROVE m = n
    <2>1. A[m] = A[n]
      BY <1>3, <1>5, <1>6 DEF Distinct
    <2>2. A[m] \in Nat
      BY <1>1, <1>3
    <2>3. ~(m < n) /\ ~(n < m)
      BY <1>3, <2>1, <2>2
    <2> QED BY <1>3, <2>3
  <1> HIDE DEF N, A
  <1>7. At(s, S) \in Seq(D) /\ Len(At(s, S)) = N /\ \A n \in 1..N : At(s, S)[n] = s[A[n]]
    <2>1. \A n \in 1..N : s[A[n]] \in D
      BY <1>3, <1>5
    <2> QED BY <1>3, <1>4, <2>1
  <1>8. Distinct(s) => Distinct(At(s, S))
    BY <1>6, <1>7 DEF Distinct
  <1>9. \A n \in 1..N : A[n] \in S
    BY <1>3
  <1>10. \A k \in S : \E n \in 1..N : At(s, S)[n] = s[k]
    BY <1>3, <1>7
  <1> QED BY <1>3, <1>7, <1>8, <1>9, <1>10 DEF N

LEMMA PassingIs ==
  ASSUME NEW D, NEW s \in Seq(D)
  PROVE  /\ Passing(s) \in Seq(D)
         /\ \A n \in 1..Len(Passing(s)) :
              \E k \in 1..Len(s) : Passing(s)[n] = s[k] /\ row_passes_post_filters(index[s[k]], req)
         /\ \A k \in 1..Len(s) : row_passes_post_filters(index[s[k]], req)
              => \E n \in 1..Len(Passing(s)) : Passing(s)[n] = s[k]
         /\ Distinct(s) => Distinct(Passing(s))
  <1> DEFINE S == {k \in DOMAIN s : row_passes_post_filters(index[s[k]], req)}
  <1>1. S \in SUBSET (1..Len(s)) /\ Passing(s) = At(s, S)
    BY DEF Passing
  <1>2. \A k \in S : k \in 1..Len(s) /\ row_passes_post_filters(index[s[k]], req)
    BY <1>1
  <1>3. \A k \in 1..Len(s) : row_passes_post_filters(index[s[k]], req) => k \in S
    OBVIOUS
  <1> HIDE DEF S
  <1>4. /\ At(s, S) \in Seq(D)
        /\ \A n \in 1..Len(At(s, S)) : \E k \in S : At(s, S)[n] = s[k]
        /\ \A k \in S : \E n \in 1..Len(At(s, S)) : At(s, S)[n] = s[k]
        /\ Distinct(s) => Distinct(At(s, S))
    BY <1>1, AtIs
  <1> QED BY <1>1, <1>2, <1>3, <1>4

LEMMA MatchingIs ==
  ASSUME NEW D, index \in Seq(D)
  PROVE  /\ Matching \in Seq(DOMAIN index) /\ Len(Matching) <= Len(index) /\ Distinct(Matching)
         /\ \A n \in 1..Len(Matching) : chroma_where_and(index[Matching[n]], req)
         /\ \A i \in DOMAIN index : chroma_where_and(index[i], req) => \E n \in 1..Len(Matching) : Matching[n] = i
  <1> DEFINE S == {i \in DOMAIN index : chroma_where_and(index[i], req)}
             N == Cardinality(S)
             A == Ascending(S)
  <1>1. S \in SUBSET Nat /\ S \in SUBSET (1..Len(index)) /\ Len(index) \in Nat
    OBVIOUS
  <1>2. IsFiniteSet(S) /\ N <= Len(index)
    <2>1. IsFiniteSet(1..Len(index)) /\ Cardinality(1..Len(index)) = Len(index)
      <3>1. \A l \in Nat : IsFiniteSet(1..l) /\ Cardinality(1..l) = l
        BY FS_Interval
      <3> QED BY <1>1, <3>1
    <2>2. IsFiniteSet(S) /\ Cardinality(S) <= Cardinality(1..Len(index))
      BY <1>1, <2>1, FS_Subset
    <2> QED BY <2>1, <2>2
  <1>3. /\ N \in Nat /\ A \in [1..N -> S]
        /\ \A m, n \in 1..N : m < n => A[m] < A[n]
        /\ \A k \in S : Rank(k, S) \in 1..N /\ A[Rank(k, S)] = k
    BY <1>1, <1>2, AscendingEnumerates
  <1>4. Matching = A
    BY DEF Matching
  <1>5. S \subseteq DOMAIN index /\ \A k \in S : chroma_where_and(index[k], req)
    OBVIOUS
  <1>6. \A i \in DOMAIN index : chroma_where_and(index[i], req) => i \in S
    OBVIOUS
  <1>7. ASSUME NEW m \in 1..N, NEW n \in 1..N, A[m] = A[n] PROVE m = n
    <2>1. A[m] \in Nat
      BY <1>1, <1>3
    <2>2. ~(m < n) /\ ~(n < m)
      BY <1>3, <1>7, <2>1
    <2> QED BY <1>3, <2>2
  <1> HIDE DEF S, N, A
  <1>8. Matching \in Seq(DOMAIN index) /\ Len(Matching) = N
    BY <1>3, <1>4, <1>5
  <1>9. Distinct(Matching)
    BY <1>4, <1>7, <1>8 DEF Distinct
  <1> QED BY <1>2, <1>3, <1>4, <1>5, <1>6, <1>8, <1>9

-----------------------------------------------------------------------------
(* The round robin.                                                         *)

LEMMA FourBuckets == Len(AGE_BUCKETS) = 4 /\ Buckets = {1, 2, 3, 4}
  <1>1. Len(AGE_BUCKETS) = 4
    BY DEF AGE_BUCKETS
  <1> QED BY <1>1 DEF Buckets

\* A turn is a bucket and a round, counted round by round.
LEMMA TurnNumbers ==
  /\ \A p \in Nat : /\ BucketOf(p) \in Buckets /\ RoundOf(p) \in Nat /\ RoundOf(p) > 0
                    /\ p = 4 * (RoundOf(p) - 1) + BucketOf(p) - 1
  /\ \A b \in Buckets, n \in Nat \ {0} :
       /\ 4 * (n - 1) + b - 1 \in Nat
       /\ BucketOf(4 * (n - 1) + b - 1) = b /\ RoundOf(4 * (n - 1) + b - 1) = n
  <1>1. ASSUME NEW p \in Nat
        PROVE  /\ BucketOf(p) \in 1..4 /\ RoundOf(p) \in Nat /\ RoundOf(p) > 0
               /\ p = 4 * (RoundOf(p) - 1) + BucketOf(p) - 1
    BY FourBuckets DEF BucketOf, RoundOf
  <1>2. ASSUME NEW b \in 1..4, NEW n \in Nat \ {0}
        PROVE  /\ 4 * (n - 1) + b - 1 \in Nat
               /\ BucketOf(4 * (n - 1) + b - 1) = b /\ RoundOf(4 * (n - 1) + b - 1) = n
    BY FourBuckets DEF BucketOf, RoundOf
  <1> QED BY <1>1, <1>2, FourBuckets

LEMMA TurnsAre ==
  ASSUME NEW D, NEW pb \in [Buckets -> Seq(D)]
  PROVE  /\ Turns(pb) \in SUBSET Nat /\ IsFiniteSet(Turns(pb))
         /\ \A p \in Turns(pb) : BucketOf(p) \in Buckets /\ RoundOf(p) \in 1..Len(pb[BucketOf(p)])
         /\ \A b \in Buckets : \A n \in 1..Len(pb[b]) :
              \E p \in Turns(pb) : BucketOf(p) = b /\ RoundOf(p) = n
  <1> DEFINE Lengths == {Len(pb[b]) : b \in Buckets}
             L == Max(Lengths)
  <1>1. L \in Nat /\ \A b \in Buckets : Len(pb[b]) \in Nat /\ Len(pb[b]) <= L
    <2>1. \A w, x, y, z \in Nat : \E m \in {w, x, y, z} : m >= w /\ m >= x /\ m >= y /\ m >= z
      OBVIOUS
    <2>2. \A b \in Buckets : Len(pb[b]) \in Nat
      OBVIOUS
    <2>3. Lengths = {Len(pb[1]), Len(pb[2]), Len(pb[3]), Len(pb[4])}
      BY FourBuckets
    <2>4. \E m \in Lengths : \A y \in Lengths : m >= y
      <3> HIDE DEF Lengths
      <3>1. PICK w \in Nat, x \in Nat, y \in Nat, z \in Nat :
              w = Len(pb[1]) /\ x = Len(pb[2]) /\ y = Len(pb[3]) /\ z = Len(pb[4])
        BY <2>2, FourBuckets
      <3>2. Lengths = {w, x, y, z}
        BY <2>3, <3>1
      <3> QED BY <2>1, <3>2
    <2>5. L \in Lengths /\ \A y \in Lengths : L >= y
      BY <2>4 DEF Max
    <2> QED BY <2>2, <2>5
  <1>2. Turns(pb) = {p \in 0..(4 * L) : RoundOf(p) <= Len(pb[BucketOf(p)])}
    BY FourBuckets DEF Turns
  <1> HIDE DEF L
  <1>3. 4 * L \in Nat
    BY <1>1
  <1>4. Turns(pb) \in SUBSET Nat /\ IsFiniteSet(Turns(pb))
    <2>1. Turns(pb) \in SUBSET (0..(4 * L))
      BY <1>2
    <2>2. IsFiniteSet(0..(4 * L))
      BY <1>3, FS_Interval
    <2> QED BY <1>3, <2>1, <2>2, FS_Subset
  <1>5. ASSUME NEW p \in Turns(pb) PROVE BucketOf(p) \in Buckets /\ RoundOf(p) \in 1..Len(pb[BucketOf(p)])
    <2>1. p \in Nat
      BY <1>4
    <2>2. RoundOf(p) <= Len(pb[BucketOf(p)])
      BY <1>2
    <2> QED BY <1>1, <2>1, <2>2, TurnNumbers
  <1>6. ASSUME NEW b \in Buckets, NEW n \in 1..Len(pb[b])
        PROVE  \E p \in Turns(pb) : BucketOf(p) = b /\ RoundOf(p) = n
    <2>1. n \in Nat \ {0} /\ n <= L /\ n <= Len(pb[b])
      BY <1>1
    <2>2. b \in 1..4
      BY FourBuckets
    <2>3. PICK p \in Nat : p = 4 * (n - 1) + b - 1
      BY <2>1, <2>2
    <2>4. BucketOf(p) = b /\ RoundOf(p) = n
      BY <2>1, <2>3, TurnNumbers
    <2>5. p \in 0..(4 * L)
      BY <1>1, <2>1, <2>2, <2>3
    <2> QED BY <1>2, <2>1, <2>4, <2>5
  <1> QED BY <1>4, <1>5, <1>6

\* No row is in two buckets, or twice in one.
Disjoint(pb) ==
  \A b, c \in Buckets : \A m \in 1..Len(pb[b]), n \in 1..Len(pb[c]) : pb[b][m] = pb[c][n] => b = c /\ m = n

\* What is merged are the rows of the first turns.
LEMMA MergeIs ==
  ASSUME NEW D, NEW pb \in [Buckets -> Seq(D)],
         NEW M, M = merge_rows_round_robin(pb), NEW A, A = Ascending(Turns(pb)),
         NEW N, N = Cardinality(Turns(pb))
  PROVE  /\ M \in Seq(D) /\ Len(M) <= MaxPersonas /\ Len(M) <= N /\ N \in Nat
         /\ Len(M) = N \/ Len(M) = MaxPersonas
         /\ A \in [1..N -> Turns(pb)]
         /\ \A k \in 1..Len(M) : M[k] = pb[BucketOf(A[k])][RoundOf(A[k])]
         /\ \A m, n \in 1..N : m < n => A[m] < A[n]
         /\ \A p \in Turns(pb) : \E n \in 1..N : A[n] = p
         /\ M = <<>> => \A b \in Buckets : pb[b] = <<>>
         /\ Disjoint(pb) => Distinct(M)
  <1>1. /\ Turns(pb) \in SUBSET Nat /\ IsFiniteSet(Turns(pb))
        /\ \A p \in Turns(pb) : BucketOf(p) \in Buckets /\ RoundOf(p) \in 1..Len(pb[BucketOf(p)])
    BY TurnsAre
  <1>2. /\ N \in Nat /\ A \in [1..N -> Turns(pb)]
        /\ \A m, n \in 1..N : m < n => A[m] < A[n]
        /\ \A p \in Turns(pb) : Rank(p, Turns(pb)) \in 1..N /\ A[Rank(p, Turns(pb))] = p
    BY <1>1, AscendingEnumerates
  <1> DEFINE F == [k \in 1..N |-> pb[BucketOf(A[k])][RoundOf(A[k])]]
  <1>3. F \in Seq(D) /\ Len(F) = N
    <2>1. \A k \in 1..N : pb[BucketOf(A[k])][RoundOf(A[k])] \in D
      BY <1>1, <1>2
    <2> QED BY <1>2, <2>1
  <1>4. M = FirstOf(F)
    BY <1>2 DEF merge_rows_round_robin
  <1>5. \A k \in 1..N : F[k] = pb[BucketOf(A[k])][RoundOf(A[k])]
    OBVIOUS
  <1>6. Disjoint(pb) => Distinct(F)
    <2> SUFFICES ASSUME Disjoint(pb), NEW m \in 1..N, NEW n \in 1..N, F[m] = F[n] PROVE m = n
      BY <1>3 DEF Distinct
    <2>1. BucketOf(A[m]) = BucketOf(A[n]) /\ RoundOf(A[m]) = RoundOf(A[n])
      <3>1. A[m] \in Turns(pb) /\ A[n] \in Turns(pb)
        BY <1>2
      <3>2. /\ BucketOf(A[m]) \in Buckets /\ RoundOf(A[m]) \in 1..Len(pb[BucketOf(A[m])])
            /\ BucketOf(A[n]) \in Buckets /\ RoundOf(A[n]) \in 1..Len(pb[BucketOf(A[n])])
        BY <1>1, <3>1
      <3>3. pb[BucketOf(A[m])][RoundOf(A[m])] = pb[BucketOf(A[n])][RoundOf(A[n])]
        OBVIOUS
      <3> HIDE DEF F
      <3> QED BY <3>2, <3>3 DEF Disjoint
    <2>2. A[m] \in Nat /\ A[n] \in Nat
      BY <1>1, <1>2
    <2>3. A[m] = A[n]
      <3>1. /\ A[m] = 4 * (RoundOf(A[m]) - 1) + BucketOf(A[m]) - 1
            /\ A[n] = 4 * (RoundOf(A[n]) - 1) + BucketOf(A[n]) - 1
        BY <2>2, TurnNumbers
      <3> QED BY <2>1, <3>1
    <2>4. ~(m < n) /\ ~(n < m)
      BY <1>2, <2>2, <2>3
    <2> QED BY <1>2, <2>4
  <1> HIDE DEF F
  <1>7. /\ M \in Seq(D) /\ Len(M) <= MaxPersonas /\ Len(M) <= N
        /\ Len(M) = N \/ Len(M) = MaxPersonas
        /\ \A k \in 1..Len(M) : M[k] = F[k]
        /\ M = <<>> => F = <<>>
        /\ Disjoint(pb) => Distinct(M)
    BY <1>3, <1>4, <1>6, FirstOfIs
  <1>8. ASSUME M = <<>>, NEW b \in Buckets PROVE pb[b] = <<>>
    <2>1. N = 0
      BY <1>3, <1>7, <1>8
    <2>2. \A n \in 1..Len(pb[b]) : FALSE
      BY <1>2, <2>1, TurnsAre
    <2>3. pb[b] \in Seq(D)
      OBVIOUS
    <2> QED BY <2>2, <2>3
  <1>9. \A k \in 1..Len(M) : k \in 1..N
    BY <1>2, <1>7
  <1> QED BY <1>2, <1>5, <1>7, <1>8, <1>9

Taken(M, pb, b) == {n \in 1..Len(pb[b]) : pb[b][n] \in Range(M)}

LEMMA TakenIsCounted ==
  ASSUME NEW D, NEW pb \in [Buckets -> Seq(D)], Disjoint(pb), NEW M, NEW b \in Buckets
  PROVE  /\ Cardinality(Range(M) \cap Range(pb[b])) = Cardinality(Taken(M, pb, b))
         /\ Cardinality(Taken(M, pb, b)) \in Nat /\ IsFiniteSet(Taken(M, pb, b))
         /\ Cardinality(Taken(M, pb, b)) <= Len(pb[b]) /\ Len(pb[b]) \in Nat
         /\ Cardinality(Taken(M, pb, b)) = Len(pb[b]) <=> Taken(M, pb, b) = 1..Len(pb[b])
  <1> DEFINE T == Taken(M, pb, b)
             R == Range(M) \cap Range(pb[b])
             f == [n \in T |-> pb[b][n]]
  <1>1. pb[b] \in Seq(D) /\ Len(pb[b]) \in Nat /\ DOMAIN pb[b] = 1..Len(pb[b])
    OBVIOUS
  <1>2. T \in SUBSET (1..Len(pb[b]))
    BY DEF Taken
  <1>3. IsFiniteSet(1..Len(pb[b])) /\ Cardinality(1..Len(pb[b])) = Len(pb[b])
    BY <1>1, OneTo
  <1>4. /\ IsFiniteSet(T) /\ Cardinality(T) \in Nat /\ Cardinality(T) <= Len(pb[b])
        /\ Cardinality(T) = Len(pb[b]) <=> T = 1..Len(pb[b])
    <2>1. IsFiniteSet(T) /\ Cardinality(T) <= Len(pb[b]) /\ (Len(pb[b]) = Cardinality(T) => 1..Len(pb[b]) = T)
      BY <1>2, <1>3, FS_Subset
    <2> QED BY <1>3, <2>1, FS_CardinalityType
  <1>5. f \in Bijection(T, R)
    <2>1. \A n \in T : pb[b][n] \in R
      BY <1>1, <1>2 DEF Taken, Range
    <2>2. \A m, n \in T : pb[b][m] = pb[b][n] => m = n
      BY <1>2 DEF Disjoint
    <2>3. \A x \in R : \E n \in T : pb[b][n] = x
      BY <1>1 DEF Taken, Range
    <2> QED BY <2>1, <2>2, <2>3 DEF Bijection, Injection, Surjection, IsInjective
  <1>6. Cardinality(R) = Cardinality(T)
    BY <1>4, <1>5, FS_Bijection DEF ExistsBijection
  <1> QED BY <1>1, <1>4, <1>6

\* Turns are taken in order: nobody is passed over.
LEMMA TurnsInOrder ==
  ASSUME NEW D, NEW pb \in [Buckets -> Seq(D)], Disjoint(pb), NEW M, M = merge_rows_round_robin(pb)
  PROVE  /\ \A b, c \in Buckets : \A n \in 1..Len(pb[b]), m \in Taken(M, pb, c) :
              n < m => n \in Taken(M, pb, b)
         /\ \A b \in Buckets : \A n \in 1..Len(pb[b]), m \in Taken(M, pb, b) : n <= m => n \in Taken(M, pb, b)
         /\ Len(M) < MaxPersonas => \A b \in Buckets : Taken(M, pb, b) = 1..Len(pb[b])
  <1> DEFINE T == Turns(pb)
             RowOf(p) == pb[BucketOf(p)][RoundOf(p)]
  <1>0. PICK A, N : A = Ascending(Turns(pb)) /\ N = Cardinality(Turns(pb))
    OBVIOUS
  <1>1. /\ T \in SUBSET Nat
        /\ \A p \in T : BucketOf(p) \in Buckets /\ RoundOf(p) \in 1..Len(pb[BucketOf(p)])
        /\ \A b \in Buckets : \A n \in 1..Len(pb[b]) : \E p \in T : BucketOf(p) = b /\ RoundOf(p) = n
    BY TurnsAre
  <1>2. /\ M \in Seq(D) /\ Len(M) <= N /\ N \in Nat /\ (Len(M) = N \/ Len(M) = MaxPersonas)
        /\ A \in [1..N -> T]
        /\ \A k \in 1..Len(M) : M[k] = RowOf(A[k])
        /\ \A m, n \in 1..N : m < n => A[m] < A[n]
        /\ \A p \in T : \E n \in 1..N : A[n] = p
    BY <1>0, MergeIs
  <1> HIDE DEF T
  <1>3. Len(M) \in Nat /\ DOMAIN M = 1..Len(M) /\ \A k \in 1..Len(M) : k \in 1..N /\ A[k] \in T
    BY <1>2
  <1>4. ASSUME NEW p \in T PROVE RowOf(p) \in Range(M) <=> \E k \in 1..Len(M) : A[k] = p
    <2>1. ASSUME NEW k \in 1..Len(M), M[k] = RowOf(p) PROVE A[k] = p
      <3>1. A[k] \in T /\ RowOf(A[k]) = RowOf(p)
        BY <1>2, <1>3, <2>1
      <3>2. BucketOf(A[k]) = BucketOf(p) /\ RoundOf(A[k]) = RoundOf(p)
        <4>1. /\ BucketOf(A[k]) \in Buckets /\ RoundOf(A[k]) \in 1..Len(pb[BucketOf(A[k])])
              /\ BucketOf(p) \in Buckets /\ RoundOf(p) \in 1..Len(pb[BucketOf(p)])
          BY <1>1, <3>1
        <4> QED BY <3>1, <4>1 DEF Disjoint
      <3>3. A[k] \in Nat /\ p \in Nat
        BY <1>1, <3>1
      <3> QED BY <3>2, <3>3, TurnNumbers
    <2>2. ASSUME NEW k \in 1..Len(M), A[k] = p PROVE M[k] = RowOf(p)
      BY <1>2, <2>2
    <2> QED BY <1>3, <2>1, <2>2 DEF Range
  <1>5. ASSUME NEW p \in T, NEW q \in T, p <= q, RowOf(q) \in Range(M) PROVE RowOf(p) \in Range(M)
    <2>1. PICK k \in 1..Len(M) : A[k] = q
      BY <1>4, <1>5
    <2>2. PICK m \in 1..N : A[m] = p
      BY <1>2
    <2>3. p \in Nat /\ q \in Nat
      BY <1>1
    <2>4. ~(k < m)
      <3>1. k \in 1..N
        BY <1>3
      <3>2. k < m => q < p
        BY <1>2, <2>1, <2>2, <3>1
      <3> QED BY <1>5, <2>3, <3>2
    <2>5. m \in 1..Len(M)
      <3>1. N \in Nat /\ Len(M) \in Nat
        BY <1>2
      <3>2. m \in Nat /\ 1 <= m
        BY <3>1
      <3>3. k \in Nat /\ k <= Len(M)
        BY <3>1
      <3> QED BY <2>4, <3>1, <3>2, <3>3
    <2> QED BY <1>4, <2>2, <2>5
  <1>6. ASSUME NEW b \in Buckets, NEW c \in Buckets, NEW n \in 1..Len(pb[b]), NEW m \in Taken(M, pb, c),
               n < m \/ (n <= m /\ b = c)
        PROVE  n \in Taken(M, pb, b)
    <2>1. m \in 1..Len(pb[c]) /\ pb[c][m] \in Range(M)
      BY DEF Taken
    <2>2. PICK p \in T : BucketOf(p) = b /\ RoundOf(p) = n
      BY <1>1
    <2>3. PICK q \in T : BucketOf(q) = c /\ RoundOf(q) = m
      BY <1>1, <2>1
    <2>4. /\ p = 4 * (n - 1) + b - 1 /\ q = 4 * (m - 1) + c - 1
          /\ b \in 1..4 /\ c \in 1..4 /\ n \in Nat /\ m \in Nat
      <3>1. p \in Nat /\ q \in Nat
        BY <1>1
      <3>2. /\ p = 4 * (RoundOf(p) - 1) + BucketOf(p) - 1
            /\ q = 4 * (RoundOf(q) - 1) + BucketOf(q) - 1
        BY <3>1, TurnNumbers
      <3>3. b \in 1..4 /\ c \in 1..4
        BY FourBuckets
      <3>4. n \in Nat /\ m \in Nat
        BY <2>1
      <3> QED BY <2>2, <2>3, <3>2, <3>3, <3>4
    <2>5. p <= q
      BY <1>6, <2>4
    <2>6. pb[b][n] \in Range(M)
      BY <1>5, <2>1, <2>2, <2>3, <2>5
    <2> QED BY <2>6 DEF Taken
  <1>7. ASSUME Len(M) < MaxPersonas, NEW b \in Buckets, NEW n \in 1..Len(pb[b]) PROVE n \in Taken(M, pb, b)
    <2>1. PICK p \in T : BucketOf(p) = b /\ RoundOf(p) = n
      BY <1>1
    <2>2. Len(M) = N
      <3>1. Len(M) = N \/ Len(M) = MaxPersonas
        BY <1>2
      <3>2. Len(M) \in Nat /\ MaxPersonas \in Nat
        BY <1>3, RetrievalAssumption
      <3> QED BY <1>7, <3>1, <3>2
    <2>3. RowOf(p) \in Range(M)
      BY <1>2, <1>4, <2>2
    <2> QED BY <2>1, <2>3 DEF Taken
  <1>8. \A b \in Buckets : Taken(M, pb, b) \subseteq 1..Len(pb[b])
    BY DEF Taken
  <1> QED BY <1>6, <1>7, <1>8

\* So no bucket is two behind another one before it is used up.
LEMMA MergeIsBalanced ==
  ASSUME NEW D, NEW pb \in [Buckets -> Seq(D)], Disjoint(pb), NEW M, M = merge_rows_round_robin(pb)
  PROVE  LET taken(b) == Cardinality(Range(M) \cap Range(pb[b]))
         IN  /\ \A b, c \in Buckets : taken(b) + 1 < taken(c) => taken(b) = Len(pb[b])
             /\ Len(M) < MaxPersonas => \A b \in Buckets : taken(b) = Len(pb[b])
  <1> DEFINE t(b) == Cardinality(Taken(M, pb, b))
  <1>0. /\ \A b, c \in Buckets : \A n \in 1..Len(pb[b]), m \in Taken(M, pb, c) :
              n < m => n \in Taken(M, pb, b)
        /\ \A b \in Buckets : \A n \in 1..Len(pb[b]), m \in Taken(M, pb, b) : n <= m => n \in Taken(M, pb, b)
        /\ Len(M) < MaxPersonas => \A b \in Buckets : Taken(M, pb, b) = 1..Len(pb[b])
    BY TurnsInOrder
  <1>1. \A b \in Buckets : /\ Cardinality(Range(M) \cap Range(pb[b])) = t(b)
                           /\ t(b) \in Nat /\ Len(pb[b]) \in Nat /\ t(b) <= Len(pb[b])
                           /\ IsFiniteSet(Taken(M, pb, b))
                           /\ t(b) = Len(pb[b]) <=> Taken(M, pb, b) = 1..Len(pb[b])
    BY TakenIsCounted
  <1>2. ASSUME NEW b \in Buckets, NEW c \in Buckets, t(b) # Len(pb[b]) PROVE t(c) <= t(b) + 1
    <2>0. /\ t(b) \in Nat /\ Len(pb[b]) \in Nat /\ t(b) <= Len(pb[b])
          /\ IsFiniteSet(Taken(M, pb, b)) /\ t(c) \in Nat
      BY <1>1
    <2> HIDE DEF t
    <2>1. PICK n \in 1..Len(pb[b]) : n = t(b) + 1
      BY <1>2, <2>0
    <2>2. n \notin Taken(M, pb, b)
      <3> SUFFICES ASSUME n \in Taken(M, pb, b) PROVE FALSE
        OBVIOUS
      <3>1. \A i \in 1..n : i \in 1..Len(pb[b]) /\ i <= n
        BY <2>0
      <3>2. \A i \in 1..n : i \in Taken(M, pb, b)
        BY <1>0, <3>1
      <3>3. IsFiniteSet(1..n) /\ Cardinality(1..n) = n
        BY OneTo
      <3>4. 1..n \in SUBSET Taken(M, pb, b)
        BY <3>2
      <3>5. n <= t(b)
        BY <2>0, <3>3, <3>4, FS_Subset DEF t
      <3> QED BY <2>0, <2>1, <3>5
    <2>3. \A m \in Taken(M, pb, c) : ~(n < m)
      BY <1>0, <2>2
    <2>4. Taken(M, pb, c) \in SUBSET (1..n)
      BY <1>1, <2>3 DEF Taken
    <2>5. IsFiniteSet(1..n) /\ Cardinality(1..n) = n
      BY OneTo
    <2>6. t(c) <= n
      BY <2>4, <2>5, FS_Subset DEF t
    <2> QED BY <2>1, <2>6
  <1>3. Len(M) < MaxPersonas => \A b \in Buckets : t(b) = Len(pb[b])
    BY <1>0, <1>1
  <1>4. \A b \in Buckets : Cardinality(Range(M) \cap Range(pb[b])) = t(b) /\ t(b) \in Nat
    BY <1>1
  <1> HIDE DEF t
  <1>5. ASSUME NEW b \in Buckets, NEW c \in Buckets, t(b) + 1 < t(c) PROVE t(b) = Len(pb[b])
    <2>1. PICK x \in Nat, y \in Nat : x = t(b) /\ y = t(c)
      BY <1>4
    <2>2. ~(y <= x + 1)
      BY <1>5, <2>1
    <2> QED BY <1>2, <2>1, <2>2
  <1> QED BY <1>3, <1>4, <1>5

-----------------------------------------------------------------------------
(* The inductive invariant of the retrieval.                                *)

\* A row that a bucket's query found and the post filters let through.
Fits(i, b) == chroma_where_for_bucket(index[i], req, b) /\ row_passes_post_filters(index[i], req)

\* A row of the fallback scan or of the single query that was kept.
Kept(i) == chroma_where_and(index[i], req) /\ row_passes_post_filters(index[i], req)

RunData == req \in Requests /\ index \in Seq(Row) /\ offset \in Nat

FoundFits ==
  /\ found \in [Buckets -> Seq(DOMAIN index)]
  /\ \A b \in Buckets : Distinct(found[b]) /\ \A n \in 1..Len(found[b]) : Fits(found[b][n], b)

RowsAreKept ==
  /\ rows \in Seq(DOMAIN index) /\ Len(rows) <= MaxPersonas /\ Distinct(rows)
  /\ \A n \in 1..Len(rows) : Kept(rows[n])

\* The pages read so far: they are the first offset rows that match, and nobody of them
\* was passed over while the result is still empty.
Scanned ==
  /\ pc = "query" => offset = 0
  /\ pc = "page" =>
       /\ offset <= Len(Matching)
       /\ \A n \in 1..Len(rows) : \E k \in 1..offset : rows[n] = Matching[k]
       /\ rows = <<>> => \A k \in 1..offset : ~row_passes_post_filters(index[Matching[k]], req)

\* What the buckets gave is what was merged; the scan runs only when it was nothing.
Merged ==
  ~req.single =>
    /\ pc = "page" => \A b \in Buckets : found[b] = <<>>
    /\ pc = "retrieved" => rows = merge_rows_round_robin(found) \/ \A b \in Buckets : found[b] = <<>>

RetrievalInv == RunData /\ FoundFits /\ RowsAreKept /\ Scanned /\ Merged /\ DistrictIsFound

-----------------------------------------------------------------------------
(* Rows.                                                                    *)

LEMMA BucketBounds ==
  /\ bucket_age_bounds[1].lo = 19 /\ bucket_age_bounds[1].hi = 29
  /\ bucket_age_bounds[2].lo = 30 /\ bucket_age_bounds[2].hi = 39
  /\ bucket_age_bounds[3].lo = 40 /\ bucket_age_bounds[3].hi = 49
  /\ bucket_age_bounds[4].lo = 50 /\ bucket_age_bounds[4].hi = 59
  BY DEF bucket_age_bounds

LEMMA RequestData ==
  ASSUME RunData
  PROVE  /\ req.age_min \in Nat /\ req.age_max \in Nat /\ req.district \in {"", "name", "token"}
         /\ \A i \in DOMAIN index : index[i].age \in Nat /\ index[i].place \in Places
  <1>1. req \in Request /\ index \in Seq(Row)
    BY RetrievalAssumption DEF RunData
  <1>2. req.age_min \in 19..59 /\ req.age_max \in 19..59 /\ req.district \in {"", "name", "token"}
    BY <1>1 DEF Request
  <1>3. \A i \in DOMAIN index : index[i] \in Row
    BY <1>1
  <1>4. \A r \in Row : r.age \in 19..59 /\ r.place \in Places
    BY DEF Row
  <1>5. 19..59 \subseteq Nat
    OBVIOUS
  <1> QED BY <1>2, <1>3, <1>4, <1>5

\* A bucket's row is one that the whole filter asks for, and of no other bucket.
LEMMA FitsOneBucket ==
  ASSUME RunData, NEW i \in DOMAIN index, NEW b \in Buckets, Fits(i, b)
  PROVE  Kept(i) /\ \A c \in Buckets : Fits(i, c) => b = c
  <1> DEFINE lo(c) == bucket_query_age_bounds(c, req).lo
             hi(c) == bucket_query_age_bounds(c, req).hi
  <1>1. index[i].age \in Nat /\ req.age_min \in Nat /\ req.age_max \in Nat
    BY RequestData
  <1>2. \A c \in Buckets : /\ lo(c) = Larger(bucket_age_bounds[c].lo, req.age_min)
                            /\ hi(c) = Smaller(bucket_age_bounds[c].hi, req.age_max)
    BY DEF bucket_query_age_bounds
  <1>3. \A c \in Buckets : Fits(i, c) => lo(c) <= index[i].age /\ index[i].age <= hi(c)
    BY DEF Fits, chroma_where_for_bucket
  <1> HIDE DEF lo, hi
  <1>4. \A c \in Buckets : Fits(i, c) =>
          /\ bucket_age_bounds[c].lo <= index[i].age /\ index[i].age <= bucket_age_bounds[c].hi
          /\ req.age_min <= index[i].age /\ index[i].age <= req.age_max
    BY <1>1, <1>2, <1>3, BucketBounds, FourBuckets DEF Larger, Smaller
  <1>5. FieldsFit(index[i], req) /\ row_passes_post_filters(index[i], req)
    BY DEF Fits, chroma_where_for_bucket
  <1>6. Kept(i)
    BY <1>4, <1>5 DEF Kept, chroma_where_and
  <1>7. \A c \in Buckets : Fits(i, c) => b = c
    BY <1>1, <1>4, BucketBounds, FourBuckets
  <1> QED BY <1>6, <1>7

\* The conditions of the code and the meaning of the filter are the same.
LEMMA KeptIsAsked ==
  ASSUME RunData, NEW i \in DOMAIN index
  PROVE  Kept(i) <=> Asked(index[i])
  <1>1. /\ index[i].age \in Nat /\ index[i].place \in Places
        /\ req.age_min \in Nat /\ req.age_max \in Nat /\ req.district \in {"", "name", "token"}
    BY RequestData
  <1>2. index[i].age \in req.age_min..req.age_max <=> req.age_min <= index[i].age /\ index[i].age <= req.age_max
    <2>1. \A x, y, z \in Nat : x \in y..z <=> y <= x /\ x <= z
      OBVIOUS
    <2> QED BY <1>1, <2>1
  <1> QED
    BY <1>1, <1>2 DEF Kept, Asked, chroma_where_and, FieldsFit, district_exact_token, row_passes_post_filters,
                      district_prefix_keyword, Places

\* An answer of the index is a sequence of different matching rows.
LEMMA QueryIs ==
  ASSUME NEW D, NEW matching \in SUBSET D, NEW m \in Nat, D = 1..m, NEW n, NEW s \in QueryResults(n, matching)
  PROVE  s \in Seq(D) /\ Distinct(s) /\ \A k \in 1..Len(s) : s[k] \in matching
  <1>1. PICK S \in SUBSET matching : s \in SetToSeqs(S)
    BY DEF QueryResults, kSubset
  <1>2. IsFiniteSet(S)
    <2>1. IsFiniteSet(D)
      BY OneTo
    <2> QED BY <2>1, FS_Subset
  <1>3. s \in Seq(S) /\ Distinct(s)
    BY <1>1, <1>2, SetToSeqsIs
  <1>4. \A k \in 1..Len(s) : s[k] \in S
    BY <1>3
  <1>5. \A k \in 1..Len(s) : s[k] \in matching /\ s[k] \in D
    BY <1>4
  <1>6. s \in Seq(D)
    BY <1>3, <1>5
  <1> QED BY <1>3, <1>5, <1>6

LEMMA RetrievalStarts == Init => RetrievalInv
  <1> SUFFICES ASSUME Init PROVE RetrievalInv
    OBVIOUS
  <1>1. /\ pc = "query" /\ req \in Requests /\ index \in Seq(Row) /\ offset = 0 /\ rows = <<>>
        /\ found = [b \in Buckets |-> <<>>]
    BY RetrievalAssumption DEF Init, RetrievalInit
  <1>2. FoundFits
    <2>1. \A b \in Buckets : found[b] = <<>>
      BY <1>1
    <2> QED BY <1>1, <2>1 DEF FoundFits, Distinct
  <1>3. RowsAreKept
    BY <1>1, RetrievalAssumption DEF RowsAreKept, Distinct
  <1> QED BY <1>1, <1>2, <1>3 DEF RetrievalInv, RunData, Scanned, Merged, DistrictIsFound

\* The run and the index are looked at, never changed.
LEMMA SameRows ==
  ASSUME UNCHANGED <<req, index>>
  PROVE  /\ \A i : Kept(i)' <=> Kept(i)
         /\ \A i : \A b : Fits(i, b)' <=> Fits(i, b)
         /\ Matching' = Matching
  <1>1. \A i : Kept(i)' <=> Kept(i)
    BY DEF Kept
  <1>2. \A i : \A b : Fits(i, b)' <=> Fits(i, b)
    BY DEF Fits
  <1>3. Matching' = Matching
    BY DEF Matching
  <1> QED BY <1>1, <1>2, <1>3

LEMMA QueryStep == RetrievalInv /\ QueryBucket => RetrievalInv'
  <1> SUFFICES ASSUME RetrievalInv, QueryBucket PROVE RetrievalInv'
    OBVIOUS
  <1>1. /\ pc = "query" /\ UNCHANGED <<pc, req, index, offset, rows>>
        /\ bkt \in Buckets
    BY DEF QueryBucket
  <1> DEFINE matching == {i \in DOMAIN index : chroma_where_for_bucket(index[i], req, bkt)}
             n == clamp_retrieval_k_per_bucket(req.k)
  <1>2. PICK s \in QueryResults(n, matching) \cup {<<>>} : found' = [found EXCEPT ![bkt] = Passing(s)]
    BY DEF QueryBucket
  <1> HIDE DEF n
  <1>3. index \in Seq(Row) /\ DOMAIN index = 1..Len(index) /\ Len(index) \in Nat
    BY DEF RetrievalInv, RunData
  <1>4. s \in Seq(DOMAIN index) /\ Distinct(s) /\ \A k \in 1..Len(s) : s[k] \in matching
    <2>1. CASE s = <<>>
      BY <2>1 DEF Distinct
    <2>2. CASE s \in QueryResults(n, matching)
      <3>1. matching \in SUBSET DOMAIN index
        OBVIOUS
      <3> HIDE DEF matching
      <3> QED BY <1>3, <2>2, <3>1, QueryIs
    <2> QED BY <2>1, <2>2
  <1>5. /\ Passing(s) \in Seq(DOMAIN index) /\ Distinct(Passing(s))
        /\ \A m \in 1..Len(Passing(s)) : Fits(Passing(s)[m], bkt)
    <2>1. /\ Passing(s) \in Seq(DOMAIN index) /\ Distinct(Passing(s))
          /\ \A m \in 1..Len(Passing(s)) :
               \E k \in 1..Len(s) : Passing(s)[m] = s[k] /\ row_passes_post_filters(index[s[k]], req)
      BY <1>4, PassingIs
    <2>2. \A k \in 1..Len(s) : row_passes_post_filters(index[s[k]], req) => Fits(s[k], bkt)
      BY <1>4 DEF Fits
    <2> QED BY <2>1, <2>2
  <1>6. FoundFits'
    <2>1. found \in [Buckets -> Seq(DOMAIN index)]
      BY DEF RetrievalInv, FoundFits
    <2>2. found' \in [Buckets -> Seq(DOMAIN index)] /\ \A b \in Buckets : found'[b] = IF b = bkt THEN Passing(s) ELSE found[b]
      BY <1>1, <1>2, <1>5, <2>1
    <2>3. \A b \in Buckets : Distinct(found'[b]) /\ \A m \in 1..Len(found'[b]) : Fits(found'[b][m], b)
      BY <1>5, <2>2 DEF RetrievalInv, FoundFits
    <2>4. \A i : \A b : Fits(i, b)' <=> Fits(i, b)
      BY <1>1, SameRows
    <2> QED BY <1>1, <2>2, <2>3, <2>4 DEF FoundFits, Distinct
  <1>7. RowsAreKept'
    <2>1. \A i : Kept(i)' <=> Kept(i)
      BY <1>1, SameRows
    <2> QED BY <1>1, <2>1 DEF RetrievalInv, RowsAreKept, Distinct
  <1> QED BY <1>1, <1>6, <1>7 DEF RetrievalInv, RunData, Scanned, Merged, DistrictIsFound

LEMMA FoundIsDisjoint == RunData /\ FoundFits => Disjoint(found)
  <1> SUFFICES ASSUME RunData, FoundFits, NEW b \in Buckets, NEW c \in Buckets,
                      NEW m \in 1..Len(found[b]), NEW n \in 1..Len(found[c]), found[b][m] = found[c][n]
               PROVE  b = c /\ m = n
    BY DEF Disjoint
  <1>1. Fits(found[b][m], b) /\ Fits(found[c][n], c) /\ Distinct(found[b])
    BY DEF FoundFits
  <1>2. found[b][m] \in DOMAIN index
    BY DEF FoundFits
  <1>3. b = c
    BY <1>1, <1>2, FitsOneBucket
  <1> QED BY <1>1, <1>3 DEF Distinct

\* A scan begins with nothing.
LEMMA AfterQueriesIs ==
  ASSUME RetrievalInv, pc = "query", UNCHANGED <<req, index, offset>>, pc' = AfterQueries(rows')
  PROVE  Scanned' /\ DistrictIsFound'
  <1>1. /\ pc' # "query"
        /\ pc' = "page" => rows' = <<>>
        /\ pc' = "retrieved" => ~(rows' = <<>> /\ district_prefix_keyword(req) /\ req.backend = "chroma")
    BY DEF AfterQueries
  <1>2. offset' = 0
    BY DEF RetrievalInv, Scanned
  <1>3. Matching' = Matching /\ Len(Matching) \in Nat
    BY SameRows, MatchingIs DEF RetrievalInv, RunData
  <1>4. Scanned'
    BY <1>1, <1>2, <1>3 DEF Scanned
  <1>5. DistrictIsFound'
    BY <1>1 DEF DistrictIsFound
  <1> QED BY <1>4, <1>5

LEMMA MergeStep == RetrievalInv /\ MergeBuckets => RetrievalInv'
  <1> SUFFICES ASSUME RetrievalInv, MergeBuckets PROVE RetrievalInv'
    OBVIOUS
  <1>1. /\ pc = "query" /\ UNCHANGED <<req, index, bkt, found, offset>>
        /\ rows' = merge_rows_round_robin(found) /\ pc' = AfterQueries(rows')
    BY DEF MergeBuckets
  <1>2. RunData /\ FoundFits
    BY DEF RetrievalInv
  <1>3. RunData' /\ FoundFits'
    <2>1. \A i : \A b : Fits(i, b)' <=> Fits(i, b)
      BY <1>1, SameRows
    <2> QED BY <1>1, <1>2, <2>1 DEF RunData, FoundFits, Distinct
  <1>4. found \in [Buckets -> Seq(DOMAIN index)]
    BY <1>2 DEF FoundFits
  <1>5. PICK A, N : A = Ascending(Turns(found)) /\ N = Cardinality(Turns(found))
    OBVIOUS
  <1>6. /\ rows' \in Seq(DOMAIN index) /\ Len(rows') <= MaxPersonas /\ Len(rows') <= N /\ N \in Nat
        /\ A \in [1..N -> Turns(found)]
        /\ \A k \in 1..Len(rows') : rows'[k] = found[BucketOf(A[k])][RoundOf(A[k])]
        /\ Distinct(rows') /\ (rows' = <<>> => \A b \in Buckets : found[b] = <<>>)
    <2>1. Disjoint(found)
      BY <1>2, FoundIsDisjoint
    <2> QED BY <1>1, <1>4, <1>5, <2>1, MergeIs
  <1>7. \A k \in 1..Len(rows') : Kept(rows'[k])
    <2> TAKE k \in 1..Len(rows')
    <2>1. A[k] \in Turns(found)
      BY <1>6
    <2>2. BucketOf(A[k]) \in Buckets /\ RoundOf(A[k]) \in 1..Len(found[BucketOf(A[k])])
      BY <1>4, <2>1, TurnsAre
    <2>3. Fits(rows'[k], BucketOf(A[k])) /\ rows'[k] \in DOMAIN index
      BY <1>2, <1>6, <2>2 DEF FoundFits
    <2> QED BY <1>2, <2>2, <2>3, FitsOneBucket
  <1>8. RowsAreKept'
    <2>1. \A i : Kept(i)' <=> Kept(i)
      BY <1>1, SameRows
    <2> QED BY <1>1, <1>6, <1>7, <2>1 DEF RowsAreKept, Distinct
  <1>9. Merged'
    <2>1. merge_rows_round_robin(found)' = merge_rows_round_robin(found)
      BY <1>1
    <2>2. pc' = "page" => rows' = <<>>
      BY <1>1 DEF AfterQueries
    <2> QED BY <1>1, <1>6, <2>1, <2>2 DEF Merged
  <1> QED BY <1>1, <1>3, <1>8, <1>9, AfterQueriesIs DEF RetrievalInv

LEMMA SingleStep == RetrievalInv /\ SingleQuery => RetrievalInv'
  <1> SUFFICES ASSUME RetrievalInv, SingleQuery PROVE RetrievalInv'
    OBVIOUS
  <1> DEFINE matching == {i \in DOMAIN index : chroma_where_and(index[i], req)}
             n == single_query_limit(req)
  <1>1. /\ pc = "query" /\ UNCHANGED <<req, index, bkt, found, offset>>
        /\ pc' = AfterQueries(rows') /\ req.single
    BY DEF SingleQuery
  <1>2. PICK s \in QueryResults(n, matching) : rows' = FirstOf(Passing(s))
    BY DEF SingleQuery
  <1> HIDE DEF n
  <1>3. index \in Seq(Row) /\ DOMAIN index = 1..Len(index) /\ Len(index) \in Nat
    BY DEF RetrievalInv, RunData
  <1>4. s \in Seq(DOMAIN index) /\ Distinct(s) /\ \A k \in 1..Len(s) : s[k] \in matching
    <2>1. matching \in SUBSET DOMAIN index
      OBVIOUS
    <2> HIDE DEF matching
    <2> QED BY <1>2, <1>3, <2>1, QueryIs
  <1>5. /\ Passing(s) \in Seq(DOMAIN index) /\ Distinct(Passing(s))
        /\ \A m \in 1..Len(Passing(s)) : Kept(Passing(s)[m])
    <2>1. /\ Passing(s) \in Seq(DOMAIN index) /\ Distinct(Passing(s))
          /\ \A m \in 1..Len(Passing(s)) :
               \E k \in 1..Len(s) : Passing(s)[m] = s[k] /\ row_passes_post_filters(index[s[k]], req)
      BY <1>4, PassingIs
    <2>2. \A k \in 1..Len(s) : row_passes_post_filters(index[s[k]], req) => Kept(s[k])
      BY <1>4 DEF Kept
    <2> QED BY <2>1, <2>2
  <1>6. RunData' /\ FoundFits'
    <2>1. \A i : \A b : Fits(i, b)' <=> Fits(i, b)
      BY <1>1, SameRows
    <2> QED BY <1>1, <2>1 DEF RetrievalInv, RunData, FoundFits, Distinct
  <1>7. RowsAreKept'
    <2>1. \A i : Kept(i)' <=> Kept(i)
      BY <1>1, SameRows
    <2>2. /\ rows' \in Seq(DOMAIN index) /\ Len(rows') <= MaxPersonas /\ Distinct(rows')
          /\ Len(rows') <= Len(Passing(s))
          /\ \A m \in 1..Len(rows') : rows'[m] = Passing(s)[m]
      BY <1>2, <1>5, FirstOfIs
    <2>3. \A m \in 1..Len(rows') : Kept(rows'[m])
      BY <1>5, <2>2
    <2> QED BY <1>1, <2>1, <2>2, <2>3 DEF RowsAreKept, Distinct
  <1>8. Merged'
    BY <1>1 DEF Merged
  <1> QED BY <1>1, <1>6, <1>7, <1>8, AfterQueriesIs DEF RetrievalInv

\* A page is the part of the matching rows that follows what was read.
LEMMA PageIs ==
  ASSUME NEW D, Matching \in Seq(D), offset \in Nat, offset <= Len(Matching)
  PROVE  /\ PageRead \in Seq(D) /\ Len(PageRead) \in Nat
         /\ offset + Len(PageRead) <= Len(Matching)
         /\ Len(PageRead) < Page => offset + Len(PageRead) = Len(Matching)
         /\ \A k \in 1..Len(PageRead) : PageRead[k] = Matching[offset + k]
  <1>1. Len(Matching) \in Nat /\ Page \in Nat \ {0}
    BY RetrievalAssumption
  <1>2. PICK last \in Nat : last = Smaller(offset + Page, Len(Matching))
    BY <1>1 DEF Smaller
  <1>3. /\ offset <= last /\ last <= Len(Matching) /\ last <= offset + Page
        /\ last < offset + Page => last = Len(Matching)
    BY <1>1, <1>2 DEF Smaller
  <1>4. PageRead = SubSeq(Matching, offset + 1, last)
    BY <1>2 DEF PageRead
  <1>5. PageRead \in Seq(D) /\ Len(PageRead) = last - offset
    BY <1>1, <1>3, <1>4
  <1>6. \A k \in 1..Len(PageRead) : PageRead[k] = Matching[offset + k]
    BY <1>1, <1>3, <1>4, <1>5
  <1> QED BY <1>1, <1>3, <1>5, <1>6

\* What a page adds to the rows that were kept before it.
LEMMA PageAdds ==
  ASSUME RetrievalInv, pc = "page", NEW C, C = rows \o Passing(PageRead)
  PROVE  /\ C \in Seq(DOMAIN index) /\ Distinct(C)
         /\ \A m \in 1..Len(C) : Kept(C[m]) /\ \E k \in 1..(offset + Len(PageRead)) : C[m] = Matching[k]
         /\ C = <<>> => \A k \in 1..(offset + Len(PageRead)) : ~row_passes_post_filters(index[Matching[k]], req)
  <1> DEFINE D == DOMAIN index
             P == Passing(PageRead)
  <1>1. /\ Matching \in Seq(D) /\ Distinct(Matching) /\ Len(Matching) \in Nat
        /\ \A n \in 1..Len(Matching) : chroma_where_and(index[Matching[n]], req)
    BY MatchingIs DEF RetrievalInv, RunData
  <1>2. offset \in Nat /\ offset <= Len(Matching)
    BY DEF RetrievalInv, RunData, Scanned
  <1>3. /\ PageRead \in Seq(D) /\ Len(PageRead) \in Nat
        /\ offset + Len(PageRead) <= Len(Matching)
        /\ \A k \in 1..Len(PageRead) : PageRead[k] = Matching[offset + k]
    BY <1>1, <1>2, PageIs
  <1>4. Distinct(PageRead)
    BY <1>1, <1>2, <1>3 DEF Distinct
  <1>5. /\ P \in Seq(D) /\ Distinct(P) /\ Len(P) \in Nat
        /\ \A m \in 1..Len(P) :
             \E k \in 1..Len(PageRead) : P[m] = PageRead[k] /\ row_passes_post_filters(index[PageRead[k]], req)
        /\ \A k \in 1..Len(PageRead) : row_passes_post_filters(index[PageRead[k]], req)
             => \E m \in 1..Len(P) : P[m] = PageRead[k]
    BY <1>3, <1>4, PassingIs
  <1>6. /\ rows \in Seq(D) /\ Distinct(rows) /\ Len(rows) \in Nat
        /\ \A m \in 1..Len(rows) : Kept(rows[m])
        /\ \A m \in 1..Len(rows) : \E k \in 1..offset : rows[m] = Matching[k]
        /\ rows = <<>> => \A k \in 1..offset : ~row_passes_post_filters(index[Matching[k]], req)
    BY DEF RetrievalInv, RowsAreKept, Scanned
  <1>7. \A m \in 1..Len(P) : Kept(P[m]) /\ \E k \in 1..Len(PageRead) : P[m] = Matching[offset + k]
    <2> TAKE m \in 1..Len(P)
    <2>1. PICK k \in 1..Len(PageRead) : P[m] = PageRead[k] /\ row_passes_post_filters(index[PageRead[k]], req)
      BY <1>5
    <2>2. offset + k \in 1..Len(Matching) /\ P[m] = Matching[offset + k]
      BY <1>1, <1>2, <1>3, <2>1
    <2>3. chroma_where_and(index[P[m]], req)
      BY <1>1, <2>2
    <2> QED BY <2>1, <2>2, <2>3 DEF Kept
  <1> HIDE DEF P, D
  <1>8. /\ C \in Seq(D) /\ Len(C) = Len(rows) + Len(P)
        /\ \A m \in 1..Len(C) : C[m] = IF m <= Len(rows) THEN rows[m] ELSE P[m - Len(rows)]
    BY <1>5, <1>6 DEF P
  <1>9. ASSUME NEW m \in 1..Len(rows), NEW n \in 1..Len(P) PROVE rows[m] # P[n]
    <2>1. PICK j \in 1..offset : rows[m] = Matching[j]
      BY <1>6
    <2>2. PICK k \in 1..Len(PageRead) : P[n] = Matching[offset + k]
      BY <1>7
    <2>3. j \in 1..Len(Matching) /\ offset + k \in 1..Len(Matching) /\ j # offset + k
      BY <1>1, <1>2, <1>3
    <2> QED BY <1>1, <2>1, <2>2, <2>3 DEF Distinct
  <1>10. Distinct(C)
    <2> SUFFICES ASSUME NEW m \in 1..Len(C), NEW n \in 1..Len(C), C[m] = C[n] PROVE m = n
      BY DEF Distinct
    <2>1. /\ m <= Len(rows) => m \in 1..Len(rows)
          /\ n <= Len(rows) => n \in 1..Len(rows)
          /\ ~(m <= Len(rows)) => m - Len(rows) \in 1..Len(P)
          /\ ~(n <= Len(rows)) => n - Len(rows) \in 1..Len(P)
      BY <1>5, <1>6, <1>8
    <2>2. CASE m <= Len(rows) /\ n <= Len(rows)
      BY <1>6, <1>8, <2>1, <2>2 DEF Distinct
    <2>3. CASE ~(m <= Len(rows)) /\ ~(n <= Len(rows))
      <3>1. m - Len(rows) = n - Len(rows)
        BY <1>5, <1>8, <2>1, <2>3 DEF Distinct
      <3> QED BY <1>5, <1>6, <1>8, <3>1
    <2>4. CASE m <= Len(rows) /\ ~(n <= Len(rows))
      BY <1>8, <1>9, <2>1, <2>4
    <2>5. CASE ~(m <= Len(rows)) /\ n <= Len(rows)
      BY <1>8, <1>9, <2>1, <2>5
    <2> QED BY <2>2, <2>3, <2>4, <2>5
  <1>11. ASSUME NEW m \in 1..Len(C)
         PROVE  Kept(C[m]) /\ \E k \in 1..(offset + Len(PageRead)) : C[m] = Matching[k]
    <2>1. CASE m <= Len(rows)
      <3>1. m \in 1..Len(rows) /\ C[m] = rows[m]
        BY <1>5, <1>6, <1>8, <2>1
      <3>2. PICK k \in 1..offset : C[m] = Matching[k]
        BY <1>6, <3>1
      <3>3. k \in 1..(offset + Len(PageRead))
        BY <1>2, <1>3
      <3> QED BY <1>6, <3>1, <3>2, <3>3
    <2>2. CASE ~(m <= Len(rows))
      <3>1. m - Len(rows) \in 1..Len(P) /\ C[m] = P[m - Len(rows)]
        BY <1>5, <1>6, <1>8, <2>2
      <3>2. PICK k \in 1..Len(PageRead) : C[m] = Matching[offset + k]
        BY <1>7, <3>1
      <3>3. offset + k \in 1..(offset + Len(PageRead))
        BY <1>2, <1>3
      <3> QED BY <1>7, <3>1, <3>2, <3>3
    <2> QED BY <2>1, <2>2
  <1>12. ASSUME C = <<>>, NEW k \in 1..(offset + Len(PageRead))
         PROVE  ~row_passes_post_filters(index[Matching[k]], req)
    <2>1. Len(rows) = 0 /\ Len(P) = 0
      BY <1>5, <1>6, <1>8, <1>12
    <2>2. CASE k <= offset
      <3>1. rows = <<>>
        BY <1>6, <2>1
      <3>2. k \in 1..offset
        BY <1>2, <1>3, <2>2
      <3> QED BY <1>6, <3>1, <3>2
    <2>3. CASE ~(k <= offset)
      <3>1. PICK j \in 1..Len(PageRead) : k = offset + j
        BY <1>2, <1>3, <2>3
      <3>2. PageRead[j] = Matching[k]
        BY <1>3, <3>1
      <3>3. ~\E m \in 1..Len(P) : P[m] = PageRead[j]
        BY <2>1
      <3> QED BY <1>5, <3>2, <3>3
    <2> QED BY <2>2, <2>3
  <1> QED BY <1>8, <1>10, <1>11, <1>12 DEF D

LEMMA ScanStep == RetrievalInv /\ ScanPage => RetrievalInv'
  <1> SUFFICES ASSUME RetrievalInv, ScanPage PROVE RetrievalInv'
    OBVIOUS
  <1>1. PICK C : C = rows \o Passing(PageRead)
    OBVIOUS
  <1>2. /\ pc = "page" /\ UNCHANGED <<req, index, bkt, found>>
        /\ rows' = FirstOf(C)
        /\ \/ /\ pc' = "retrieved" /\ offset' = offset
              /\ Len(PageRead) < Page \/ Len(rows') >= MaxPersonas
           \/ pc' = "page" /\ offset' = offset + Len(PageRead)
    BY <1>1 DEF ScanPage
  <1>3. /\ C \in Seq(DOMAIN index) /\ Distinct(C)
        /\ \A m \in 1..Len(C) : Kept(C[m]) /\ \E k \in 1..(offset + Len(PageRead)) : C[m] = Matching[k]
        /\ C = <<>> => \A k \in 1..(offset + Len(PageRead)) : ~row_passes_post_filters(index[Matching[k]], req)
    BY <1>1, <1>2, PageAdds
  <1>4. /\ rows' \in Seq(DOMAIN index) /\ Len(rows') <= MaxPersonas /\ Len(rows') <= Len(C) /\ Distinct(rows')
        /\ \A m \in 1..Len(rows') : rows'[m] = C[m]
        /\ rows' = <<>> => C = <<>>
    BY <1>2, <1>3, FirstOfIs
  <1>5. \A m \in 1..Len(rows') : /\ Kept(rows'[m])
                                 /\ \E k \in 1..(offset + Len(PageRead)) : rows'[m] = Matching[k]
    <2>1. \A m \in 1..Len(rows') : m \in 1..Len(C)
      BY <1>3, <1>4
    <2> QED BY <1>3, <1>4, <2>1
  <1>6. /\ Matching \in Seq(DOMAIN index) /\ Len(Matching) \in Nat
        /\ \A i \in DOMAIN index : chroma_where_and(index[i], req) => \E n \in 1..Len(Matching) : Matching[n] = i
    BY MatchingIs DEF RetrievalInv, RunData
  <1>7. /\ offset \in Nat /\ Len(PageRead) \in Nat /\ offset + Len(PageRead) <= Len(Matching)
        /\ Len(PageRead) < Page => offset + Len(PageRead) = Len(Matching)
    <2>1. offset \in Nat /\ offset <= Len(Matching)
      BY <1>2 DEF RetrievalInv, RunData, Scanned
    <2> QED BY <1>6, <2>1, PageIs
  <1>8. /\ \A i : Kept(i)' <=> Kept(i)
        /\ \A i : \A b : Fits(i, b)' <=> Fits(i, b)
        /\ Matching' = Matching
    BY <1>2, SameRows
  <1>9. RunData' /\ FoundFits'
    BY <1>2, <1>7, <1>8 DEF RetrievalInv, RunData, FoundFits, Distinct
  <1>10. RowsAreKept'
    BY <1>2, <1>4, <1>5, <1>8 DEF RowsAreKept, Distinct
  <1>11. Scanned'
    BY <1>2, <1>3, <1>4, <1>5, <1>7, <1>8 DEF Scanned
  <1>12. Merged'
    BY <1>2 DEF RetrievalInv, Merged
  <1>13. DistrictIsFound'
    <2> SUFFICES ASSUME pc' = "retrieved", rows' = <<>>, NEW i \in DOMAIN index, Asked(index[i]) PROVE FALSE
      BY <1>2 DEF DistrictIsFound, Asked
    <2>1. Len(PageRead) < Page
      <3>1. Len(rows') = 0
        OBVIOUS
      <3> QED BY <1>2, <3>1, RetrievalAssumption
    <2>2. \A k \in 1..Len(Matching) : ~row_passes_post_filters(index[Matching[k]], req)
      BY <1>3, <1>4, <1>7, <2>1
    <2>3. Kept(i)
      BY KeptIsAsked DEF RetrievalInv
    <2> QED BY <1>6, <2>2, <2>3 DEF Kept
  <1> QED BY <1>9, <1>10, <1>11, <1>12, <1>13 DEF RetrievalInv

LEMMA RetrieveKeeps == RetrievalInv /\ Retrieve => RetrievalInv'
  BY QueryStep, MergeStep, SingleStep, ScanStep
  DEF Retrieve, retrieve_personas_balanced_chroma, retrieve_personas_balanced_langchain,
      retrieve_personas_chroma_single, retrieve_personas_langchain

\* When the locals of the retrieval go out of scope, so does what is said of them.
LEMMA ForgetKeeps ==
  ASSUME RetrievalInv, ForgetRetrieval, pc' \notin {"query", "page", "retrieved"}
  PROVE  RetrievalInv'
  <1>1. /\ index' = <<>> /\ offset' = 0 /\ rows' = <<>>
        /\ found' = [b \in Buckets |-> <<>>] /\ req' = CHOOSE r \in Requests : TRUE
    BY DEF ForgetRetrieval
  <1>2. req' \in Requests
    BY <1>1 DEF RetrievalInv, RunData
  <1>3. FoundFits'
    <2>1. \A b \in Buckets : found'[b] = <<>>
      BY <1>1
    <2> QED BY <1>1, <2>1 DEF FoundFits, Distinct
  <1>4. RowsAreKept'
    BY <1>1, RetrievalAssumption DEF RowsAreKept, Distinct
  <1>5. RunData'
    BY <1>1, <1>2 DEF RunData
  <1> QED BY <1>3, <1>4, <1>5 DEF RetrievalInv, Scanned, Merged, DistrictIsFound

LEMMA OthersKeep ==
  ASSUME RetrievalInv, UNCHANGED <<req, index, bkt, found, offset, rows>>,
         pc' = pc \/ pc' \notin {"query", "page", "retrieved"}
  PROVE  RetrievalInv'
  <1>1. /\ \A i : Kept(i)' <=> Kept(i)
        /\ \A i : \A b : Fits(i, b)' <=> Fits(i, b)
        /\ Matching' = Matching
    BY SameRows
  <1>2. merge_rows_round_robin(found)' = merge_rows_round_robin(found)
    OBVIOUS
  <1>3. RunData' /\ FoundFits'
    BY <1>1 DEF RetrievalInv, RunData, FoundFits, Distinct
  <1>4. RowsAreKept'
    BY <1>1 DEF RetrievalInv, RowsAreKept, Distinct
  <1>5. Scanned'
    BY <1>1 DEF RetrievalInv, Scanned
  <1>6. Merged'
    BY <1>2 DEF RetrievalInv, Merged
  <1>7. DistrictIsFound'
    BY DEF RetrievalInv, DistrictIsFound, Asked
  <1> QED BY <1>3, <1>4, <1>5, <1>6, <1>7 DEF RetrievalInv

LEMMA RetrievalNext == RetrievalInv /\ [Next]_vars => RetrievalInv'
  <1> SUFFICES ASSUME RetrievalInv, [Next]_vars PROVE RetrievalInv'
    OBVIOUS
  <1>1. CASE RetrieveStep
    BY <1>1, RetrieveKeeps DEF RetrieveStep
  <1>2. CASE NobodyFound
    BY <1>2, ForgetKeeps DEF NobodyFound
  <1>3. CASE Spawn
    BY <1>3, ForgetKeeps DEF Spawn
  <1>4. CASE Sample
    BY <1>4, OthersKeep DEF Sample
  <1>5. CASE run_campaign
    <2>1. UNCHANGED <<req, index, bkt, found, offset, rows>> /\ (pc' = pc \/ pc' \in {"batch", "failed", "aggregate"})
      BY <1>5 DEF run_campaign, Evaluate, Take, Attempt, MockAnswers, Answered, AttemptFails, AttemptRaises,
                  EndBatch, evaluationUnchanged
    <2> QED BY <2>1, OthersKeep
  <1>6. CASE OpenReport \/ WriteReport \/ WriteText
    BY <1>6, OthersKeep DEF OpenReport, WriteReport, WriteText
  <1>7. CASE ChildDies \/ Timeout
    BY <1>7, OthersKeep DEF ChildDies, Timeout
  <1>8. CASE Raise \/ Return
    BY <1>8, OthersKeep DEF Raise, Return
  <1>9. CASE UNCHANGED vars
    BY <1>9, OthersKeep DEF vars, retrievalVars
  <1> QED
    BY <1>1, <1>2, <1>3, <1>4, <1>5, <1>6, <1>7, <1>8, <1>9 DEF Next, run_validator, main, Done

\* What the invariant says about the rows is what the filter asks for.
LEMMA KeptRows == RetrievalInv => RetrievedAsAsked
  <1> SUFFICES ASSUME RetrievalInv PROVE RetrievedAsAsked
    OBVIOUS
  <1>1. /\ RunData /\ rows \in Seq(DOMAIN index) /\ Len(rows) <= MaxPersonas /\ Distinct(rows)
        /\ \A n \in 1..Len(rows) : Kept(rows[n])
    BY DEF RetrievalInv, RowsAreKept
  <1>2. \A i \in Range(rows) : Asked(index[i])
    <2>1. \A n \in 1..Len(rows) : rows[n] \in DOMAIN index
      BY <1>1
    <2>2. \A n \in 1..Len(rows) : Asked(index[rows[n]])
      BY <1>1, <2>1, KeptIsAsked
    <2> QED BY <1>1, <2>2 DEF Range
  <1>3. Cardinality(Range(rows)) = Len(rows)
    BY <1>1, DistinctCounts
  <1> QED BY <1>1, <1>2, <1>3 DEF RetrievedAsAsked

LEMMA MergedRows == RetrievalInv => Balanced
  <1> SUFFICES ASSUME RetrievalInv, pc = "retrieved", ~req.single, NEW b \in Buckets, found[b] # <<>>
               PROVE  LET taken(c) == Cardinality(Range(rows) \cap Range(found[c]))
                      IN  /\ \A c, d \in Buckets : taken(c) + 1 < taken(d) => taken(c) = Len(found[c])
                          /\ Len(rows) < MaxPersonas => \A c \in Buckets : taken(c) = Len(found[c])
    BY DEF Balanced
  <1>1. rows = merge_rows_round_robin(found)
    BY DEF RetrievalInv, Merged
  <1>2. Disjoint(found)
    BY FoundIsDisjoint DEF RetrievalInv
  <1>3. found \in [Buckets -> Seq(DOMAIN index)]
    BY DEF RetrievalInv, FoundFits
  <1> QED BY <1>1, <1>2, <1>3, MergeIsBalanced

\* For every index, payload and limit: whatever the queries and the pages of the scan
\* return, the personas picked are ones that the filter asks for, each once and no more
\* than max_personas (persona_retrieval.py, validator_runner._retrieve_filtered_personas).
THEOREM PersonasAreAsAsked == Spec => []RetrievedAsAsked
  BY RetrievalStarts, RetrievalNext, KeptRows, PTL DEF Spec

\* The round robin is fair for any number of candidates per age bucket: no bucket is two
\* behind another one before it is used up, and a short result uses up all of them
\* (merge_rows_round_robin).
THEOREM BucketsAreBalanced == Spec => []Balanced
  BY RetrievalStarts, RetrievalNext, MergedRows, PTL DEF Spec

\* However many pages it takes and whatever the queries missed: Chroma's fallback scan
\* ends with nobody only if nobody of the index has what was asked for.
THEOREM DistrictsAreFound == Spec => []DistrictIsFound
  <1>1. RetrievalInv => DistrictIsFound
    BY DEF RetrievalInv
  <1> QED BY <1>1, RetrievalStarts, RetrievalNext, PTL DEF Spec

-----------------------------------------------------------------------------
(* The inductive invariant of the child: who is sampled, asked and written. *)

Before == {"query", "page", "retrieved"}
Over   == {"failed", "done"}
Ended  == {"aggregate", "write", "text", "exited"}

ModeType ==
  /\ pc \in Before \cup {"sample", "batch"} \cup Ended \cup Over
  /\ mode.eval_concurrency \in 1..8
  /\ file \in Files /\ summary \in Files \cup {"none", "error"}

\* personas.jsonl: a line per persona, with its number.
PersonasAreLines ==
  /\ IsFiniteSet(personas) /\ Cardinality(personas) <= MaxPersonas
  /\ \A p \in personas : p.id \in Nat /\ p.age \in 19..59
  /\ \A p, q \in personas : p.id = q.id => p = q

\* Each of them is in the sample, once.
EverySampled ==
  /\ sample \in Seq(personas)
  /\ pc \in Before \cup {"sample"} => sample = <<>>
  /\ pc \in {"batch"} \cup Ended => Distinct(sample) /\ \A p \in personas : \E k \in 1..Size : sample[k] = p

\* The threads and what they found.
PoolType ==
  /\ busy \in SUBSET (1..Size) /\ Cardinality(busy) <= Width
  /\ tries \in [1..Size -> 0..Retries]
  /\ result \in [1..Size -> {NoResult, ErrorResult} \cup Outcome]
  /\ pc \in Before \cup {"sample"} => busy = {}

ErrorLine == [id: Nat, bucket: Buckets, error: {TRUE}]
GoodLine  == [id: Nat, bucket: Buckets, error: {FALSE},
              winner: Arms, A: 0..FullScore, B: 0..FullScore, confidence: 0..FullScore, reason: Reasons]

\* The lines are those of the first personas of the sample, and in the end of all.
LinesFollow ==
  /\ partial \in Seq(ErrorLine \cup GoodLine) /\ Len(partial) <= Size
  /\ \A k \in 1..Len(partial) : partial[k].id = sample[k].id
  /\ pc \in Ended => Len(partial) = Size

ChildInv == ModeType /\ PersonasAreLines /\ EverySampled /\ PoolType /\ LinesFollow

-----------------------------------------------------------------------------
(* The sample.                                                              *)

\* Nobody falls out of the age buckets: the filter asks for ages from 19 to 59 only.
LEMMA EveryAgeHasBucket == \A a \in 19..59 : age_to_bucket(a) \in Buckets
  BY FourBuckets DEF age_to_bucket

\* A sequence of different personas of these buckets.
GroupOf(s, B) == s \in Seq(normalize_personas) /\ Distinct(s) /\ \A k \in 1..Len(s) : bucket(s[k]) \in B

LEMMA GroupsJoin ==
  ASSUME NEW s, NEW t, NEW B, NEW c, c \notin B, GroupOf(s, B), GroupOf(t, {c})
  PROVE  GroupOf(s \o t, B \cup {c})
  <1>1. \A m \in 1..Len(s), n \in 1..Len(t) : s[m] # t[n]
    BY DEF GroupOf
  <1>2. /\ s \o t \in Seq(normalize_personas) /\ Distinct(s \o t)
        /\ \A k \in 1..Len(s \o t) : (\E m \in 1..Len(s) : (s \o t)[k] = s[m]) \/ (\E n \in 1..Len(t) : (s \o t)[k] = t[n])
    BY <1>1, ConcatIs DEF GroupOf
  <1>3. \A k \in 1..Len(s \o t) : bucket((s \o t)[k]) \in B \cup {c}
    BY <1>2 DEF GroupOf
  <1> QED BY <1>2, <1>3 DEF GroupOf

LEMMA HeadsAre ==
  ASSUME PersonasAreLines, NEW h \in Heads
  PROVE  h \in Seq(normalize_personas) /\ Distinct(h)
  <1>1. ASSUME NEW b, NEW s \in HeadOf(b) PROVE GroupOf(s, {b})
    <2> DEFINE S == {p \in normalize_personas : bucket(p) = b}
    <2>1. PICK g \in SetToSeqs(S) : s = SubSeq(g, 1, Smaller(MinPerBucket, Len(g)))
      BY DEF HeadOf
    <2>2. S \in SUBSET personas
      BY DEF normalize_personas
    <2>3. IsFiniteSet(S)
      BY <2>2, FS_Subset DEF PersonasAreLines
    <2>4. \A p \in S : p \in normalize_personas /\ bucket(p) = b
      OBVIOUS
    <2> HIDE DEF S
    <2>5. g \in Seq(S) /\ Distinct(g)
      BY <2>3, SetToSeqsIs
    <2>6. PICK n \in Nat : n = Smaller(MinPerBucket, Len(g)) /\ n <= Len(g)
      BY <2>5, RunAssumption DEF Smaller
    <2>7. s \in Seq(S) /\ Len(s) = n /\ \A k \in 1..n : s[k] = g[k]
      BY <2>1, <2>5, <2>6
    <2>8. Distinct(s)
      BY <2>5, <2>6, <2>7 DEF Distinct
    <2>9. \A k \in 1..Len(s) : s[k] \in normalize_personas /\ bucket(s[k]) = b
      BY <2>4, <2>7
    <2>10. s \in Seq(normalize_personas)
      BY <2>7, <2>9
    <2> QED BY <2>8, <2>9, <2>10 DEF GroupOf
  <1>2. PICK h1 \in HeadOf(1), h2 \in HeadOf(2), h3 \in HeadOf(3), h4 \in HeadOf(4) : h = ((h1 \o h2) \o h3) \o h4
    BY DEF Heads
  <1>3. GroupOf(h1, {1}) /\ GroupOf(h2, {2}) /\ GroupOf(h3, {3}) /\ GroupOf(h4, {4})
    BY <1>1
  <1>4. GroupOf(h1 \o h2, {1} \cup {2})
    BY <1>3, GroupsJoin
  <1>5. 3 \notin {1} \cup {2} /\ 4 \notin ({1} \cup {2}) \cup {3}
    OBVIOUS
  <1>6. GroupOf((h1 \o h2) \o h3, ({1} \cup {2}) \cup {3})
    BY <1>3, <1>4, <1>5, GroupsJoin
  <1>7. GroupOf(((h1 \o h2) \o h3) \o h4, (({1} \cup {2}) \cup {3}) \cup {4})
    BY <1>3, <1>5, <1>6, GroupsJoin
  <1> QED BY <1>2, <1>7 DEF GroupOf

\* Whatever the shuffles do, everybody is in the sample once: there are no more personas
\* than max_personas, for the retrieval saw to that.
LEMMA SampleIs ==
  ASSUME PersonasAreLines, NEW s \in sample_personas_by_bucket
  PROVE  s \in Seq(personas) /\ Distinct(s) /\ \A p \in personas : \E k \in 1..Len(s) : s[k] = p
  <1>1. normalize_personas = personas
    <2>1. \A p \in personas : bucket(p) # 0
      BY EveryAgeHasBucket, FourBuckets DEF PersonasAreLines, bucket
    <2> QED BY <2>1 DEF normalize_personas
  <1>2. PICK h \in Heads : \E rest \in SetToSeqs(normalize_personas \ Range(h)) : s = FirstOf(h \o rest)
    BY DEF sample_personas_by_bucket
  <1>3. PICK rest \in SetToSeqs(personas \ Range(h)) : s = FirstOf(h \o rest)
    BY <1>1, <1>2
  <1>4. h \in Seq(personas) /\ Distinct(h)
    BY <1>1, HeadsAre
  <1>5. /\ rest \in Seq(personas \ Range(h)) /\ Distinct(rest)
        /\ \A x \in personas \ Range(h) : \E k \in 1..Len(rest) : rest[k] = x
    <2>1. PICK R : R = personas \ Range(h)
      OBVIOUS
    <2>2. R \in SUBSET personas /\ rest \in SetToSeqs(R)
      BY <2>1
    <2>3. IsFiniteSet(R)
      BY <2>2, FS_Subset DEF PersonasAreLines
    <2>4. rest \in Seq(R) /\ Distinct(rest) /\ \A x \in R : \E k \in 1..Len(rest) : rest[k] = x
      BY <2>2, <2>3, SetToSeqsIs
    <2> QED BY <2>1, <2>4
  <1>6. rest \in Seq(personas) /\ \A m \in 1..Len(h), n \in 1..Len(rest) : h[m] # rest[n]
    <2>1. \A n \in 1..Len(rest) : rest[n] \in personas /\ rest[n] \notin Range(h)
      BY <1>5
    <2>2. \A m \in 1..Len(h) : h[m] \in Range(h)
      BY <1>4 DEF Range
    <2>3. rest \in Seq(personas)
      BY <1>5, <2>1
    <2> QED BY <2>1, <2>2, <2>3
  <1>7. PICK C : C = h \o rest
    OBVIOUS
  <1>8. /\ C \in Seq(personas) /\ Distinct(C)
        /\ \A m \in 1..Len(h) : \E k \in 1..Len(C) : C[k] = h[m]
        /\ \A n \in 1..Len(rest) : \E k \in 1..Len(C) : C[k] = rest[n]
    <2>1. /\ h \o rest \in Seq(personas) /\ Distinct(h \o rest)
          /\ \A m \in 1..Len(h) : \E k \in 1..Len(h \o rest) : (h \o rest)[k] = h[m]
          /\ \A n \in 1..Len(rest) : \E k \in 1..Len(h \o rest) : (h \o rest)[k] = rest[n]
      <3>1. Distinct(rest)
        BY <1>5
      <3> QED BY <1>4, <1>6, <3>1, ConcatIs
    <2> QED BY <1>7, <2>1
  <1>9. \A p \in personas : \E k \in 1..Len(C) : C[k] = p
    <2> TAKE p \in personas
    <2>1. CASE p \in Range(h)
      <3>1. PICK m \in 1..Len(h) : h[m] = p
        BY <1>4, <2>1 DEF Range
      <3> QED BY <1>8, <3>1
    <2>2. CASE p \notin Range(h)
      BY <1>5, <1>8, <2>2
    <2> QED BY <2>1, <2>2
  <1>10. Len(C) \in Nat /\ Len(C) <= MaxPersonas
    BY <1>8, <1>9, DistinctCounts DEF PersonasAreLines
  <1>11. /\ s \in Seq(personas) /\ Distinct(s) /\ Len(s) = Len(C)
         /\ \A k \in 1..Len(s) : s[k] = C[k]
    <2>1. /\ s \in Seq(personas) /\ Len(s) <= Len(C) /\ (Len(s) = Len(C) \/ Len(s) = MaxPersonas)
          /\ \A k \in 1..Len(s) : s[k] = C[k]
          /\ Distinct(C) => Distinct(s)
      BY <1>3, <1>7, <1>8, FirstOfIs
    <2>2. MaxPersonas \in Nat
      BY RetrievalAssumption
    <2>3. Len(s) \in Nat
      BY <2>1
    <2>4. Len(s) = Len(C)
      BY <1>10, <2>1, <2>2, <2>3
    <2> QED BY <1>8, <2>1, <2>4
  <1> QED BY <1>9, <1>11

-----------------------------------------------------------------------------
(* The child's invariant, action by action.                                 *)

LEMMA ChildInit == Init => ChildInv
  <1> SUFFICES ASSUME Init PROVE ChildInv
    OBVIOUS
  <1>1. /\ pc = "query" /\ mode = NoMode /\ personas = {} /\ sample = <<>> /\ busy = {} /\ tries = <<>>
        /\ result = <<>> /\ partial = <<>> /\ file \in {"absent", "old"} /\ summary = "none"
    BY DEF Init, RetrievalInit
  <1>2. IsFiniteSet({}) /\ Cardinality({}) = 0
    BY FS_EmptySet
  <1>3. ModeType
    BY <1>1 DEF ModeType, Before, NoMode, Files
  <1>4. PersonasAreLines
    BY <1>1, <1>2, RetrievalAssumption DEF PersonasAreLines
  <1>5. EverySampled
    BY <1>1 DEF EverySampled, Before, Ended
  <1>6. Size = 0 /\ Width \in Nat
    BY <1>1 DEF Size, Width, Pooled, NoMode
  <1>7. PoolType
    BY <1>1, <1>2, <1>6 DEF PoolType
  <1>8. LinesFollow
    BY <1>1, <1>6 DEF LinesFollow, Before, Ended
  <1> QED BY <1>3, <1>4, <1>5, <1>7, <1>8 DEF ChildInv

\* A step that leaves the child's data alone, and at most stops its threads.
LEMMA RestKeeps ==
  ASSUME ChildInv, UNCHANGED <<mode, personas, sample, tries, result, partial>>,
         busy' = busy \/ busy' = {}, file' \in Files, summary' \in Files \cup {"none", "error"},
         \/ pc' = pc
         \/ pc' \in Over
         \/ pc \in Before /\ pc' \in Before
         \/ pc \in Ended /\ pc' \in Ended
  PROVE  ChildInv'
  <1>1. Size' = Size /\ Width' = Width
    BY DEF Size, Width, Pooled
  <1>2. ModeType'
    BY DEF ChildInv, ModeType
  <1>3. PersonasAreLines'
    BY DEF ChildInv, PersonasAreLines
  <1>4. EverySampled'
    BY <1>1 DEF ChildInv, EverySampled, Before, Over, Ended, Distinct
  <1>5. Width \in Nat
    BY DEF ChildInv, ModeType, Width
  <1>6. Cardinality({}) = 0
    BY FS_EmptySet
  <1>7. PoolType'
    <2>1. PoolType
      BY DEF ChildInv
    <2>5. busy \in SUBSET (1..Size) /\ Cardinality(busy) <= Width
      BY <2>1 DEF PoolType
    <2>6. Cardinality(busy') <= Width
      <3>1. CASE busy' = busy
        BY <2>5, <3>1
      <3>2. CASE busy' = {}
        <4>1. 0 <= Width
          BY <1>5
        <4> QED BY <1>6, <3>2, <4>1
      <3> QED BY <3>1, <3>2
    <2>2. busy' \in SUBSET (1..Size') /\ Cardinality(busy') <= Width'
      BY <1>1, <2>5, <2>6
    <2>3. tries' \in [1..Size' -> 0..Retries] /\ result' \in [1..Size' -> {NoResult, ErrorResult} \cup Outcome]
      BY <1>1, <2>1, Zenon DEF PoolType
    <2>4. pc' \in Before \cup {"sample"} => busy' = {}
      BY <2>1 DEF PoolType, Before, Over, Ended
    <2> QED BY <2>2, <2>3, <2>4 DEF PoolType
  <1>8. LinesFollow'
    BY <1>1 DEF ChildInv, LinesFollow, Before, Over, Ended
  <1> QED BY <1>2, <1>3, <1>4, <1>7, <1>8 DEF ChildInv

LEMMA SpawnKeeps ==
  ASSUME RetrievalInv, ChildInv, Spawn
  PROVE  ChildInv'
  <1> DEFINE P == [k \in 1..Len(rows) |-> [id |-> k, age |-> index[rows[k]].age]]
  <1>1. /\ pc = "retrieved" /\ pc' = "sample" /\ mode' \in Modes
        /\ UNCHANGED <<sample, busy, tries, result, partial, file, summary>>
    BY DEF Spawn
  <1>2. /\ index \in Seq(Row) /\ rows \in Seq(DOMAIN index) /\ Len(rows) \in Nat /\ Len(rows) <= MaxPersonas
    BY DEF RetrievalInv, RunData, RowsAreKept
  <1>3. personas' = {P[k] : k \in 1..Len(rows)}
    <2>1. DOMAIN rows = 1..Len(rows)
      BY <1>2
    <2>2. personas' = {[id |-> k, age |-> index[rows[k]].age] : k \in 1..Len(rows)}
      BY <2>1 DEF Spawn
    <2> QED BY <2>2
  <1>4. \A k \in 1..Len(rows) : P[k].id = k /\ P[k].id \in Nat /\ P[k].age \in 19..59
    <2> TAKE k \in 1..Len(rows)
    <2>1. index[rows[k]] \in Row
      BY <1>2
    <2>2. index[rows[k]].age \in 19..59
      BY <2>1 DEF Row
    <2>3. P[k] = [id |-> k, age |-> index[rows[k]].age]
      OBVIOUS
    <2>4. k \in Nat
      BY <1>2
    <2> QED BY <2>2, <2>3, <2>4
  <1>5. DOMAIN P = 1..Len(rows)
    OBVIOUS
  <1> HIDE DEF P
  <1>6. IsFiniteSet(personas') /\ Cardinality(personas') <= MaxPersonas
    <2>0. P = [k \in 1..Len(rows) |-> P[k]]
      BY DEF P
    <2>1. P \in Surjection(1..Len(rows), personas')
      BY <1>3, <2>0 DEF Surjection
    <2>2. IsFiniteSet(1..Len(rows)) /\ Cardinality(1..Len(rows)) = Len(rows)
      BY <1>2, OneTo
    <2>3. IsFiniteSet(personas') /\ Cardinality(personas') <= Len(rows)
      BY <2>1, <2>2, FS_Surjection
    <2>4. Cardinality(personas') \in Nat /\ MaxPersonas \in Nat
      BY <2>3, FS_CardinalityType, RetrievalAssumption
    <2> QED BY <1>2, <2>3, <2>4
  <1>7. PersonasAreLines'
    <2>1. \A p \in personas' : p.id \in Nat /\ p.age \in 19..59
      BY <1>3, <1>4
    <2>2. \A p, q \in personas' : p.id = q.id => p = q
      BY <1>3, <1>4
    <2> QED BY <1>6, <2>1, <2>2 DEF PersonasAreLines
  <1>8. sample = <<>> /\ busy = {} /\ Size = 0 /\ Size' = 0
    BY <1>1 DEF ChildInv, EverySampled, PoolType, Before, Size
  <1>9. mode'.eval_concurrency \in 1..8
    BY <1>1, RunAssumption
  <1>10. ModeType'
    BY <1>1, <1>9 DEF ChildInv, ModeType
  <1>11. EverySampled'
    BY <1>1, <1>8 DEF EverySampled, Before, Ended
  <1>12. PoolType'
    <2>1. Width' \in Nat
      BY <1>9 DEF Width
    <2>2. busy' \in SUBSET (1..Size') /\ Cardinality(busy') <= Width'
      BY <1>1, <1>8, <2>1, FS_EmptySet
    <2>3. tries' \in [1..Size' -> 0..Retries] /\ result' \in [1..Size' -> {NoResult, ErrorResult} \cup Outcome]
      BY <1>1, <1>8, Zenon DEF ChildInv, PoolType
    <2> QED BY <1>1, <1>8, <2>2, <2>3 DEF PoolType
  <1>13. LinesFollow'
    BY <1>1, <1>8 DEF ChildInv, LinesFollow, Ended
  <1> QED BY <1>7, <1>10, <1>11, <1>12, <1>13 DEF ChildInv

LEMMA SampleKeeps ==
  ASSUME ChildInv, Sample
  PROVE  ChildInv'
  <1>1. /\ pc = "sample" /\ sample' \in sample_personas_by_bucket
        /\ tries' = [i \in DOMAIN sample' |-> 0] /\ result' = [i \in DOMAIN sample' |-> NoResult]
        /\ pc' = IF sample' = <<>> THEN "failed" ELSE "batch"
        /\ UNCHANGED <<mode, personas, busy, partial, file, summary>>
    BY DEF Sample
  <1>2. /\ sample' \in Seq(personas) /\ Distinct(sample')
        /\ \A p \in personas : \E k \in 1..Len(sample') : sample'[k] = p
    BY <1>1, SampleIs DEF ChildInv
  <1>3. Len(sample') \in Nat /\ DOMAIN sample' = 1..Len(sample') /\ Size' = Len(sample')
    BY <1>2 DEF Size
  <1>4. Size = 0 /\ busy = {} /\ Len(partial) = 0 /\ Len(partial) <= Size'
    BY <1>1, <1>3 DEF ChildInv, EverySampled, PoolType, LinesFollow, Size
  <1>5. ModeType'
    BY <1>1 DEF ChildInv, ModeType, Over
  <1>6. PersonasAreLines'
    BY <1>1 DEF ChildInv, PersonasAreLines
  <1>7. EverySampled'
    <2>1. sample' \in Seq(personas')
      BY <1>1, <1>2
    <2>2. Distinct(sample)' /\ \A p \in personas' : \E k \in 1..Size' : sample'[k] = p
      BY <1>1, <1>2, <1>3 DEF Distinct
    <2> QED BY <1>1, <2>1, <2>2 DEF EverySampled, Before
  <1>8. PoolType'
    <2>1. Width' = Width
      BY <1>1 DEF Width, Pooled
    <2>2. busy' \in SUBSET (1..Size') /\ Cardinality(busy') <= Width'
      BY <1>1, <1>4, <2>1 DEF ChildInv, PoolType
    <2>3. tries' \in [1..Size' -> 0..Retries]
      BY <1>1, <1>3, RunAssumption
    <2>4. result' \in [1..Size' -> {NoResult, ErrorResult} \cup Outcome]
      BY <1>1, <1>3
    <2> QED BY <1>1, <1>4, <2>2, <2>3, <2>4 DEF PoolType
  <1>9. LinesFollow'
    BY <1>1, <1>4 DEF ChildInv, LinesFollow, Ended
  <1> QED BY <1>5, <1>6, <1>7, <1>8, <1>9 DEF ChildInv

\* The least of a set of numbers.
LEMMA LeastIs ==
  ASSUME NEW S \in SUBSET Nat, IsFiniteSet(S), S # {}
  PROVE  Min(S) \in S
  <1> DEFINE A == Ascending(S)
  <1>1. /\ \A m, n \in 1..Cardinality(S) : m < n => A[m] < A[n]
        /\ \A k \in S : Rank(k, S) \in 1..Cardinality(S) /\ A[Rank(k, S)] = k
        /\ A \in [1..Cardinality(S) -> S] /\ Cardinality(S) \in Nat
    BY AscendingEnumerates
  <1> HIDE DEF A
  <1>2. 1 \in 1..Cardinality(S)
    <2>1. PICK k \in S : TRUE
      OBVIOUS
    <2>2. Rank(k, S) \in 1..Cardinality(S)
      BY <1>1
    <2> QED BY <1>1, <2>2
  <1>3. \A y \in S : A[1] <= y
    <2> TAKE y \in S
    <2>1. A[1] \in Nat /\ y \in Nat
      BY <1>1, <1>2
    <2>2. Rank(y, S) = 1 \/ 1 < Rank(y, S)
      BY <1>1
    <2> QED BY <1>1, <1>2, <2>1, <2>2
  <1>4. \E x \in S : \A y \in S : x <= y
    BY <1>1, <1>2, <1>3
  <1> QED BY <1>4 DEF Min

\* The batch: the next personas of the sample.
LEMMA BatchIs ==
  ASSUME ChildInv
  PROVE  /\ Size \in Nat /\ Len(partial) \in Nat
         /\ Batch \in SUBSET (1..Size) /\ IsFiniteSet(Batch)
         /\ Cardinality(Batch) \in Nat /\ Len(partial) + Cardinality(Batch) <= Size
         /\ \A k \in 1..Cardinality(Batch) : Len(partial) + k \in Batch
  <1> DEFINE from == Len(partial)
             to == Smaller(from + BatchSize, Size)
  <1>1. Size \in Nat /\ from \in Nat /\ from <= Size
    BY DEF ChildInv, EverySampled, LinesFollow, Size
  <1>2. to \in Nat /\ from <= to /\ to <= Size
    BY <1>1, RunAssumption DEF Smaller
  <1>3. Batch = (from + 1)..to
    BY DEF Batch
  <1> HIDE DEF from, to
  <1>4. IsFiniteSet((from + 1)..to) /\ Cardinality((from + 1)..to) = to - from
    <2>1. from + 1 \in Int /\ to \in Int
      BY <1>1, <1>2
    <2>2. IsFiniteSet((from + 1)..to) /\ Cardinality((from + 1)..to) = IF from + 1 > to THEN 0 ELSE to - (from + 1) + 1
      BY <2>1, FS_Interval
    <2> QED BY <1>1, <1>2, <2>2
  <1>5. \A k \in 1..(to - from) : from + k \in (from + 1)..to
    BY <1>1, <1>2
  <1>6. (from + 1)..to \in SUBSET (1..Size)
    BY <1>1, <1>2
  <1>7. to - from \in Nat /\ from + (to - from) <= Size
    BY <1>1, <1>2
  <1> QED BY <1>1, <1>3, <1>4, <1>5, <1>6, <1>7 DEF from

LEMMA TakeKeeps ==
  ASSUME ChildInv, Take
  PROVE  ChildInv'
  <1>1. /\ pc' = pc /\ Cardinality(busy) < Width /\ Waiting # {} /\ busy' = busy \cup {Min(Waiting)}
        /\ UNCHANGED <<mode, personas, sample, tries, result, partial, file, summary>> /\ pc = "batch"
    BY DEF Take, evaluationUnchanged
  <1>2. Size' = Size /\ Width' = Width
    BY <1>1 DEF Size, Width, Pooled
  <1>3. Waiting \in SUBSET (1..Size) /\ Size \in Nat
    BY BatchIs DEF Waiting
  <1>4. IsFiniteSet(1..Size) /\ IsFiniteSet(Waiting) /\ Waiting \in SUBSET Nat
    <2>1. IsFiniteSet(1..Size)
      BY <1>3, OneTo
    <2>2. IsFiniteSet(Waiting)
      BY <1>3, <2>1, FS_Subset
    <2>3. 1..Size \in SUBSET Nat
      BY <1>3
    <2> QED BY <1>3, <2>1, <2>2, <2>3
  <1>5. Min(Waiting) \in 1..Size
    BY <1>1, <1>3, <1>4, LeastIs
  <1>6. IsFiniteSet(busy) /\ Cardinality(busy) \in Nat /\ Width \in Nat
    <2>1. busy \in SUBSET (1..Size)
      BY DEF ChildInv, PoolType
    <2>2. IsFiniteSet(busy)
      BY <1>4, <2>1, FS_Subset
    <2>3. Cardinality(busy) \in Nat
      BY <2>2, FS_CardinalityType
    <2>4. Width \in Nat
      BY DEF ChildInv, ModeType, Width
    <2> QED BY <2>2, <2>3, <2>4
  <1>7. Cardinality(busy') <= Cardinality(busy) + 1
    BY <1>1, <1>6, FS_AddElement
  <1>8. Cardinality(busy') \in Nat
    BY <1>1, <1>6, FS_AddElement, FS_CardinalityType
  <1>9. PoolType'
    <2>1. busy' \in SUBSET (1..Size') /\ Cardinality(busy') <= Width'
      <3>1. busy \in SUBSET (1..Size)
        BY DEF ChildInv, PoolType
      <3>2. busy' \in SUBSET (1..Size)
        BY <1>1, <1>5, <3>1
      <3>3. Cardinality(busy') <= Width
        BY <1>1, <1>6, <1>7, <1>8
      <3> QED BY <1>2, <3>2, <3>3
    <2>2. tries' \in [1..Size' -> 0..Retries] /\ result' \in [1..Size' -> {NoResult, ErrorResult} \cup Outcome]
      BY <1>1, <1>2, Zenon DEF ChildInv, PoolType
    <2> QED BY <1>1, <2>1, <2>2 DEF PoolType, Before
  <1>10. ModeType' /\ PersonasAreLines' /\ LinesFollow'
    BY <1>1, <1>2 DEF ChildInv, ModeType, PersonasAreLines, LinesFollow
  <1>11. EverySampled'
    BY <1>1, <1>2 DEF ChildInv, EverySampled, Distinct
  <1> QED BY <1>9, <1>10, <1>11 DEF ChildInv

LEMMA FullScoreType == FullScore \in Nat
  BY DEF FullScore

\* A weighted score lies between 0 and 100 points.
LEMMA SumsAreInRange ==
  ASSUME NEW t, \A m \in Metrics : t[m] \in 0..100
  PROVE  weighted_sum(t) \in 0..FullScore
  <1>1. /\ DEFAULT_METRIC_WEIGHTS.interest = 25 /\ DEFAULT_METRIC_WEIGHTS.click_intent = 25
        /\ DEFAULT_METRIC_WEIGHTS.purchase_intent = 35 /\ DEFAULT_METRIC_WEIGHTS.trust = 15
    BY DEF DEFAULT_METRIC_WEIGHTS
  <1>2. {"interest", "click_intent", "purchase_intent", "trust"} \subseteq Metrics
    BY DEF Metrics, DEFAULT_METRIC_WEIGHTS
  <1>3. t.interest \in 0..100 /\ t.click_intent \in 0..100 /\ t.purchase_intent \in 0..100 /\ t.trust \in 0..100
    BY <1>2
  <1>4. weighted_sum(t) = 25 * t.interest + 25 * t.click_intent + 35 * t.purchase_intent + 15 * t.trust
    BY <1>1 DEF weighted_sum
  <1>5. weighted_sum(t) \in Int /\ 0 <= weighted_sum(t) /\ weighted_sum(t) <= FullScore
    <2>1. PICK w \in 0..100, x \in 0..100, y \in 0..100, z \in 0..100 :
            w = t.interest /\ x = t.click_intent /\ y = t.purchase_intent /\ z = t.trust
      BY <1>3
    <2>2. weighted_sum(t) = 25 * w + 25 * x + 35 * y + 15 * z
      BY <1>4, <2>1
    <2>3. /\ 25 * w + 25 * x + 35 * y + 15 * z \in Int /\ 0 <= 25 * w + 25 * x + 35 * y + 15 * z
          /\ 25 * w + 25 * x + 35 * y + 15 * z <= 10000
      OBVIOUS
    <2> QED BY <2>2, <2>3 DEF FullScore
  <1> QED BY <1>5, FullScoreType

LEMMA MarginsAreInRange ==
  ASSUME NEW a \in 0..FullScore, NEW b \in 0..FullScore
  PROVE  confidence_from_margin(a, b) \in 0..FullScore
  BY FullScoreType DEF confidence_from_margin, Distance, Smaller

\* Whatever numbers a valid answer of the LLM gives, what is kept of it is in range.
LEMMA ScoredIsOutcome ==
  ASSUME NEW a \in Answers, a.form = "object", ~Invalid(a)
  PROVE  Scored(a) \in Outcome
  <1> DEFINE t(arm) == [m \in Metrics |-> clamp(a.scores[arm][m])]
  <1>1. a.winner \in Arms /\ a.reason \in Reasons
    BY DEF Invalid, Reasons
  <1>2. ASSUME NEW arm \in Arms PROVE weighted_sum(t(arm)) \in 0..FullScore
    <2>1. arm \in DOMAIN a.scores /\ Metrics \subseteq DOMAIN a.scores[arm]
      BY DEF Invalid
    <2>2. \A m \in Metrics : a.scores[arm][m] \in Int
      BY <2>1, AnswerAssumption
    <2>3. \A x \in Int : clamp(x) \in 0..100
      BY DEF clamp
    <2>4. \A m \in Metrics : t(arm)[m] \in 0..100
      BY <2>2, <2>3
    <2> HIDE DEF t
    <2> QED BY <2>4, SumsAreInRange
  <1> DEFINE sumA == weighted_sum(t("A"))
             sumB == weighted_sum(t("B"))
  <1> HIDE DEF t
  <1>3. sumA \in 0..FullScore /\ sumB \in 0..FullScore
    BY <1>2 DEF Arms
  <1>4. Scored(a) = [winner |-> a.winner, A |-> sumA, B |-> sumB, confidence |-> confidence_from_margin(sumA, sumB), reason |-> a.reason]
    BY Zenon DEF Scored, t
  <1> HIDE DEF sumA, sumB
  <1>5. confidence_from_margin(sumA, sumB) \in 0..FullScore
    BY <1>3, MarginsAreInRange
  <1> QED BY <1>1, <1>3, <1>4, <1>5 DEF Outcome

LEMMA MockIsOutcome ==
  ASSUME NEW s \in MockScores
  PROVE  evaluate_with_mock(s, "mock") \in Outcome
  <1> DEFINE sumA == weighted_sum(s.A)
             sumB == weighted_sum(s.B)
  <1>1. \A arm \in Arms : \A m \in Metrics : s[arm][m] \in 0..100
    <2>1. 30..100 \subseteq 0..100
      OBVIOUS
    <2> QED BY <2>1, AnswerAssumption
  <1>2. \A arm \in Arms : weighted_sum(s[arm]) \in 0..FullScore
    <2> TAKE arm \in Arms
    <2> QED BY <1>1, SumsAreInRange
  <1>3. sumA \in 0..FullScore /\ sumB \in 0..FullScore
    BY <1>2 DEF Arms
  <1>4. evaluate_with_mock(s, "mock")
          = [winner |-> IF sumA >= sumB THEN "A" ELSE "B", A |-> sumA, B |-> sumB, confidence |-> confidence_from_margin(sumA, sumB), reason |-> "mock"]
    BY DEF evaluate_with_mock
  <1> HIDE DEF sumA, sumB
  <1>5. confidence_from_margin(sumA, sumB) \in 0..FullScore
    BY <1>3, MarginsAreInRange
  <1>6. (IF sumA >= sumB THEN "A" ELSE "B") \in Arms
    BY DEF Arms
  <1>7. "mock" \in Reasons
    BY DEF Reasons
  <1>8. PICK w \in Arms, c \in 0..FullScore, r \in Reasons :
          evaluate_with_mock(s, "mock") = [winner |-> w, A |-> sumA, B |-> sumB, confidence |-> c, reason |-> r]
    BY <1>4, <1>5, <1>6, <1>7, Zenon
  <1> QED BY <1>3, <1>8 DEF Outcome

LEMMA AttemptKeeps ==
  ASSUME ChildInv, NEW i \in busy, Attempt(i)
  PROVE  ChildInv'
  <1> DEFINE O == {NoResult, ErrorResult} \cup Outcome
  <1>1. /\ pc = "batch" /\ (pc' = pc \/ pc' = "failed")
        /\ UNCHANGED <<mode, personas, sample, partial, file, summary>>
    BY DEF Attempt, MockAnswers, Answered, AttemptFails, AttemptRaises, evaluationUnchanged
  <1>2. Size' = Size /\ Width' = Width
    BY <1>1 DEF Size, Width, Pooled
  <1>3. /\ busy \in SUBSET (1..Size) /\ Cardinality(busy) <= Width
        /\ tries \in [1..Size -> 0..Retries] /\ result \in [1..Size -> O]
    BY DEF ChildInv, PoolType
  <1>4. 1..Size \subseteq Nat /\ IsFiniteSet(1..Size)
    BY BatchIs, OneTo
  <1>5. IsFiniteSet(busy) /\ Cardinality(busy) \in Nat
    <2>1. IsFiniteSet(busy)
      BY <1>3, <1>4, FS_Subset
    <2> QED BY <2>1, FS_CardinalityType
  <1>6. Width \in Nat /\ Retries \in Nat
    BY RunAssumption DEF ChildInv, ModeType, Width
  <1>7. \/ \E o \in O : End(i, o)
        \/ tries[i] < Retries /\ tries' = [tries EXCEPT ![i] = @ + 1] /\ UNCHANGED <<result, busy>>
    <2>1. CASE MockAnswers(i)
      BY <2>1, MockIsOutcome DEF MockAnswers
    <2>2. CASE Answered(i)
      BY <2>2, ScoredIsOutcome DEF Answered
    <2>3. CASE AttemptFails(i)
      BY <2>3 DEF AttemptFails
    <2>4. CASE AttemptRaises(i)
      BY <2>4 DEF AttemptRaises
    <2> QED BY <2>1, <2>2, <2>3, <2>4 DEF Attempt
  <1> HIDE DEF O
  <1>8. /\ busy' \in SUBSET (1..Size) /\ Cardinality(busy') <= Width
        /\ tries' \in [1..Size -> 0..Retries] /\ result' \in [1..Size -> O]
    <2>1. CASE \E o \in O : End(i, o)
      <3>1. PICK o \in O : End(i, o)
        BY <2>1
      <3>2. busy' = busy \ {i} /\ tries' = [tries EXCEPT ![i] = 0] /\ result' = [result EXCEPT ![i] = o]
        BY <3>1 DEF End
      <3>3. Cardinality(busy') = Cardinality(busy) - 1
        BY <1>5, <3>2, FS_RemoveElement
      <3>4. Cardinality(busy') <= Width
        BY <1>3, <1>5, <1>6, <3>3
      <3>5. tries' \in [1..Size -> 0..Retries]
        BY <1>3, <1>6, <3>2
      <3>6. result' \in [1..Size -> O]
        BY <1>3, <3>2
      <3> QED BY <1>3, <3>2, <3>4, <3>5, <3>6
    <2>2. CASE tries[i] < Retries /\ tries' = [tries EXCEPT ![i] = @ + 1] /\ UNCHANGED <<result, busy>>
      <3>1. i \in 1..Size /\ tries[i] \in 0..Retries
        BY <1>3
      <3>2. tries[i] + 1 \in 0..Retries
        BY <1>6, <2>2, <3>1
      <3> QED BY <1>3, <2>2, <3>2
    <2> QED BY <1>7, <2>1, <2>2
  <1>9. PoolType'
    BY <1>1, <1>2, <1>8, Zenon DEF PoolType, O, Before
  <1>10. ModeType' /\ PersonasAreLines'
    BY <1>1 DEF ChildInv, ModeType, PersonasAreLines, Over
  <1>11. LinesFollow'
    BY <1>1, <1>2 DEF ChildInv, LinesFollow, Ended
  <1>12. EverySampled'
    BY <1>1, <1>2 DEF ChildInv, EverySampled, Distinct, Before, Ended
  <1> QED BY <1>9, <1>10, <1>11, <1>12 DEF ChildInv

\* The line of a persona that was answered, or not.
LEMMA LineIs ==
  ASSUME ChildInv, pc = "batch", NEW i \in 1..Size, result[i] # NoResult
  PROVE  Line(i) \in ErrorLine \cup GoodLine /\ Line(i).id = sample[i].id
  <1>1. sample[i] \in personas
    BY DEF ChildInv, EverySampled, Size
  <1>2. sample[i].id \in Nat /\ bucket(sample[i]) \in Buckets
    BY <1>1, EveryAgeHasBucket DEF ChildInv, PersonasAreLines, bucket
  <1>3. CASE result[i] = ErrorResult
    <2>1. Line(i) = [id |-> sample[i].id, bucket |-> bucket(sample[i]), error |-> TRUE]
      BY <1>3 DEF Line
    <2> QED BY <1>2, <2>1 DEF ErrorLine
  <1>4. CASE result[i] # ErrorResult
    <2>1. result[i] \in Outcome
      BY <1>4 DEF ChildInv, PoolType
    <2>2. Line(i) = [id |-> sample[i].id, bucket |-> bucket(sample[i]), error |-> FALSE,
                     winner |-> result[i].winner, A |-> result[i].A, B |-> result[i].B,
                     confidence |-> result[i].confidence, reason |-> result[i].reason]
      BY <1>4 DEF Line
    <2>3. /\ result[i].winner \in Arms /\ result[i].A \in 0..FullScore /\ result[i].B \in 0..FullScore
          /\ result[i].confidence \in 0..FullScore /\ result[i].reason \in Reasons
      BY <2>1 DEF Outcome
    <2> QED BY <1>2, <2>2, <2>3 DEF GoodLine
  <1> QED BY <1>3, <1>4

LEMMA EndBatchKeeps ==
  ASSUME ChildInv, EndBatch
  PROVE  ChildInv'
  <1> DEFINE N == Cardinality(Batch)
             L == ErrorLine \cup GoodLine
             T == [k \in 1..N |-> Line(Len(partial) + k)]
  <1>1. /\ pc = "batch" /\ partial' = partial \o T /\ result' = [i \in DOMAIN result |-> NoResult]
        /\ pc' = IF Len(partial') = Size THEN "aggregate" ELSE "batch"
        /\ \A i \in Batch : result[i] # NoResult
        /\ UNCHANGED <<mode, personas, sample, busy, tries, file, summary>>
    BY DEF EndBatch, evaluationUnchanged
  <1>2. Size' = Size /\ Width' = Width
    BY <1>1 DEF Size, Width, Pooled
  <1>3. /\ Size \in Nat /\ Len(partial) \in Nat /\ Batch \in SUBSET (1..Size) /\ N \in Nat /\ Len(partial) + N <= Size
        /\ \A k \in 1..N : Len(partial) + k \in Batch
    BY BatchIs
  <1>4. partial \in Seq(L) /\ \A k \in 1..Len(partial) : partial[k].id = sample[k].id
    BY DEF ChildInv, LinesFollow
  <1>5. \A k \in 1..N : Line(Len(partial) + k) \in L /\ Line(Len(partial) + k).id = sample[Len(partial) + k].id
    BY <1>1, <1>3, LineIs
  <1> HIDE DEF N, L
  <1>6. T \in Seq(L) /\ Len(T) = N /\ \A k \in 1..N : T[k].id = sample[Len(partial) + k].id
    <2>1. T \in [1..N -> L] /\ \A k \in 1..N : T[k] = Line(Len(partial) + k)
      BY <1>5
    <2>2. T \in Seq(L) /\ Len(T) = N
      BY <1>3, <2>1
    <2> QED BY <1>5, <2>1, <2>2
  <1> HIDE DEF T
  <1>7. /\ partial' \in Seq(L) /\ Len(partial') = Len(partial) + N
        /\ \A k \in 1..Len(partial') : partial'[k] = IF k <= Len(partial) THEN partial[k] ELSE T[k - Len(partial)]
    BY <1>1, <1>3, <1>4, <1>6
  <1>8. \A k \in 1..Len(partial') : partial'[k].id = sample[k].id
    <2> TAKE k \in 1..Len(partial')
    <2>1. CASE k <= Len(partial)
      BY <1>3, <1>4, <1>7, <2>1
    <2>2. CASE ~(k <= Len(partial))
      <3>1. k - Len(partial) \in 1..N /\ Len(partial) + (k - Len(partial)) = k
        BY <1>3, <1>7, <2>2
      <3> QED BY <1>6, <1>7, <2>2, <3>1
    <2> QED BY <2>1, <2>2
  <1>9. LinesFollow'
    BY <1>1, <1>2, <1>3, <1>7, <1>8 DEF LinesFollow, L, Ended
  <1>10. PoolType'
    <2>1. result' \in [1..Size' -> {NoResult, ErrorResult} \cup Outcome]
      BY <1>1, <1>2 DEF ChildInv, PoolType
    <2>2. busy' \in SUBSET (1..Size') /\ Cardinality(busy') <= Width' /\ tries' \in [1..Size' -> 0..Retries]
      BY <1>1, <1>2 DEF ChildInv, PoolType
    <2>3. pc' \notin Before \cup {"sample"}
      BY <1>1 DEF Before
    <2> QED BY <2>1, <2>2, <2>3 DEF PoolType
  <1>11. ModeType'
    BY <1>1 DEF ChildInv, ModeType, Ended
  <1>12. PersonasAreLines'
    BY <1>1 DEF ChildInv, PersonasAreLines
  <1>13. EverySampled'
    BY <1>1, <1>2 DEF ChildInv, EverySampled, Distinct, Before, Ended
  <1> QED BY <1>9, <1>10, <1>11, <1>12, <1>13 DEF ChildInv

\* The retrieval stays in its own part of run_validator.
LEMMA RetrievalStays == Retrieve => pc \in Before /\ pc' \in Before
  <1> SUFFICES ASSUME Retrieve PROVE pc \in Before /\ pc' \in Before
    OBVIOUS
  <1>1. CASE QueryBucket
    BY <1>1 DEF QueryBucket, Before
  <1>2. CASE MergeBuckets
    BY <1>2 DEF MergeBuckets, AfterQueries, Before
  <1>3. CASE SingleQuery
    BY <1>3 DEF SingleQuery, AfterQueries, Before
  <1>4. CASE ScanPage
    BY <1>4 DEF ScanPage, Before
  <1> QED
    BY <1>1, <1>2, <1>3, <1>4
    DEF Retrieve, retrieve_personas_balanced_chroma, retrieve_personas_balanced_langchain,
        retrieve_personas_chroma_single, retrieve_personas_langchain

LEMMA ChildNext == RetrievalInv /\ ChildInv /\ [Next]_vars => ChildInv'
  <1> SUFFICES ASSUME RetrievalInv, ChildInv, [Next]_vars PROVE ChildInv'
    OBVIOUS
  <1>1. /\ "error" \in Files \cup {"none", "error"} /\ {"torn", "new"} \subseteq Files
        /\ file \in Files /\ summary \in Files \cup {"none", "error"}
    BY DEF ChildInv, ModeType, Files
  <1>2. CASE RetrieveStep
    BY <1>1, <1>2, RestKeeps, RetrievalStays DEF RetrieveStep, childVars
  <1>3. CASE NobodyFound
    BY <1>1, <1>3, RestKeeps DEF NobodyFound, childVars, Over
  <1>4. CASE Spawn
    BY <1>4, SpawnKeeps
  <1>5. CASE Sample
    BY <1>5, SampleKeeps
  <1>6. CASE run_campaign
    BY <1>6, TakeKeeps, AttemptKeeps, EndBatchKeeps DEF run_campaign, Evaluate
  <1>7. CASE OpenReport
    BY <1>1, <1>7, RestKeeps DEF OpenReport, childVars, Ended
  <1>8. CASE WriteReport
    BY <1>1, <1>8, RestKeeps DEF WriteReport, childVars, Ended
  <1>9. CASE WriteText
    BY <1>1, <1>9, RestKeeps DEF WriteText, childVars, Ended
  <1>10. CASE ChildDies
    BY <1>1, <1>10, RestKeeps DEF ChildDies, Over
  <1>11. CASE Timeout
    BY <1>1, <1>11, RestKeeps DEF Timeout, Over
  <1>12. CASE Raise
    BY <1>1, <1>12, RestKeeps DEF Raise, childVars, Over
  <1>13. CASE Return
    BY <1>1, <1>13, RestKeeps DEF Return, childVars, Over
  <1>14. CASE UNCHANGED vars
    BY <1>1, <1>14, RestKeeps DEF vars, childVars, retrievalVars
  <1> QED
    BY <1>2, <1>3, <1>4, <1>5, <1>6, <1>7, <1>8, <1>9, <1>10, <1>11, <1>12, <1>13, <1>14
       DEF Next, run_validator, main, Done

\* The counters of the retrieval.
CountersType == bkt \in 1..Len(AGE_BUCKETS) + 1 /\ offset <= Len(index)

LEMMA CountersStart == Init => CountersType
  <1> SUFFICES ASSUME Init PROVE CountersType
    OBVIOUS
  <1>1. bkt = 1 /\ offset = 0 /\ Len(index) \in Nat
    BY RetrievalAssumption DEF Init, RetrievalInit
  <1> QED BY <1>1, FourBuckets DEF CountersType

LEMMA CountersNext == RetrievalInv /\ CountersType /\ [Next]_vars => CountersType'
  <1> SUFFICES ASSUME RetrievalInv, CountersType, [Next]_vars PROVE CountersType'
    OBVIOUS
  <1>1. CASE RetrieveStep
    <2>1. CASE QueryBucket
      BY <2>1, FourBuckets DEF QueryBucket, CountersType
    <2>2. CASE MergeBuckets \/ SingleQuery
      BY <2>2 DEF MergeBuckets, SingleQuery, CountersType
    <2>3. CASE ScanPage
      <3>1. bkt' = bkt /\ index' = index /\ (offset' = offset \/ pc' = "page")
        BY <2>3 DEF ScanPage
      <3>2. CASE pc' = "page"
        <4>1. RetrievalInv'
          BY RetrievalNext
        <4>2. offset' \in Nat /\ offset' <= Len(Matching')
          BY <3>2, <4>1 DEF RetrievalInv, RunData, Scanned
        <4>3. Matching' = Matching
          BY <2>3, SameRows DEF ScanPage
        <4>4. index \in Seq(Row)
          BY DEF RetrievalInv, RunData
        <4>5. Matching \in Seq(DOMAIN index) /\ Len(Matching) <= Len(index)
          BY <4>4, MatchingIs
        <4>6. Len(Matching) \in Nat /\ Len(index) \in Nat
          BY <4>4, <4>5
        <4>7. offset' <= Len(index')
          BY <3>1, <4>2, <4>3, <4>5, <4>6
        <4> QED BY <3>1, <4>7 DEF CountersType
      <3> QED BY <3>1, <3>2 DEF CountersType
    <2> QED
      BY <1>1, <2>1, <2>2, <2>3
      DEF RetrieveStep, Retrieve, retrieve_personas_balanced_chroma, retrieve_personas_balanced_langchain,
          retrieve_personas_chroma_single, retrieve_personas_langchain
  <1>2. CASE NobodyFound \/ Spawn
    <2>1. bkt' = 1 /\ offset' = 0 /\ index' = <<>>
      BY <1>2 DEF NobodyFound, Spawn, ForgetRetrieval
    <2> QED BY <2>1, FourBuckets DEF CountersType
  <1>3. CASE Sample
    BY <1>3 DEF Sample, CountersType
  <1>4. CASE run_campaign
    BY <1>4 DEF run_campaign, Evaluate, Take, Attempt, EndBatch, evaluationUnchanged, CountersType
  <1>5. CASE OpenReport \/ WriteReport \/ WriteText
    BY <1>5 DEF OpenReport, WriteReport, WriteText, CountersType
  <1>6. CASE ChildDies \/ Timeout \/ Raise \/ Return
    BY <1>6 DEF ChildDies, Timeout, Raise, Return, CountersType
  <1>7. CASE UNCHANGED vars
    BY <1>7 DEF vars, retrievalVars, CountersType
  <1> QED
    BY <1>1, <1>2, <1>3, <1>4, <1>5, <1>6, <1>7 DEF Next, run_validator, main, Done

ValidatorInv == RetrievalInv /\ CountersType /\ ChildInv

LEMMA TypesFollow == ValidatorInv => TypeOK
  <1> SUFFICES ASSUME ValidatorInv PROVE TypeOK
    OBVIOUS
  <1>1. RetrievalTypeOK
    <2>1. req \in Request /\ index \in Seq(Row) /\ offset \in Nat
      BY RetrievalAssumption DEF ValidatorInv, RetrievalInv, RunData
    <2>2. offset \in 0..Len(index) /\ bkt \in 1..Len(AGE_BUCKETS) + 1
      BY <2>1 DEF ValidatorInv, CountersType
    <2> QED BY <2>1, <2>2 DEF ValidatorInv, RetrievalInv, FoundFits, RowsAreKept, RetrievalTypeOK
  <1>2. /\ busy \subseteq 1..Size /\ Cardinality(busy) <= Width /\ tries \in [1..Size -> 0..Retries]
        /\ \A i \in DOMAIN result : result[i] \in {NoResult, ErrorResult} \/ result[i] \in Outcome
    BY DEF ValidatorInv, ChildInv, PoolType
  <1>3. sample \in Seq(personas) /\ Len(partial) <= Size
    BY DEF ValidatorInv, ChildInv, EverySampled, LinesFollow
  <1>4. /\ pc \in {"query", "page", "retrieved", "sample", "batch", "aggregate", "write", "text", "failed", "exited", "done"}
        /\ file \in Files /\ summary \in Files \cup {"none", "error"}
    BY DEF ValidatorInv, ChildInv, ModeType, Before, Ended, Over
  <1> QED BY <1>1, <1>2, <1>3, <1>4 DEF TypeOK

\* For every size of the index, the batches and the pool: no more personas are asked at
\* once than eval_concurrency allows, none is tried more often than --retries says, and
\* whatever numbers an LLM answers, the scores kept of it lie between 0 and 100 points
\* (ab_validator.py: run_campaign, clamp, weighted_sum).
THEOREM ValidatorTypeCorrect == Spec => []TypeOK
  <1>1. Init => ValidatorInv
    BY RetrievalStarts, CountersStart, ChildInit DEF ValidatorInv
  <1>2. ValidatorInv /\ [Next]_vars => ValidatorInv'
    BY RetrievalNext, CountersNext, ChildNext DEF ValidatorInv
  <1> QED BY <1>1, <1>2, TypesFollow, PTL DEF Spec

-----------------------------------------------------------------------------
(* Nobody is lost between the sample and the report.                        *)

LEMMA SummaryCounts ==
  ASSUME NEW D, NEW s \in Seq(D)
  PROVE  summarize_rows(s).count = Len(s)
  <1>1. CASE Len(s) = 0
    BY <1>1 DEF summarize_rows
  <1>2. CASE Len(s) # 0
    BY <1>2 DEF summarize_rows
  <1> QED BY <1>1, <1>2

LEMMA DisjointCounts ==
  ASSUME NEW S, NEW T, IsFiniteSet(S), IsFiniteSet(T), S \cap T = {}
  PROVE  IsFiniteSet(S \cup T) /\ Cardinality(S \cup T) = Cardinality(S) + Cardinality(T)
  <1>1. Cardinality(S) \in Nat /\ Cardinality(T) \in Nat
    BY FS_CardinalityType
  <1>2. Cardinality(S \cap T) = 0
    BY FS_EmptySet
  <1>3. IsFiniteSet(S \cup T) /\ Cardinality(S \cup T) = Cardinality(S) + Cardinality(T) - Cardinality(S \cap T)
    BY FS_Union
  <1> QED BY <1>1, <1>2, <1>3

\* The rows of one bucket.
OfBucket(r, b) == {k \in DOMAIN r : r[k].bucket = b}

\* Every row is of one bucket.
LEMMA BucketsPartition ==
  ASSUME NEW r \in Seq(GoodLine)
  PROVE  /\ \A b \in Buckets : OfBucket(r, b) \in SUBSET (1..Len(r)) /\ Cardinality(OfBucket(r, b)) \in Nat
         /\ Cardinality(OfBucket(r, 1)) + Cardinality(OfBucket(r, 2)) + Cardinality(OfBucket(r, 3)) + Cardinality(OfBucket(r, 4))
              = Len(r)
  <1> DEFINE P(b) == OfBucket(r, b)
  <1>1. Len(r) \in Nat /\ DOMAIN r = 1..Len(r) /\ \A k \in 1..Len(r) : r[k].bucket \in {1, 2, 3, 4}
    <2>1. \A x \in GoodLine : x.bucket \in Buckets
      BY DEF GoodLine
    <2>2. \A k \in 1..Len(r) : r[k] \in GoodLine
      OBVIOUS
    <2>3. Len(r) \in Nat /\ DOMAIN r = 1..Len(r)
      OBVIOUS
    <2> QED BY <2>1, <2>2, <2>3, FourBuckets
  <1>2. \A b : P(b) \in SUBSET (1..Len(r))
    BY <1>1 DEF OfBucket
  <1>3. IsFiniteSet(1..Len(r)) /\ Cardinality(1..Len(r)) = Len(r)
    BY <1>1, OneTo
  <1>4. \A b : IsFiniteSet(P(b)) /\ Cardinality(P(b)) \in Nat
    BY <1>2, <1>3, FS_Subset, FS_CardinalityType
  <1>5. /\ P(1) \cap P(2) = {} /\ (P(1) \cup P(2)) \cap P(3) = {} /\ ((P(1) \cup P(2)) \cup P(3)) \cap P(4) = {}
        /\ ((P(1) \cup P(2)) \cup P(3)) \cup P(4) = 1..Len(r)
    BY <1>1 DEF OfBucket
  <1> HIDE DEF P
  <1>7. IsFiniteSet(P(1) \cup P(2)) /\ Cardinality(P(1) \cup P(2)) = Cardinality(P(1)) + Cardinality(P(2))
    BY <1>4, <1>5, DisjointCounts
  <1>8. /\ IsFiniteSet((P(1) \cup P(2)) \cup P(3))
        /\ Cardinality((P(1) \cup P(2)) \cup P(3)) = Cardinality(P(1) \cup P(2)) + Cardinality(P(3))
    BY <1>4, <1>5, <1>7, DisjointCounts
  <1>9. Cardinality(((P(1) \cup P(2)) \cup P(3)) \cup P(4)) = Cardinality((P(1) \cup P(2)) \cup P(3)) + Cardinality(P(4))
    BY <1>4, <1>5, <1>8, DisjointCounts
  <1>10. Cardinality(P(1)) + Cardinality(P(2)) + Cardinality(P(3)) + Cardinality(P(4)) = Len(r)
    BY <1>3, <1>4, <1>5, <1>7, <1>8, <1>9
  <1> QED BY <1>2, <1>4, <1>10 DEF P

\* The report counts every row, once in its bucket and once in all.
LEMMA ReportCounts ==
  ASSUME NEW r \in Seq(GoodLine)
  PROVE  LET R == aggregate_results(r)
             count(b) == R.summary_by_bucket[b].count
         IN  R.overall.count = Len(r) /\ count(1) + count(2) + count(3) + count(4) = Len(r)
  <1> DEFINE of(b) == At(r, OfBucket(r, b))
             R == aggregate_results(r)
  <1>1. \A b \in Buckets : of(b) \in Seq(GoodLine) /\ Len(of(b)) = Cardinality(OfBucket(r, b)) /\ Len(of(b)) \in Nat
    <2> TAKE b \in Buckets
    <2>1. OfBucket(r, b) \in SUBSET (1..Len(r))
      BY BucketsPartition
    <2> QED BY <2>1, AtIs
  <1>2. R.overall = summarize_rows(((of(1) \o of(2)) \o of(3)) \o of(4))
    BY DEF aggregate_results, OfBucket
  <1>3. R.summary_by_bucket = [b \in Buckets |-> summarize_rows(of(b))]
    BY DEF aggregate_results, OfBucket
  <1> HIDE DEF of, R
  <1>4. \A b \in Buckets : R.summary_by_bucket[b].count = Len(of(b))
    BY <1>1, <1>3, SummaryCounts
  <1>5. /\ ((of(1) \o of(2)) \o of(3)) \o of(4) \in Seq(GoodLine)
        /\ Len(((of(1) \o of(2)) \o of(3)) \o of(4)) = Len(of(1)) + Len(of(2)) + Len(of(3)) + Len(of(4))
    <2>1. of(1) \in Seq(GoodLine) /\ of(2) \in Seq(GoodLine) /\ of(3) \in Seq(GoodLine) /\ of(4) \in Seq(GoodLine)
      BY <1>1, FourBuckets
    <2>2. of(1) \o of(2) \in Seq(GoodLine) /\ Len(of(1) \o of(2)) = Len(of(1)) + Len(of(2))
      BY <2>1
    <2>3. /\ (of(1) \o of(2)) \o of(3) \in Seq(GoodLine)
          /\ Len((of(1) \o of(2)) \o of(3)) = Len(of(1) \o of(2)) + Len(of(3))
      BY <2>1, <2>2
    <2>4. /\ ((of(1) \o of(2)) \o of(3)) \o of(4) \in Seq(GoodLine)
          /\ Len(((of(1) \o of(2)) \o of(3)) \o of(4)) = Len((of(1) \o of(2)) \o of(3)) + Len(of(4))
      BY <2>1, <2>3
    <2> QED BY <2>2, <2>3, <2>4
  <1>6. Len(of(1)) + Len(of(2)) + Len(of(3)) + Len(of(4)) = Len(r)
    BY <1>1, FourBuckets, BucketsPartition
  <1>7. R.overall.count = Len(r)
    BY <1>2, <1>5, <1>6, SummaryCounts
  <1>8. R.summary_by_bucket[1].count + R.summary_by_bucket[2].count + R.summary_by_bucket[3].count + R.summary_by_bucket[4].count = Len(r)
    BY <1>4, <1>6, FourBuckets
  <1> QED BY <1>7, <1>8 DEF R

LEMMA GoodIsRows == ValidatorInv => Good \in Seq(GoodLine)
  <1> SUFFICES ASSUME ValidatorInv PROVE Good \in Seq(GoodLine)
    OBVIOUS
  <1> DEFINE S == {k \in DOMAIN partial : ~partial[k].error}
  <1>1. partial \in Seq(ErrorLine \cup GoodLine) /\ S \in SUBSET (1..Len(partial))
    BY DEF ValidatorInv, ChildInv, LinesFollow
  <1>2. \A k \in S : partial[k] \in GoodLine
    <2>1. \A x \in ErrorLine : x.error = TRUE
      BY DEF ErrorLine
    <2>2. \A k \in S : ~partial[k].error /\ partial[k] \in ErrorLine \cup GoodLine
      BY <1>1
    <2> QED BY <2>1, <2>2
  <1>3. Good = At(partial, S)
    BY DEF Good
  <1> HIDE DEF S
  <1>4. Good \in Seq(ErrorLine \cup GoodLine) /\ \A n \in 1..Len(Good) : \E k \in S : Good[n] = partial[k]
    BY <1>1, <1>3, AtIs
  <1>5. \A n \in 1..Len(Good) : Good[n] \in GoodLine
    BY <1>2, <1>4
  <1> QED BY <1>4, <1>5

LEMMA EveryoneIsCounted == ValidatorInv => EveryPersonaCounted
  <1> SUFFICES ASSUME ValidatorInv PROVE EveryPersonaCounted
    OBVIOUS
  <1>1. ASSUME pc \in Ended
        PROVE  Len(partial) = Cardinality(personas) /\ {partial[k].id : k \in DOMAIN partial} = {p.id : p \in personas}
    <2>1. /\ sample \in Seq(personas) /\ Distinct(sample) /\ \A p \in personas : \E k \in 1..Len(sample) : sample[k] = p
          /\ Len(partial) = Len(sample) /\ DOMAIN partial = 1..Len(partial)
          /\ \A k \in 1..Len(partial) : partial[k].id = sample[k].id
      BY <1>1 DEF ValidatorInv, ChildInv, EverySampled, LinesFollow, Size
    <2>2. Cardinality(personas) = Len(sample)
      BY <2>1, DistinctCounts
    <2>3. \A k \in 1..Len(sample) : sample[k] \in personas
      BY <2>1
    <2>4. {partial[k].id : k \in DOMAIN partial} = {sample[k].id : k \in 1..Len(sample)}
      BY <2>1
    <2>5. {sample[k].id : k \in 1..Len(sample)} = {p.id : p \in personas}
      BY <2>1, <2>3
    <2> QED BY <2>1, <2>2, <2>4, <2>5
  <1>2. Good \in Seq(GoodLine)
    BY GoodIsRows
  <1>3. /\ Report.overall.count = Len(Good)
        /\ Report.summary_by_bucket[1].count + Report.summary_by_bucket[2].count
             + Report.summary_by_bucket[3].count + Report.summary_by_bucket[4].count = Len(Good)
    BY <1>2, ReportCounts DEF Report
  <1> QED BY <1>1, <1>3 DEF EveryPersonaCounted, Ended

\* For every index, filter, sizes of batch and pool, and order in which the threads end:
\* each persona retrieved has its line in partial.jsonl, and the report counts every line
\* without an error, once in its age bucket and once in all
\* (sample_personas_by_bucket, run_campaign, aggregate_results).
THEOREM NobodyIsLost == Spec => []EveryPersonaCounted
  <1>1. Init => ValidatorInv
    BY RetrievalStarts, CountersStart, ChildInit DEF ValidatorInv
  <1>2. ValidatorInv /\ [Next]_vars => ValidatorInv'
    BY RetrievalNext, CountersNext, ChildNext DEF ValidatorInv
  <1> QED BY <1>1, <1>2, EveryoneIsCounted, PTL DEF Spec

-----------------------------------------------------------------------------
(* The report.                                                              *)

\* The child reaches its end only over a report it has written, so exit code 0
\* vouches for the file, whatever lay there before.
ExitVouches == pc \in {"text", "exited"} => file = "new"

Inv == ExitVouches /\ ReportIsOfThisRun

-----------------------------------------------------------------------------
LEMMA ReportInit == Init => Inv
  BY DEF Init, RetrievalInit, Inv, ExitVouches, ReportIsOfThisRun, Files

LEMMA ReportNext == Inv /\ [Next]_vars => Inv'
  <1> SUFFICES ASSUME Inv, [Next]_vars PROVE Inv'
    OBVIOUS
  <1> USE DEF Inv, ExitVouches, ReportIsOfThisRun, Files
  <1>1. CASE RetrieveStep
    BY <1>1, RetrievalStays DEF RetrieveStep, Before
  <1>2. CASE NobodyFound \/ Spawn
    BY <1>2 DEF NobodyFound, Spawn
  <1>3. CASE Sample
    BY <1>3 DEF Sample
  <1>4. CASE run_campaign
    <2>1. UNCHANGED <<file, summary>> /\ pc' \in {"batch", "failed", "aggregate"}
      BY <1>4 DEF run_campaign, Evaluate, Take, Attempt, MockAnswers, Answered, AttemptFails, AttemptRaises,
                  EndBatch, evaluationUnchanged
    <2> QED BY <2>1
  <1>5. CASE OpenReport \/ WriteReport \/ WriteText
    BY <1>5 DEF OpenReport, WriteReport, WriteText
  <1>6. CASE ChildDies \/ Timeout
    BY <1>6 DEF ChildDies, Timeout
  <1>7. CASE Raise \/ Return
    BY <1>7 DEF Raise, Return
  <1>8. CASE UNCHANGED vars
    BY <1>8 DEF vars, retrievalVars
  <1> QED
    BY <1>1, <1>2, <1>3, <1>4, <1>5, <1>6, <1>7, <1>8 DEF Next, run_validator, main, Done

-----------------------------------------------------------------------------
\* A summary comes from a report that this run wrote to its end, never from one that
\* an earlier job of the same id left behind or from a torn one, whatever the index,
\* the answers and the sizes are, and wherever the child dies or is killed
\* (run_validator looks at the exit code before it reads job_<id>.report.json).
THEOREM SummaryIsOfThisRun == Spec => []ReportIsOfThisRun
  <1>1. Inv => ReportIsOfThisRun
    BY DEF Inv
  <1> QED BY <1>1, ReportInit, ReportNext, PTL DEF Spec

-----------------------------------------------------------------------------
(* What a step after the other leads to.                                   *)

\* A set that holds 0, and with each number the next, is all of 0..N: else there is a
\* least one that is missing.
LEMMA LeastMissing ==
  ASSUME NEW N \in Nat, NEW S \in SUBSET (0..N), 0 \in S, \A k \in 1..N : k - 1 \in S => k \in S
  PROVE  S = 0..N
  <1> SUFFICES ASSUME (0..N) \ S # {} PROVE FALSE
    OBVIOUS
  <1> DEFINE M == (0..N) \ S
  <1>1. IsFiniteSet(M) /\ M \in SUBSET Nat
    <2>1. IsFiniteSet(0..N)
      BY FS_Interval
    <2> QED BY <2>1, FS_Subset
  <1>2. PICK m \in M : \A k \in M : m <= k
    <2> DEFINE A == Ascending(M)
               C == Cardinality(M)
    <2> HIDE DEF M
    <2>1. /\ C \in Nat /\ A \in [1..C -> M]
          /\ \A i, j \in 1..C : i < j => A[i] < A[j]
          /\ \A k \in M : Rank(k, M) \in 1..C /\ A[Rank(k, M)] = k
      BY <1>1, AscendingEnumerates
    <2> HIDE DEF A, C
    <2>2. 1 \in 1..C
      <3>1. PICK k \in M : TRUE
        BY DEF M
      <3> QED BY <2>1, <3>1
    <2>3. \A y \in M : A[1] <= y
      <3> TAKE y \in M
      <3>1. A[1] \in Nat /\ y \in Nat
        BY <1>1, <2>1, <2>2
      <3>2. Rank(y, M) = 1 \/ 1 < Rank(y, M)
        BY <2>1
      <3> QED BY <2>1, <2>2, <3>1, <3>2
    <2> QED BY <2>1, <2>2, <2>3
  <1>3. m # 0 /\ m - 1 \in 0..N /\ m - 1 \notin M
    BY <1>2
  <1> QED BY <1>2, <1>3

\* A step function that is applied n times, from a first value on.
Iterated(g, n, D, base, step) == g \in [0..n -> D] /\ g[0] = base /\ \A k \in 1..n : g[k] = step[k][g[k - 1]]

LEMMA Iterates ==
  ASSUME NEW D, NEW N \in Nat, NEW base \in D, NEW step \in [1..N -> [D -> D]]
  PROVE  \E g : Iterated(g, N, D, base, step)
  <1> DEFINE Path(n, g) == g \in [0..n -> D] /\ g[0] = base /\ \A k \in 1..n : g[k] = step[k][g[k - 1]]
             S == {n \in 0..N : \E g : Path(n, g)}
  <1>1. 0 \in S
    <2> DEFINE first == [k \in 0..0 |-> base]
    <2>1. Path(0, first)
      OBVIOUS
    <2>2. 0 \in 0..N
      OBVIOUS
    <2> HIDE DEF Path, first
    <2> QED BY <2>1, <2>2
  <1>2. ASSUME NEW n \in 1..N, n - 1 \in S PROVE n \in S
    <2>1. PICK g : Path(n - 1, g)
      BY <1>2
    <2> DEFINE h == [k \in 0..n |-> IF k = n THEN step[n][g[n - 1]] ELSE g[k]]
    <2>2. step[n] \in [D -> D] /\ g[n - 1] \in D
      BY <2>1
    <2>3. h \in [0..n -> D] /\ h[0] = base
      BY <2>1, <2>2
    <2>4. \A k \in 1..n : h[k] = step[k][h[k - 1]]
      BY <2>1
    <2> HIDE DEF h
    <2>5. Path(n, h)
      BY <2>3, <2>4
    <2> QED BY <2>5
  <1>3. S = 0..N
    <2> HIDE DEF S
    <2>1. S \in SUBSET (0..N)
      BY DEF S
    <2> QED BY <1>1, <1>2, <2>1, LeastMissing
  <1>4. \E g : Path(N, g)
    BY <1>3
  <1> QED BY <1>4 DEF Iterated

-----------------------------------------------------------------------------
(* Sums.                                                                    *)

LEMMA SumsExist ==
  ASSUME NEW N \in Nat, NEW v, \A k \in 1..N : v[k] \in Int
  PROVE  \E g \in [0..N -> Int] : g[0] = 0 /\ \A k \in 1..N : g[k] = g[k - 1] + v[k]
  <1> DEFINE step == [k \in 1..N |-> [x \in Int |-> x + v[k]]]
  <1>1. step \in [1..N -> [Int -> Int]] /\ 0 \in Int
    OBVIOUS
  <1>2. \A k \in 1..N, x \in Int : step[k][x] = x + v[k]
    OBVIOUS
  <1> HIDE DEF step
  <1>3. PICK g : Iterated(g, N, Int, 0, step)
    BY <1>1, Iterates
  <1>4. \A k \in 1..N : k - 1 \in 0..N
    OBVIOUS
  <1>5. \A k \in 1..N : g[k - 1] \in Int
    BY <1>3, <1>4 DEF Iterated
  <1>6. \A k \in 1..N : g[k] = g[k - 1] + v[k]
    BY <1>2, <1>3, <1>5 DEF Iterated
  <1> QED BY <1>3, <1>6 DEF Iterated

\* The recursive function of sum() is the one that adds up.
LEMMA SumsAre ==
  ASSUME NEW v \in Seq(Int)
  PROVE  /\ Len(v) \in Nat /\ Sums(v) \in [0..Len(v) -> Int] /\ Sums(v)[0] = 0
         /\ \A k \in 1..Len(v) : v[k] \in Int /\ Sums(v)[k] = Sums(v)[k - 1] + v[k]
  <1> DEFINE P(h) == h = [k \in 0..Len(v) |-> IF k = 0 THEN 0 ELSE h[k - 1] + v[k]]
  <1>1. Len(v) \in Nat /\ \A k \in 1..Len(v) : v[k] \in Int
    OBVIOUS
  <1>2. PICK g \in [0..Len(v) -> Int] : g[0] = 0 /\ \A k \in 1..Len(v) : g[k] = g[k - 1] + v[k]
    <2> HIDE DEF P
    <2> QED BY <1>1, SumsExist
  <1>3. \A k \in 1..Len(v) : k - 1 \in 0..Len(v)
    BY <1>1
  <1>4. P(g)
    <2>1. \A k \in 0..Len(v) : g[k] = IF k = 0 THEN 0 ELSE g[k - 1] + v[k]
      BY <1>1, <1>2, <1>3
    <2> QED BY <1>2, <2>1
  <1>5. Sums(v) = CHOOSE h : P(h)
    BY DEF Sums
  <1>6. P(Sums(v))
    <2> HIDE DEF P
    <2> QED BY <1>4, <1>5
  <1> DEFINE f == Sums(v)
             T == {k \in 0..Len(v) : f[k] = g[k]}
  <1>7. \A k \in 0..Len(v) : f[k] = IF k = 0 THEN 0 ELSE f[k - 1] + v[k]
    BY <1>6
  <1>8. DOMAIN f = 0..Len(v) /\ f = [k \in 0..Len(v) |-> f[k]]
    BY <1>6
  <1> HIDE DEF f, P
  <1>9. T = 0..Len(v)
    <2>1. 0 \in T
      BY <1>1, <1>2, <1>7
    <2>2. \A k \in 1..Len(v) : k - 1 \in T => k \in T
      BY <1>1, <1>2, <1>3, <1>7
    <2> QED BY <1>1, <2>1, <2>2, LeastMissing
  <1>10. f \in [0..Len(v) -> Int]
    BY <1>2, <1>8, <1>9
  <1>11. \A k \in 1..Len(v) : f[k] = f[k - 1] + v[k]
    BY <1>1, <1>7
  <1> QED BY <1>1, <1>7, <1>10, <1>11 DEF f

\* Whatever begins with 0 and grows by the same numbers is the sum.
Accumulates(g, v) == g[0] = 0 /\ \A k \in 1..Len(v) : g[k - 1] \in Int => g[k] = g[k - 1] + v[k]

LEMMA SumsOnly ==
  ASSUME NEW v \in Seq(Int), NEW g, Accumulates(g, v)
  PROVE  g[Len(v)] = Sums(v)[Len(v)]
  <1> DEFINE T == {k \in 0..Len(v) : g[k] = Sums(v)[k]}
  <1>1. /\ Len(v) \in Nat /\ Sums(v) \in [0..Len(v) -> Int] /\ Sums(v)[0] = 0
        /\ \A k \in 1..Len(v) : v[k] \in Int /\ Sums(v)[k] = Sums(v)[k - 1] + v[k]
    BY SumsAre
  <1>2. 0 \in T
    BY <1>1 DEF Accumulates
  <1>3. \A k \in 1..Len(v) : k - 1 \in T => k \in T
    BY <1>1 DEF Accumulates
  <1>4. T = 0..Len(v)
    BY <1>1, <1>2, <1>3, LeastMissing
  <1> QED BY <1>1, <1>4

Sum(v) == Sums(v)[Len(v)]

\* Joined sequences add up to both sums.
LEMMA SumOfBoth ==
  ASSUME NEW u \in Seq(Int), NEW v \in Seq(Int)
  PROVE  Sum(u) \in Int /\ Sum(u \o v) = Sum(u) + Sum(v)
  <1> DEFINE M == Len(u)
             N == Len(v)
             A == Sums(u)
             B == Sums(v)
             w == u \o v
             g == [k \in 0..(M + N) |-> IF k <= M THEN A[k] ELSE A[M] + B[k - M]]
  <1>1. M \in Nat /\ A \in [0..M -> Int] /\ A[0] = 0 /\ \A k \in 1..M : u[k] \in Int /\ A[k] = A[k - 1] + u[k]
    BY SumsAre
  <1>2. N \in Nat /\ B \in [0..N -> Int] /\ B[0] = 0 /\ \A k \in 1..N : v[k] \in Int /\ B[k] = B[k - 1] + v[k]
    BY SumsAre
  <1>3. /\ w \in Seq(Int) /\ Len(w) = M + N
        /\ \A k \in 1..(M + N) : w[k] = IF k <= M THEN u[k] ELSE v[k - M]
    OBVIOUS
  <1>4. Sum(u) = A[M] /\ Sum(v) = B[N]
    BY DEF Sum
  <1> HIDE DEF M, N, A, B, w
  <1>5. \A k \in 0..M : g[k] = A[k]
    BY <1>1, <1>2
  <1>6. A[M] \in Int /\ \A k \in 0..N : B[k] \in Int /\ g[M + k] = A[M] + B[k]
    <2>1. A[M] \in Int /\ \A k \in 0..N : B[k] \in Int
      BY <1>1, <1>2
    <2>2. g[M + 0] = A[M] + B[0]
      BY <1>1, <1>2, <2>1
    <2>3. ASSUME NEW k \in 1..N PROVE g[M + k] = A[M] + B[k]
      <3>1. M + k \in 0..(M + N) /\ ~(M + k <= M) /\ (M + k) - M = k
        BY <1>1, <1>2
      <3> QED BY <3>1
    <2>4. \A k \in 0..N : k = 0 \/ k \in 1..N
      BY <1>2
    <2> QED BY <2>1, <2>2, <2>3, <2>4
  <1> HIDE DEF g
  <1>7. ASSUME NEW k \in 1..(M + N), g[k - 1] \in Int PROVE g[k] = g[k - 1] + w[k]
    <2>1. CASE k <= M
      <3>1. k \in 1..M /\ k - 1 \in 0..M /\ k \in 0..M
        BY <1>1, <1>2, <2>1
      <3> QED BY <1>1, <1>3, <1>5, <2>1, <3>1
    <2>2. CASE k > M
      <3>1. PICK j \in 1..N : k = M + j /\ j - 1 \in 0..N /\ k - 1 = M + (j - 1) /\ k - M = j
        <4>1. k - M \in 1..N /\ k = M + (k - M) /\ (k - M) - 1 \in 0..N /\ k - 1 = M + ((k - M) - 1)
          BY <1>1, <1>2, <2>2
        <4> QED BY <4>1
      <3>2. g[k] = A[M] + B[j] /\ g[k - 1] = A[M] + B[j - 1] /\ w[k] = v[j]
        <4>1. g[M + j] = A[M] + B[j]
          BY <1>2, <1>6
        <4>2. \A i \in 0..N : g[M + i] = A[M] + B[i]
          BY <1>6
        <4>3. g[M + (j - 1)] = A[M] + B[j - 1]
          BY <3>1, <4>2
        <4>4. ~(k <= M)
          BY <1>1, <2>2
        <4> QED BY <1>3, <3>1, <4>1, <4>4, <4>3
      <3>3. B[j] = B[j - 1] + v[j] /\ B[j - 1] \in Int /\ v[j] \in Int
        BY <1>2, <3>1
      <3> QED BY <1>6, <3>2, <3>3
    <2> QED BY <1>1, <1>2, <2>1, <2>2
  <1>8. Accumulates(g, w)
    <2>1. g[0] = 0
      BY <1>1, <1>5
    <2> QED BY <1>3, <1>7, <2>1 DEF Accumulates
  <1>9. g[M + N] = Sum(w)
    BY <1>3, <1>8, SumsOnly DEF Sum
  <1>10. g[M + N] = A[M] + B[N]
    BY <1>2, <1>6
  <1> QED BY <1>4, <1>6, <1>9, <1>10 DEF w

\* The rank grows by one at the members.
LEMMA RankSteps ==
  ASSUME NEW N \in Nat, NEW S \in SUBSET (1..N)
  PROVE  /\ Rank(0, S) = 0 /\ Rank(N, S) = Cardinality(S) /\ Cardinality(S) \in Nat
         /\ \A k \in 0..N : Rank(k, S) \in 0..Cardinality(S)
         /\ \A k \in 1..N : Rank(k, S) = Rank(k - 1, S) + (IF k \in S THEN 1 ELSE 0)
  <1> DEFINE Upto(k) == {m \in S : m <= k}
  <1>1. \A m \in S : m \in Int /\ 1 <= m /\ m <= N
    OBVIOUS
  <1>2. IsFiniteSet(S) /\ Cardinality(S) \in Nat
    <2>1. IsFiniteSet(1..N)
      BY OneTo
    <2> QED BY <2>1, FS_Subset, FS_CardinalityType
  <1>3. \A k : IsFiniteSet(Upto(k)) /\ Cardinality(Upto(k)) \in Nat /\ Cardinality(Upto(k)) <= Cardinality(S)
    <2> TAKE k
    <2>1. Upto(k) \in SUBSET S
      OBVIOUS
    <2> QED BY <1>2, <2>1, FS_Subset, FS_CardinalityType
  <1>4. Rank(0, S) = 0
    <2>1. Upto(0) = {}
      <3>1. \A m \in S : ~(m <= 0)
        BY <1>1
      <3> QED BY <3>1
    <2> QED BY <2>1, FS_EmptySet DEF Rank
  <1>5. Rank(N, S) = Cardinality(S)
    <2>1. Upto(N) = S
      BY <1>1
    <2> QED BY <2>1 DEF Rank
  <1>6. ASSUME NEW k \in 1..N PROVE Rank(k, S) = Rank(k - 1, S) + (IF k \in S THEN 1 ELSE 0)
    <2>1. CASE k \in S
      <3>1. Upto(k) = Upto(k - 1) \cup {k} /\ k \notin Upto(k - 1)
        <4>1. \A m \in S : m <= k <=> (m <= k - 1 \/ m = k)
          BY <1>1
        <4>2. k \in S /\ k <= k /\ ~(k <= k - 1)
          BY <2>1
        <4> QED BY <4>1, <4>2
      <3> HIDE DEF Upto
      <3>2. Cardinality(Upto(k - 1) \cup {k}) = Cardinality(Upto(k - 1)) + 1
        BY <1>3, <3>1, FS_AddElement
      <3> QED BY <2>1, <3>1, <3>2 DEF Rank, Upto
    <2>2. CASE k \notin S
      <3>1. Upto(k) = Upto(k - 1)
        <4>1. \A m \in S : m <= k <=> m <= k - 1
          BY <1>1, <2>2
        <4> QED BY <4>1
      <3> HIDE DEF Upto
      <3>2. Cardinality(Upto(k)) = Cardinality(Upto(k - 1)) + 0
        BY <1>3, <3>1
      <3> QED BY <2>2, <3>2 DEF Rank, Upto
    <2> QED BY <2>1, <2>2
  <1>7. \A k \in 0..N : Rank(k, S) \in 0..Cardinality(S)
    BY <1>2, <1>3 DEF Rank
  <1> QED BY <1>2, <1>4, <1>5, <1>6, <1>7

\* A chosen element has its rank as its place.
LEMMA AtRank ==
  ASSUME NEW D, NEW s \in Seq(D), NEW S \in SUBSET (1..Len(s))
  PROVE  \A k \in S : At(s, S)[Rank(k, S)] = s[k]
  <1>1. S \in SUBSET Nat /\ IsFiniteSet(S)
    <2>1. Len(s) \in Nat
      OBVIOUS
    <2>2. IsFiniteSet(1..Len(s))
      BY <2>1, OneTo
    <2>3. S \in SUBSET Nat
      OBVIOUS
    <2>4. IsFiniteSet(S)
      BY <2>2, FS_Subset
    <2> QED BY <2>3, <2>4
  <1> DEFINE A == Ascending(S)
  <1>2. At(s, S) = [n \in DOMAIN A |-> s[A[n]]]
    BY DEF At
  <1>3. /\ A \in [1..Cardinality(S) -> S]
        /\ \A k \in S : Rank(k, S) \in 1..Cardinality(S) /\ A[Rank(k, S)] = k
    BY <1>1, AscendingEnumerates
  <1> HIDE DEF A
  <1> QED BY <1>2, <1>3

\* What the chosen ones among the first k add up to.
Part(v, S, k) == Sums(At(v, S))[Rank(k, S)]

\* It grows by the elements that are chosen.
LEMMA PartGrows ==
  ASSUME NEW v \in Seq(Int), NEW S \in SUBSET (1..Len(v))
  PROVE  /\ Part(v, S, 0) = 0 /\ Part(v, S, Len(v)) = Sum(At(v, S))
         /\ \A k \in 0..Len(v) : Part(v, S, k) \in Int
         /\ \A k \in 1..Len(v) : Part(v, S, k) = Part(v, S, k - 1) + (IF k \in S THEN v[k] ELSE 0)
  <1> DEFINE N == Len(v)
             C == Cardinality(S)
             P == At(v, S)
             F == Sums(P)
             R(k) == Rank(k, S)
  <1>1. N \in Nat /\ C \in Nat /\ S \in SUBSET (1..N) /\ \A k \in 1..N : v[k] \in Int
    BY AtIs
  <1>2. P \in Seq(Int) /\ Len(P) = C /\ \A k \in S : P[R(k)] = v[k]
    BY AtIs, AtRank
  <1>3. F \in [0..C -> Int] /\ F[0] = 0 /\ \A k \in 1..C : F[k] = F[k - 1] + P[k]
    <2>1. \A k \in 1..Len(P) : P[k] \in Int /\ F[k] = F[k - 1] + P[k]
      BY <1>2, SumsAre
    <2> QED BY <1>2, <2>1, SumsAre
  <1>4. /\ R(0) = 0 /\ R(N) = C
        /\ \A k \in 0..N : R(k) \in 0..C
        /\ \A k \in 1..N : R(k) = R(k - 1) + (IF k \in S THEN 1 ELSE 0)
    <2> HIDE DEF N
    <2> QED BY <1>1, RankSteps
  <1>5. \A k : Part(v, S, k) = F[R(k)]
    BY DEF Part
  <1>6. Sum(At(v, S)) = F[C]
    BY <1>2 DEF Sum
  <1> HIDE DEF N, C, P, F, R
  <1>7. \A k \in 0..N : Part(v, S, k) \in Int
    BY <1>3, <1>4, <1>5
  <1>8. ASSUME NEW k \in 1..N PROVE Part(v, S, k) = Part(v, S, k - 1) + (IF k \in S THEN v[k] ELSE 0)
    <2>1. k - 1 \in 0..N /\ k \in 0..N
      BY <1>1
    <2>2. CASE k \in S
      <3>1. R(k) \in 0..C /\ R(k - 1) \in 0..C /\ R(k) = R(k - 1) + 1
        BY <1>4, <2>1, <2>2
      <3>2. R(k) \in 1..C /\ R(k) - 1 = R(k - 1)
        BY <1>1, <3>1
      <3>3. F[R(k)] = F[R(k) - 1] + P[R(k)]
        BY <1>3, <3>2
      <3> QED BY <1>2, <1>5, <2>2, <3>2, <3>3
    <2>3. CASE k \notin S
      <3>1. R(k) \in 0..C /\ R(k - 1) \in 0..C /\ R(k) = R(k - 1) + 0
        BY <1>4, <2>1, <2>3
      <3>2. R(k) = R(k - 1)
        BY <3>1
      <3>3. Part(v, S, k) = Part(v, S, k - 1) /\ Part(v, S, k - 1) \in Int
        BY <1>5, <1>7, <2>1, <3>2
      <3> QED BY <2>3, <3>3
    <2> QED BY <2>2, <2>3
  <1>9. Part(v, S, 0) = 0 /\ Part(v, S, N) = Sum(At(v, S))
    BY <1>3, <1>4, <1>5, <1>6
  <1> QED BY <1>7, <1>8, <1>9 DEF N

\* Every position is in one of four sets: the parts add up to the whole.
InOneOf(W, N) == /\ W[1] \cup W[2] \cup W[3] \cup W[4] = 1..N
                 /\ \A b, c \in 1..4 : b # c => W[b] \cap W[c] = {}

LEMMA SumOfParts ==
  ASSUME NEW v \in Seq(Int), NEW W, InOneOf(W, Len(v))
  PROVE  /\ \A b \in 1..4 : Sum(At(v, W[b])) \in Int
         /\ Sum(v) = Sum(At(v, W[1])) + Sum(At(v, W[2])) + Sum(At(v, W[3])) + Sum(At(v, W[4]))
  <1> DEFINE N == Len(v)
             T(b) == Sum(At(v, W[b]))
             P(b, k) == Part(v, W[b], k)
             g == [k \in 0..N |-> P(1, k) + P(2, k) + P(3, k) + P(4, k)]
  <1>1. N \in Nat /\ \A k \in 1..N : v[k] \in Int
    OBVIOUS
  <1>2. \A b \in 1..4 : W[b] \in SUBSET (1..N)
    BY DEF InOneOf
  <1>3. ASSUME NEW b \in 1..4
        PROVE  /\ P(b, 0) = 0 /\ P(b, N) = T(b)
               /\ \A k \in 0..N : P(b, k) \in Int
               /\ \A k \in 1..N : P(b, k) = P(b, k - 1) + (IF k \in W[b] THEN v[k] ELSE 0)
    BY <1>2, PartGrows
  <1>4. 1 \in 1..4 /\ 2 \in 1..4 /\ 3 \in 1..4 /\ 4 \in 1..4
    OBVIOUS
  <1>5. ASSUME NEW k \in 1..N
        PROVE  \/ k \in W[1] /\ k \notin W[2] /\ k \notin W[3] /\ k \notin W[4]
               \/ k \notin W[1] /\ k \in W[2] /\ k \notin W[3] /\ k \notin W[4]
               \/ k \notin W[1] /\ k \notin W[2] /\ k \in W[3] /\ k \notin W[4]
               \/ k \notin W[1] /\ k \notin W[2] /\ k \notin W[3] /\ k \in W[4]
    <2>1. k \in W[1] \/ k \in W[2] \/ k \in W[3] \/ k \in W[4]
      BY DEF InOneOf
    <2>2. /\ W[1] \cap W[2] = {} /\ W[1] \cap W[3] = {} /\ W[1] \cap W[4] = {}
          /\ W[2] \cap W[3] = {} /\ W[2] \cap W[4] = {} /\ W[3] \cap W[4] = {}
      BY DEF InOneOf
    <2> QED BY <2>1, <2>2
  <1> HIDE DEF N, T, P
  <1>6. g[0] = 0
    <2>1. P(1, 0) = 0 /\ P(2, 0) = 0 /\ P(3, 0) = 0 /\ P(4, 0) = 0 /\ 0 \in 0..N
      BY <1>1, <1>3, <1>4
    <2> QED BY <2>1
  <1>7. g[N] = T(1) + T(2) + T(3) + T(4)
    <2>1. P(1, N) = T(1) /\ P(2, N) = T(2) /\ P(3, N) = T(3) /\ P(4, N) = T(4) /\ N \in 0..N
      BY <1>1, <1>3, <1>4
    <2> QED BY <2>1
  <1>8. ASSUME NEW k \in 1..N PROVE g[k] = g[k - 1] + v[k]
    <2>1. k \in 0..N /\ k - 1 \in 0..N /\ v[k] \in Int
      BY <1>1
    <2>2. /\ g[k] = P(1, k) + P(2, k) + P(3, k) + P(4, k)
          /\ g[k - 1] = P(1, k - 1) + P(2, k - 1) + P(3, k - 1) + P(4, k - 1)
      BY <2>1
    <2>3. P(1, k - 1) \in Int /\ P(2, k - 1) \in Int /\ P(3, k - 1) \in Int /\ P(4, k - 1) \in Int
      BY <1>3, <1>4, <2>1
    <2>4. /\ P(1, k) = P(1, k - 1) + (IF k \in W[1] THEN v[k] ELSE 0)
          /\ P(2, k) = P(2, k - 1) + (IF k \in W[2] THEN v[k] ELSE 0)
          /\ P(3, k) = P(3, k - 1) + (IF k \in W[3] THEN v[k] ELSE 0)
          /\ P(4, k) = P(4, k - 1) + (IF k \in W[4] THEN v[k] ELSE 0)
      BY <1>3, <1>4
    <2> HIDE DEF g
    <2>5. PICK a \in Int, b \in Int, c \in Int, d \in Int :
            a = P(1, k - 1) /\ b = P(2, k - 1) /\ c = P(3, k - 1) /\ d = P(4, k - 1)
      BY <2>3
    <2>6. PICK w \in Int : w = v[k]
      BY <2>1
    <2>7. g[k - 1] = a + b + c + d
      BY <2>2, <2>5
    <2>8. CASE k \in W[1]
      <3>1. P(1, k) = a + w /\ P(2, k) = b + 0 /\ P(3, k) = c + 0 /\ P(4, k) = d + 0
        BY <1>5, <2>4, <2>5, <2>6, <2>8
      <3>2. g[k] = (a + b + c + d) + w
        BY <2>2, <3>1
      <3> QED BY <2>6, <2>7, <3>2
    <2>9. CASE k \in W[2]
      <3>1. P(1, k) = a + 0 /\ P(2, k) = b + w /\ P(3, k) = c + 0 /\ P(4, k) = d + 0
        BY <1>5, <2>4, <2>5, <2>6, <2>9
      <3>2. g[k] = (a + b + c + d) + w
        BY <2>2, <3>1
      <3> QED BY <2>6, <2>7, <3>2
    <2>10. CASE k \in W[3]
      <3>1. P(1, k) = a + 0 /\ P(2, k) = b + 0 /\ P(3, k) = c + w /\ P(4, k) = d + 0
        BY <1>5, <2>4, <2>5, <2>6, <2>10
      <3>2. g[k] = (a + b + c + d) + w
        BY <2>2, <3>1
      <3> QED BY <2>6, <2>7, <3>2
    <2>11. CASE k \in W[4]
      <3>1. P(1, k) = a + 0 /\ P(2, k) = b + 0 /\ P(3, k) = c + 0 /\ P(4, k) = d + w
        BY <1>5, <2>4, <2>5, <2>6, <2>11
      <3>2. g[k] = (a + b + c + d) + w
        BY <2>2, <3>1
      <3> QED BY <2>6, <2>7, <3>2
    <2> QED BY <1>5, <2>8, <2>9, <2>10, <2>11
  <1> HIDE DEF g
  <1>9. g[N] = Sum(v)
    <2>1. Accumulates(g, v)
      BY <1>6, <1>8 DEF Accumulates, N
    <2> QED BY <2>1, SumsOnly DEF Sum, N
  <1>10. \A b \in 1..4 : T(b) \in Int
    <2> TAKE b \in 1..4
    <2>1. N \in 0..N
      BY <1>1
    <2> QED BY <1>3, <2>1
  <1> QED BY <1>7, <1>9, <1>10 DEF T

\* A set of positions counts as many as it marks.
LEMMA SumOfMarks ==
  ASSUME NEW N \in Nat, NEW S \in SUBSET (1..N)
  PROVE  Sum([k \in 1..N |-> IF k \in S THEN 1 ELSE 0]) = Cardinality(S)
  <1> DEFINE v == [k \in 1..N |-> IF k \in S THEN 1 ELSE 0]
             g == [k \in 0..N |-> Rank(k, S)]
  <1>1. v \in Seq(Int) /\ Len(v) = N /\ \A k \in 1..N : v[k] = IF k \in S THEN 1 ELSE 0
    OBVIOUS
  <1>2. /\ Rank(0, S) = 0 /\ Rank(N, S) = Cardinality(S)
        /\ \A k \in 1..N : Rank(k, S) = Rank(k - 1, S) + (IF k \in S THEN 1 ELSE 0)
    BY RankSteps
  <1>3. \A k \in 0..N : g[k] = Rank(k, S)
    OBVIOUS
  <1> HIDE DEF v, g
  <1>4. \A k \in 1..N : k \in 0..N /\ k - 1 \in 0..N
    OBVIOUS
  <1>5. Accumulates(g, v)
    <2>1. g[0] = 0
      BY <1>2, <1>3
    <2>2. ASSUME NEW k \in 1..N PROVE g[k] = g[k - 1] + v[k]
      <3>1. g[k] = Rank(k, S) /\ g[k - 1] = Rank(k - 1, S)
        BY <1>3, <1>4
      <3>2. v[k] = IF k \in S THEN 1 ELSE 0
        BY <1>1
      <3> QED BY <1>2, <3>1, <3>2
    <2> QED BY <1>1, <2>1, <2>2 DEF Accumulates
  <1>6. g[N] = Cardinality(S)
    BY <1>2, <1>3
  <1>7. g[N] = Sum(v)
    BY <1>1, <1>5, SumsOnly DEF Sum
  <1> QED BY <1>6, <1>7 DEF v

(* What the rows of a report add up to, in any order.                       *)

Vals(s, m) == [k \in 1..Len(s) |-> m[s[k]]]
Measured(s, m) == Sum(Vals(s, m))

LEMMA ValsAre ==
  ASSUME NEW D, NEW s \in Seq(D), NEW m \in [D -> Int]
  PROVE  Vals(s, m) \in Seq(Int) /\ Len(Vals(s, m)) = Len(s) /\ \A k \in 1..Len(s) : Vals(s, m)[k] = m[s[k]]
  <1>1. Len(s) \in Nat /\ \A k \in 1..Len(s) : s[k] \in D
    OBVIOUS
  <1>2. \A k \in 1..Len(s) : m[s[k]] \in Int
    BY <1>1
  <1> QED BY <1>1, <1>2 DEF Vals

LEMMA JoinIs ==
  ASSUME NEW D, NEW u \in Seq(D), NEW v \in Seq(D)
  PROVE  /\ Len(u) \in Nat /\ Len(v) \in Nat
         /\ u \o v \in Seq(D) /\ Len(u \o v) = Len(u) + Len(v)
         /\ \A k \in 1..(Len(u) + Len(v)) : (u \o v)[k] = IF k <= Len(u) THEN u[k] ELSE v[k - Len(u)]
  OBVIOUS

LEMMA SameSequence ==
  ASSUME NEW D, NEW u \in Seq(D), NEW v \in Seq(D), Len(u) = Len(v), \A k \in 1..Len(v) : u[k] = v[k]
  PROVE  u = v
  OBVIOUS

\* Joined rows measure as both do.
LEMMA MeasureOfBoth ==
  ASSUME NEW D, NEW u \in Seq(D), NEW v \in Seq(D), NEW m \in [D -> Int]
  PROVE  u \o v \in Seq(D) /\ Measured(u, m) \in Int /\ Measured(u \o v, m) = Measured(u, m) + Measured(v, m)
  <1>1. u \o v \in Seq(D)
    OBVIOUS
  <1>2. Vals(u, m) \in Seq(Int) /\ Vals(v, m) \in Seq(Int) /\ Vals(u \o v, m) \in Seq(Int)
    BY <1>1, ValsAre
  <1>3. Vals(u \o v, m) = Vals(u, m) \o Vals(v, m)
    <2> DEFINE w == u \o v
               M == Len(u)
               N == Len(v)
    <2>1. M \in Nat /\ N \in Nat /\ Len(w) = M + N /\ \A k \in 1..(M + N) : w[k] = IF k <= M THEN u[k] ELSE v[k - M]
      OBVIOUS
    <2>2. /\ Len(Vals(u, m)) = M /\ \A k \in 1..M : Vals(u, m)[k] = m[u[k]]
          /\ Len(Vals(v, m)) = N /\ \A k \in 1..N : Vals(v, m)[k] = m[v[k]]
          /\ Len(Vals(w, m)) = Len(w) /\ \A k \in 1..Len(w) : Vals(w, m)[k] = m[w[k]]
      BY <1>1, ValsAre
    <2> HIDE DEF w, M, N
    <2>3. Len(Vals(u, m) \o Vals(v, m)) = M + N /\ Vals(u, m) \o Vals(v, m) \in Seq(Int)
      BY <1>2, <2>2, JoinIs
    <2>4. ASSUME NEW k \in 1..(M + N) PROVE Vals(w, m)[k] = (Vals(u, m) \o Vals(v, m))[k]
      <3>1. CASE k <= M
        <4>1. k \in 1..M
          BY <2>1, <3>1
        <4>2. (Vals(u, m) \o Vals(v, m))[k] = Vals(u, m)[k]
          BY <1>2, <2>1, <2>2, <3>1, JoinIs
        <4>3. Vals(w, m)[k] = m[u[k]]
          BY <2>1, <2>2, <3>1
        <4> QED BY <2>2, <4>1, <4>2, <4>3
      <3>2. CASE ~(k <= M)
        <4>1. k - M \in 1..N
          BY <2>1, <3>2
        <4>2. (Vals(u, m) \o Vals(v, m))[k] = Vals(v, m)[k - M]
          BY <1>2, <2>1, <2>2, <3>2, JoinIs
        <4>3. Vals(w, m)[k] = m[v[k - M]]
          BY <2>1, <2>2, <3>2
        <4> QED BY <2>2, <4>1, <4>2, <4>3
      <3> QED BY <3>1, <3>2
    <2>5. Vals(w, m) = Vals(u, m) \o Vals(v, m)
      <3> DEFINE x == Vals(w, m)
                 y == Vals(u, m) \o Vals(v, m)
      <3>1. x \in Seq(Int) /\ y \in Seq(Int) /\ Len(x) = Len(y) /\ \A k \in 1..Len(y) : x[k] = y[k]
        BY <1>2, <2>1, <2>2, <2>3, <2>4 DEF w
      <3> HIDE DEF x, y
      <3>2. x = y
        BY <3>1, SameSequence
      <3> QED BY <3>2 DEF x, y
    <2> QED BY <2>5 DEF w
  <1>4. Sum(Vals(u, m)) \in Int /\ Sum(Vals(u, m) \o Vals(v, m)) = Sum(Vals(u, m)) + Sum(Vals(v, m))
    BY <1>2, SumOfBoth
  <1> QED BY <1>1, <1>3, <1>4 DEF Measured

\* To choose rows and to choose their values is the same.
LEMMA ValsAt ==
  ASSUME NEW D, NEW s \in Seq(D), NEW m \in [D -> Int], NEW S \in SUBSET (1..Len(s))
  PROVE  Vals(At(s, S), m) = At(Vals(s, m), S)
  <1> DEFINE A == Ascending(S)
             C == Cardinality(S)
             v == Vals(s, m)
             p == At(s, S)
  <1>1. Len(s) \in Nat /\ S \in SUBSET Nat
    OBVIOUS
  <1>2. IsFiniteSet(S)
    <2>1. IsFiniteSet(1..Len(s))
      BY <1>1, OneTo
    <2> QED BY <2>1, FS_Subset
  <1>3. C \in Nat /\ A \in [1..C -> S]
    BY <1>1, <1>2, AscendingEnumerates
  <1>4. p \in Seq(D) /\ Len(p) = C
    BY AtIs
  <1>5. p = [n \in DOMAIN A |-> s[A[n]]] /\ At(v, S) = [n \in DOMAIN A |-> v[A[n]]]
    BY DEF At
  <1>6. \A k \in S : v[k] = m[s[k]]
    BY ValsAre
  <1>7. Vals(p, m) = [n \in 1..C |-> m[p[n]]]
    BY <1>4 DEF Vals
  <1> HIDE DEF A, C, v, p
  <1>8. \A n \in 1..C : m[p[n]] = v[A[n]]
    BY <1>3, <1>5, <1>6
  <1> QED BY <1>3, <1>5, <1>7, <1>8 DEF p, v

AllRows(r) == ((At(r, OfBucket(r, 1)) \o At(r, OfBucket(r, 2))) \o At(r, OfBucket(r, 3))) \o At(r, OfBucket(r, 4))

\* Rows measure the same bucket by bucket and in their own order.
LEMMA MeasureOfBuckets ==
  ASSUME NEW r \in Seq(GoodLine), NEW m \in [GoodLine -> Int]
  PROVE  /\ \A b \in Buckets : Measured(At(r, OfBucket(r, b)), m) \in Int
         /\ Measured(r, m) = Measured(At(r, OfBucket(r, 1)), m) + Measured(At(r, OfBucket(r, 2)), m)
                             + Measured(At(r, OfBucket(r, 3)), m) + Measured(At(r, OfBucket(r, 4)), m)
         /\ Measured(AllRows(r), m) = Measured(r, m)
         /\ AllRows(r) \in Seq(GoodLine) /\ Len(AllRows(r)) = Len(r)
  <1> DEFINE W == [b \in 1..4 |-> OfBucket(r, b)]
             of(b) == At(r, OfBucket(r, b))
             v == Vals(r, m)
             M(b) == Measured(of(b), m)
  <1>1. \A b \in Buckets : /\ OfBucket(r, b) \in SUBSET (1..Len(r))
                           /\ of(b) \in Seq(GoodLine) /\ Len(of(b)) = Cardinality(OfBucket(r, b)) /\ Len(of(b)) \in Nat
    <2> TAKE b \in Buckets
    <2>1. OfBucket(r, b) \in SUBSET (1..Len(r))
      BY BucketsPartition
    <2> QED BY <2>1, AtIs
  <1>2. v \in Seq(Int) /\ Len(v) = Len(r)
    BY ValsAre
  <1>3. InOneOf(W, Len(v))
    <2>1. DOMAIN r = 1..Len(r) /\ \A k \in 1..Len(r) : r[k].bucket \in {1, 2, 3, 4}
      <3>1. \A k \in 1..Len(r) : r[k] \in GoodLine
        OBVIOUS
      <3>2. \A x \in GoodLine : x.bucket \in Buckets
        BY DEF GoodLine
      <3>3. DOMAIN r = 1..Len(r)
        OBVIOUS
      <3> QED BY <3>1, <3>2, <3>3, FourBuckets
    <2>2. W[1] \cup W[2] \cup W[3] \cup W[4] = 1..Len(r)
      BY <2>1 DEF OfBucket
    <2>3. \A b, c \in 1..4 : b # c => W[b] \cap W[c] = {}
      BY DEF OfBucket
    <2> QED BY <1>2, <2>2, <2>3 DEF InOneOf
  <1>4. \A b \in Buckets : At(v, OfBucket(r, b)) = Vals(of(b), m)
    BY <1>1, ValsAt
  <1>5. 1 \in Buckets /\ 2 \in Buckets /\ 3 \in Buckets /\ 4 \in Buckets /\ Buckets = 1..4
    BY FourBuckets
  <1>6. \A b \in 1..4 : Sum(At(v, W[b])) = M(b)
    BY <1>4, <1>5 DEF Measured
  <1>7. /\ \A b \in 1..4 : Sum(At(v, W[b])) \in Int
        /\ Sum(v) = Sum(At(v, W[1])) + Sum(At(v, W[2])) + Sum(At(v, W[3])) + Sum(At(v, W[4]))
    <2> HIDE DEF v, W
    <2> QED BY <1>2, <1>3, SumOfParts
  <1>8. (\A b \in Buckets : M(b) \in Int) /\ Measured(r, m) = M(1) + M(2) + M(3) + M(4)
    <2>1. Measured(r, m) = Sum(v)
      BY DEF Measured
    <2> HIDE DEF v, W, M
    <2> QED BY <1>5, <1>6, <1>7, <2>1
  <1>9. /\ Measured(AllRows(r), m) = M(1) + M(2) + M(3) + M(4)
        /\ AllRows(r) \in Seq(GoodLine) /\ Len(AllRows(r)) = Len(r)
    <2> DEFINE two == of(1) \o of(2)
               three == two \o of(3)
    <2>1. AllRows(r) = three \o of(4)
      BY DEF AllRows
    <2> HIDE DEF of
    <2>2. of(1) \in Seq(GoodLine) /\ of(2) \in Seq(GoodLine) /\ of(3) \in Seq(GoodLine) /\ of(4) \in Seq(GoodLine)
      BY <1>1, <1>5
    <2>3. two \in Seq(GoodLine) /\ Measured(two, m) = M(1) + M(2) /\ Len(two) = Len(of(1)) + Len(of(2))
      BY <2>2, MeasureOfBoth, JoinIs
    <2> HIDE DEF two
    <2>4. three \in Seq(GoodLine) /\ Measured(three, m) = Measured(two, m) + M(3) /\ Len(three) = Len(two) + Len(of(3))
      <3>1. two \o of(3) \in Seq(GoodLine) /\ Measured(two \o of(3), m) = Measured(two, m) + Measured(of(3), m)
        BY <2>2, <2>3, MeasureOfBoth
      <3>2. Len(two \o of(3)) = Len(two) + Len(of(3))
        <4>1. two \in Seq(GoodLine) /\ of(3) \in Seq(GoodLine)
          BY <2>2, <2>3
        <4> QED BY <4>1
      <3> QED BY <3>1, <3>2
    <2> HIDE DEF three
    <2>5. /\ three \o of(4) \in Seq(GoodLine) /\ Measured(three \o of(4), m) = Measured(three, m) + M(4)
          /\ Len(three \o of(4)) = Len(three) + Len(of(4))
      <3>1. three \o of(4) \in Seq(GoodLine) /\ Measured(three \o of(4), m) = Measured(three, m) + Measured(of(4), m)
        BY <2>2, <2>4, MeasureOfBoth
      <3>2. Len(three \o of(4)) = Len(three) + Len(of(4))
        <4>1. three \in Seq(GoodLine) /\ of(4) \in Seq(GoodLine)
          BY <2>2, <2>4
        <4> QED BY <4>1
      <3> QED BY <3>1, <3>2
    <2>6. Len(of(1)) + Len(of(2)) + Len(of(3)) + Len(of(4)) = Len(r)
      BY <1>1, <1>5, BucketsPartition
    <2> HIDE DEF M
    <2> QED BY <2>1, <2>3, <2>4, <2>5, <2>6
  <1> QED BY <1>8, <1>9 DEF M

LEMMA RoundedBounds ==
  ASSUME NEW x \in Int, NEW n \in Nat \ {0}
  PROVE  Rounded(x, n) \in Int /\ 2 * (n * Rounded(x, n)) <= 2 * x + n /\ 2 * x < 2 * (n * Rounded(x, n)) + n
  <1> DEFINE a == 2 * x + n
             d == 2 * n
             q == a \div d
  <1>1. a \in Int /\ d \in Nat \ {0}
    OBVIOUS
  <1> HIDE DEF a, d
  <1>2. q \in Int /\ a = d * q + (a % d) /\ 0 <= a % d /\ a % d < d
    BY <1>1
  <1>3. q = Rounded(x, n)
    BY DEF Rounded, a, d
  <1> HIDE DEF q
  <1>4. PICK m \in Int : m = a % d /\ 0 <= m /\ m < 2 * n /\ a = d * q + m
    BY <1>1, <1>2 DEF d
  <1>5. d * q = 2 * (n * q) /\ n * q \in Int
    BY <1>2 DEF d
  <1>6. 2 * (n * q) + m = 2 * x + n
    BY <1>4, <1>5 DEF a
  <1> QED BY <1>2, <1>3, <1>4, <1>5, <1>6

\* Rounding hides at most one unit of the last place.
LEMMA RoundedOrder ==
  ASSUME NEW x \in Int, NEW y \in Int, NEW n \in Nat \ {0}
  PROVE  /\ Rounded(x, n) <= Rounded(y, n) => x - y < n
         /\ Rounded(y, n) + 2 <= Rounded(x, n) => x - y > n
  <1>1. PICK p \in Int : p = Rounded(x, n) /\ 2 * (n * p) <= 2 * x + n /\ 2 * x < 2 * (n * p) + n
    BY RoundedBounds
  <1>2. PICK q \in Int : q = Rounded(y, n) /\ 2 * (n * q) <= 2 * y + n /\ 2 * y < 2 * (n * q) + n
    BY RoundedBounds
  <1>3. n * p \in Int /\ n * q \in Int /\ n * (q + 2) = n * q + 2 * n
    OBVIOUS
  <1>4. p <= q => n * p <= n * q
    OBVIOUS
  <1>5. q + 2 <= p => n * (q + 2) <= n * p
    OBVIOUS
  <1> QED BY <1>1, <1>2, <1>3, <1>4, <1>5

Wins(s, arm) == Cardinality({k \in DOMAIN s : s[k].winner = arm})

Score(arm) == [x \in GoodLine |-> x[arm]]
Win(arm) == [x \in GoodLine |-> IF x.winner = arm THEN 1 ELSE 0]

\* Totals and wins are such measures.
LEMMA MeasuresOfRows ==
  ASSUME NEW s \in Seq(GoodLine), NEW arm \in Arms
  PROVE  /\ Score(arm) \in [GoodLine -> Int] /\ Win(arm) \in [GoodLine -> Int]
         /\ Total(s, arm) = Measured(s, Score(arm)) /\ Wins(s, arm) = Measured(s, Win(arm))
  <1>1. Len(s) \in Nat /\ DOMAIN s = 1..Len(s) /\ \A k \in 1..Len(s) : s[k] \in GoodLine
    OBVIOUS
  <1>2. Score(arm) \in [GoodLine -> Int] /\ \A x \in GoodLine : Score(arm)[x] = x[arm]
    <2>1. \A x \in GoodLine : x.A \in Int /\ x.B \in Int
      BY DEF GoodLine
    <2> QED BY <2>1 DEF Score, Arms
  <1>3. Win(arm) \in [GoodLine -> Int] /\ \A x \in GoodLine : Win(arm)[x] = IF x.winner = arm THEN 1 ELSE 0
    BY DEF Win
  <1>4. Total(s, arm) = Measured(s, Score(arm))
    <2> DEFINE v == [k \in 1..Len(s) |-> s[k][arm]]
    <2>1. v = Vals(s, Score(arm))
      BY <1>1, <1>2 DEF Vals
    <2>2. Len(v) = Len(s)
      BY <1>1
    <2>3. Total(s, arm) = Sums(v)[Len(s)]
      BY DEF Total
    <2> HIDE DEF v
    <2> QED BY <2>1, <2>2, <2>3 DEF Measured, Sum
  <1>5. Wins(s, arm) = Measured(s, Win(arm))
    <2> DEFINE S == {k \in DOMAIN s : s[k].winner = arm}
    <2>1. S \in SUBSET (1..Len(s))
      BY <1>1
    <2>2. Vals(s, Win(arm)) = [k \in 1..Len(s) |-> IF k \in S THEN 1 ELSE 0]
      BY <1>1, <1>3 DEF Vals
    <2>3. Wins(s, arm) = Cardinality(S)
      BY DEF Wins
    <2> HIDE DEF S
    <2> QED BY <1>1, <2>1, <2>2, <2>3, SumOfMarks DEF Measured
  <1> QED BY <1>2, <1>3, <1>4, <1>5

\* Either arm wins a row.
LEMMA WinsAddUp ==
  ASSUME NEW s \in Seq(GoodLine)
  PROVE  Wins(s, "A") \in Nat /\ Wins(s, "B") \in Nat /\ Wins(s, "A") + Wins(s, "B") = Len(s)
  <1> DEFINE S(arm) == {k \in DOMAIN s : s[k].winner = arm}
  <1>1. Len(s) \in Nat /\ DOMAIN s = 1..Len(s) /\ \A k \in 1..Len(s) : s[k].winner \in {"A", "B"}
    <2>1. Len(s) \in Nat /\ DOMAIN s = 1..Len(s) /\ \A k \in 1..Len(s) : s[k] \in GoodLine
      OBVIOUS
    <2>2. \A x \in GoodLine : x.winner \in {"A", "B"}
      BY DEF GoodLine, Arms
    <2> QED BY <2>1, <2>2
  <1>2. S("A") \cup S("B") = 1..Len(s) /\ S("A") \cap S("B") = {}
    BY <1>1
  <1>3. IsFiniteSet(1..Len(s)) /\ Cardinality(1..Len(s)) = Len(s)
    BY <1>1, OneTo
  <1>4. S("A") \in SUBSET (1..Len(s)) /\ S("B") \in SUBSET (1..Len(s))
    BY <1>1
  <1>5. \A arm : Wins(s, arm) = Cardinality(S(arm))
    BY DEF Wins
  <1> HIDE DEF S
  <1>6. /\ IsFiniteSet(S("A")) /\ Cardinality(S("A")) \in Nat
        /\ IsFiniteSet(S("B")) /\ Cardinality(S("B")) \in Nat
    BY <1>3, <1>4, FS_Subset, FS_CardinalityType
  <1>7. Cardinality(S("A") \cup S("B")) = Cardinality(S("A")) + Cardinality(S("B"))
    BY <1>2, <1>6, DisjointCounts
  <1>8. Cardinality(S("A")) + Cardinality(S("B")) = Len(s)
    BY <1>2, <1>3, <1>7
  <1>9. Wins(s, "A") = Cardinality(S("A")) /\ Wins(s, "B") = Cardinality(S("B"))
    BY <1>5
  <1> HIDE DEF S
  <1> QED BY <1>6, <1>8, <1>9

\* What summarize_rows says of rows.
LEMMA SummaryIs ==
  ASSUME NEW s \in Seq(GoodLine)
  PROVE  /\ summarize_rows(s).count = Len(s) /\ Len(s) \in Nat
         /\ \A arm \in Arms : Total(s, arm) \in Int /\ Wins(s, arm) \in Nat
         /\ Len(s) = 0 => \A arm \in Arms : Total(s, arm) = 0
         /\ Len(s) # 0 => \A arm \in Arms :
                            /\ summarize_rows(s).avg_score[arm] = Rounded(100 * Total(s, arm), Len(s))
                            /\ summarize_rows(s).win_rate[arm] = Rounded(10000 * Wins(s, arm), Len(s))
  <1>1. Len(s) \in Nat /\ summarize_rows(s).count = Len(s)
    BY SummaryCounts
  <1>2. ASSUME NEW arm \in Arms
        PROVE  Total(s, arm) \in Int /\ Wins(s, arm) \in Nat /\ (Len(s) = 0 => Total(s, arm) = 0)
    <2>1. Score(arm) \in [GoodLine -> Int] /\ Total(s, arm) = Sum(Vals(s, Score(arm)))
      BY MeasuresOfRows DEF Measured
    <2>2. Vals(s, Score(arm)) \in Seq(Int) /\ Len(Vals(s, Score(arm))) = Len(s)
      BY <2>1, ValsAre
    <2>3. Sums(Vals(s, Score(arm))) \in [0..Len(s) -> Int] /\ Sums(Vals(s, Score(arm)))[0] = 0
      BY <2>2, SumsAre
    <2>4. Total(s, arm) = Sums(Vals(s, Score(arm)))[Len(s)]
      BY <2>1, <2>2 DEF Sum
    <2> QED BY <1>1, <2>3, <2>4, WinsAddUp DEF Arms
  <1>3. ASSUME Len(s) # 0, NEW arm \in Arms
        PROVE  /\ summarize_rows(s).avg_score[arm] = Rounded(100 * Total(s, arm), Len(s))
               /\ summarize_rows(s).win_rate[arm] = Rounded(10000 * Wins(s, arm), Len(s))
    <2>1. Len(s) - Wins(s, "A") = Wins(s, "B")
      BY <1>1, WinsAddUp
    <2>2. /\ summarize_rows(s).avg_score = [A |-> Rounded(100 * Total(s, "A"), Len(s)), B |-> Rounded(100 * Total(s, "B"), Len(s))]
          /\ summarize_rows(s).win_rate =
               [A |-> Rounded(10000 * Wins(s, "A"), Len(s)), B |-> Rounded(10000 * (Len(s) - Wins(s, "A")), Len(s))]
      BY <1>3 DEF summarize_rows, Wins
    <2>3. arm = "A" \/ arm = "B"
      BY DEF Arms
    <2> QED BY <2>1, <2>2, <2>3
  <1> QED BY <1>1, <1>2, <1>3

\* The arm that is not announced.
Other(w) == IF w = "A" THEN "B" ELSE "A"

LEMMA AheadIs ==
  ASSUME NEW p, p.A \in Int, p.B \in Int
  PROVE  LET w == Ahead(p) IN w \in Arms /\ Other(w) \in Arms /\ p[Other(w)] <= p[w] /\ (p.A = p.B => w = "A")
  <1>1. CASE p.A >= p.B
    BY <1>1 DEF Ahead, Other, Arms
  <1>2. CASE ~(p.A >= p.B)
    BY <1>2 DEF Ahead, Other, Arms
  <1> QED BY <1>1, <1>2

\* The winner has the higher average, or as high a one and as high a win rate.
LEMMA FinalWinnerIs ==
  ASSUME NEW overall, overall.avg_score.A \in Int, overall.avg_score.B \in Int,
         overall.win_rate.A \in Int, overall.win_rate.B \in Int
  PROVE  LET w == final_winner(overall)
         IN  /\ w \in Arms /\ Other(w) \in Arms
             /\ overall.avg_score[Other(w)] <= overall.avg_score[w]
             /\ overall.avg_score.A = overall.avg_score.B => overall.win_rate[Other(w)] <= overall.win_rate[w]
  <1>1. CASE overall.avg_score.A = overall.avg_score.B
    <2>1. final_winner(overall) = Ahead(overall.win_rate)
      BY <1>1 DEF final_winner
    <2>2. /\ final_winner(overall) \in Arms /\ Other(final_winner(overall)) \in Arms
          /\ overall.win_rate[Other(final_winner(overall))] <= overall.win_rate[final_winner(overall)]
      BY <2>1, AheadIs
    <2>3. \A a, b \in Arms : overall.avg_score[a] <= overall.avg_score[b]
      BY <1>1 DEF Arms
    <2> QED BY <2>2, <2>3
  <1>2. CASE overall.avg_score.A # overall.avg_score.B
    <2>1. final_winner(overall) = Ahead(overall.avg_score)
      BY <1>2 DEF final_winner
    <2> QED BY <1>2, <2>1, AheadIs
  <1> QED BY <1>1, <1>2

\* A bucket that clearly prefers the other arm gives it more points than it has rows.
LEMMA ClearlyPreferred ==
  ASSUME NEW s \in Seq(GoodLine), Len(s) # 0, NEW w \in Arms, Other(w) \in Arms,
         LET avg == summarize_rows(s).avg_score
         IN  Ahead(avg) # w /\ Distance(avg.A, avg.B) >= 30000
  PROVE  100 * Total(s, Other(w)) - 100 * Total(s, w) > Len(s)
  <1> DEFINE avg == summarize_rows(s).avg_score
             n == Len(s)
             x == 100 * Total(s, Other(w))
             y == 100 * Total(s, w)
  <1>1. n \in Nat \ {0} /\ x \in Int /\ y \in Int
    BY SummaryIs
  <1>2. avg[Other(w)] = Rounded(x, n) /\ avg[w] = Rounded(y, n)
    BY SummaryIs
  <1>3. Ahead(avg) # w /\ Distance(avg.A, avg.B) >= 30000
    OBVIOUS
  <1> HIDE DEF avg, n, x, y
  <1>4. Rounded(x, n) \in Int /\ Rounded(y, n) \in Int
    <2>1. \A z \in Int : Rounded(z, n) \in Int
      BY <1>1, RoundedBounds
    <2> QED BY <1>1, <2>1
  <1>5. avg[w] + 30000 <= avg[Other(w)]
    <2>1. CASE w = "A"
      <3>1. Other(w) = "B" /\ avg.A \in Int /\ avg.B \in Int
        BY <1>2, <1>4, <2>1 DEF Other
      <3>2. ~(avg.A >= avg.B)
        BY <1>3, <2>1 DEF Ahead
      <3> QED BY <1>3, <2>1, <3>1, <3>2 DEF Distance
    <2>2. CASE w = "B"
      <3>1. Other(w) = "A" /\ avg.A \in Int /\ avg.B \in Int
        BY <1>2, <1>4, <2>2 DEF Other
      <3>2. avg.A >= avg.B
        BY <1>3, <2>2 DEF Ahead
      <3> QED BY <1>3, <2>2, <3>1, <3>2 DEF Distance
    <2> QED BY <2>1, <2>2 DEF Arms
  <1>6. Rounded(y, n) + 2 <= Rounded(x, n)
    BY <1>2, <1>4, <1>5
  <1>7. x - y > n
    BY <1>1, <1>6, RoundedOrder
  <1> QED BY <1>7 DEF n, x, y

\* What aggregate_results announces of rows.
LEMMA WinnerOfRows ==
  ASSUME NEW r \in Seq(GoodLine), Len(r) # 0
  PROVE  LET R == aggregate_results(r)
             w == R.final_winner
         IN  /\ w \in Arms /\ Other(w) \in Arms
             /\ 100 * Total(r, Other(w)) - 100 * Total(r, w) < Len(r)
             /\ Total(r, w) = Total(r, Other(w)) => 10000 * Wins(r, Other(w)) - 10000 * Wins(r, w) < Len(r)
             /\ \E b \in Buckets : R.summary_by_bucket[b].count > 0 /\ b \notin R.conditional
  <1> DEFINE R == aggregate_results(r)
             w == R.final_winner
             o == Other(w)
             all == AllRows(r)
             of(b) == At(r, OfBucket(r, b))
             n == Len(r)
             t(arm) == 100 * Total(r, arm)
             c(arm) == 10000 * Wins(r, arm)
             sum == summarize_rows(all)
  <1>1. n \in Nat \ {0} /\ \A arm \in Arms : t(arm) \in Int /\ c(arm) \in Int
    BY SummaryIs
  <1>2. all \in Seq(GoodLine) /\ Len(all) = n /\ \A arm \in Arms : Total(all, arm) = Total(r, arm) /\ Wins(all, arm) = Wins(r, arm)
    <2>1. ASSUME NEW m \in [GoodLine -> Int] PROVE Measured(all, m) = Measured(r, m) /\ all \in Seq(GoodLine) /\ Len(all) = n
      BY MeasureOfBuckets
    <2>2. "A" \in Arms
      BY DEF Arms
    <2>3. all \in Seq(GoodLine) /\ Len(all) = n
      BY <2>1, <2>2, MeasuresOfRows
    <2> HIDE DEF all
    <2>4. ASSUME NEW arm \in Arms PROVE Total(all, arm) = Total(r, arm) /\ Wins(all, arm) = Wins(r, arm)
      <3>1. Score(arm) \in [GoodLine -> Int] /\ Win(arm) \in [GoodLine -> Int]
        BY MeasuresOfRows
      <3>2. Measured(all, Score(arm)) = Measured(r, Score(arm)) /\ Measured(all, Win(arm)) = Measured(r, Win(arm))
        BY <2>1, <3>1
      <3> QED BY <2>3, <3>2, MeasuresOfRows
    <2> QED BY <2>3, <2>4
  <1>3. /\ R.overall = sum /\ w = final_winner(sum)
        /\ R.summary_by_bucket = [b \in Buckets |-> summarize_rows(of(b))]
        /\ R.conditional = conditional_recommendation([b \in Buckets |-> summarize_rows(of(b))], w)
    BY DEF aggregate_results, OfBucket, AllRows
  <1>4. \A arm \in Arms : sum.avg_score[arm] = Rounded(t(arm), n) /\ sum.win_rate[arm] = Rounded(c(arm), n)
    <2> HIDE DEF all, of
    <2> QED BY <1>1, <1>2, SummaryIs
  <1> HIDE DEF R, all, of, n, t, c, sum
  <1>5. \A arm \in Arms : Rounded(t(arm), n) \in Int /\ Rounded(c(arm), n) \in Int
    BY <1>1, RoundedBounds
  <1>6. /\ w \in Arms /\ o \in Arms
        /\ sum.avg_score[o] <= sum.avg_score[w]
        /\ sum.avg_score.A = sum.avg_score.B => sum.win_rate[o] <= sum.win_rate[w]
    <2>1. "A" \in Arms /\ "B" \in Arms
      BY DEF Arms
    <2> QED BY <1>3, <1>4, <1>5, <2>1, FinalWinnerIs
  <1>7. (w = "A" /\ o = "B") \/ (w = "B" /\ o = "A")
    <2>1. w \in Arms
      BY <1>6
    <2>2. o = Other(w)
      OBVIOUS
    <2> HIDE DEF w, o
    <2> QED BY <2>1, <2>2 DEF Arms, Other
  <1> HIDE DEF w, o
  <1>8. t(o) - t(w) < n
    BY <1>1, <1>4, <1>6, RoundedOrder
  <1>9. ASSUME Total(r, w) = Total(r, o) PROVE c(o) - c(w) < n
    <2>1. sum.avg_score[w] = sum.avg_score[o]
      BY <1>4, <1>6, <1>9 DEF t
    <2>2. sum.avg_score.A = sum.avg_score.B
      BY <1>7, <2>1
    <2>3. Rounded(c(o), n) <= Rounded(c(w), n)
      BY <1>4, <1>6, <2>2
    <2> QED BY <1>1, <1>6, <2>3, RoundedOrder
  <1>10. \E b \in Buckets : R.summary_by_bucket[b].count > 0 /\ b \notin R.conditional
    <2> SUFFICES ASSUME \A b \in Buckets : R.summary_by_bucket[b].count > 0 => b \in R.conditional PROVE FALSE
      OBVIOUS
    <2> DEFINE d(b) == 100 * Total(of(b), o) - 100 * Total(of(b), w)
               m(b) == Len(of(b))
    <2>1. \A b \in Buckets : of(b) \in Seq(GoodLine)
      <3> TAKE b \in Buckets
      <3>1. OfBucket(r, b) \in SUBSET (1..Len(r))
        BY BucketsPartition
      <3> QED BY <3>1, AtIs DEF of
    <2>2. \A b \in Buckets : d(b) >= m(b) /\ d(b) \in Int /\ m(b) \in Int
      <3> TAKE b \in Buckets
      <3>1. /\ of(b) \in Seq(GoodLine) /\ m(b) \in Nat /\ d(b) \in Int
            /\ Total(of(b), o) \in Int /\ Total(of(b), w) \in Int
            /\ m(b) = 0 => Total(of(b), o) = 0 /\ Total(of(b), w) = 0
        BY <1>6, <2>1, SummaryIs
      <3>2. CASE m(b) = 0
        BY <3>1, <3>2
      <3>3. CASE m(b) # 0
        <4>1. R.summary_by_bucket[b] = summarize_rows(of(b)) /\ R.summary_by_bucket[b].count = m(b)
          BY <1>3, <3>1, SummaryIs
        <4>2. b \in R.conditional
          BY <3>1, <3>3, <4>1
        <4>3. LET avg == summarize_rows(of(b)).avg_score
              IN  Ahead(avg) # w /\ Distance(avg.A, avg.B) >= 30000
          BY <1>3, <4>2 DEF conditional_recommendation
        <4>4. d(b) > m(b)
          BY <1>6, <3>1, <3>3, <4>3, ClearlyPreferred DEF o
        <4> QED BY <3>1, <4>4
      <3> QED BY <3>2, <3>3
    <2>3. 1 \in Buckets /\ 2 \in Buckets /\ 3 \in Buckets /\ 4 \in Buckets
      BY FourBuckets
    <2>4. ASSUME NEW arm \in Arms
          PROVE  /\ \A b \in Buckets : Total(of(b), arm) \in Int
                 /\ Total(r, arm) = Total(of(1), arm) + Total(of(2), arm) + Total(of(3), arm) + Total(of(4), arm)
      <3>1. Score(arm) \in [GoodLine -> Int] /\ Total(r, arm) = Measured(r, Score(arm))
        BY MeasuresOfRows
      <3>2. \A b \in Buckets : Total(of(b), arm) = Measured(of(b), Score(arm)) /\ Total(of(b), arm) \in Int
        BY <2>1, MeasuresOfRows, SummaryIs
      <3>3. Measured(r, Score(arm)) = Measured(of(1), Score(arm)) + Measured(of(2), Score(arm))
                                      + Measured(of(3), Score(arm)) + Measured(of(4), Score(arm))
        BY <3>1, MeasureOfBuckets DEF of
      <3> QED BY <2>3, <3>1, <3>2, <3>3
    <2>5. m(1) + m(2) + m(3) + m(4) = n
      <3>1. \A b \in Buckets : m(b) = Cardinality(OfBucket(r, b))
        <4> TAKE b \in Buckets
        <4>1. OfBucket(r, b) \in SUBSET (1..Len(r))
          BY BucketsPartition
        <4> QED BY <4>1, AtIs DEF of
      <3> QED BY <2>3, <3>1, BucketsPartition DEF n
    <2>6. d(1) + d(2) + d(3) + d(4) = t(o) - t(w)
      <3>1. /\ Total(r, o) = Total(of(1), o) + Total(of(2), o) + Total(of(3), o) + Total(of(4), o)
            /\ Total(of(1), o) \in Int /\ Total(of(2), o) \in Int /\ Total(of(3), o) \in Int /\ Total(of(4), o) \in Int
        BY <1>6, <2>3, <2>4
      <3>2. /\ Total(r, w) = Total(of(1), w) + Total(of(2), w) + Total(of(3), w) + Total(of(4), w)
            /\ Total(of(1), w) \in Int /\ Total(of(2), w) \in Int /\ Total(of(3), w) \in Int /\ Total(of(4), w) \in Int
        BY <1>6, <2>3, <2>4
      <3>3. PICK a1 \in Int, a2 \in Int, a3 \in Int, a4 \in Int :
              a1 = Total(of(1), o) /\ a2 = Total(of(2), o) /\ a3 = Total(of(3), o) /\ a4 = Total(of(4), o)
        BY <3>1
      <3>4. PICK b1 \in Int, b2 \in Int, b3 \in Int, b4 \in Int :
              b1 = Total(of(1), w) /\ b2 = Total(of(2), w) /\ b3 = Total(of(3), w) /\ b4 = Total(of(4), w)
        BY <3>2
      <3>5. t(o) = 100 * (a1 + a2 + a3 + a4) /\ t(w) = 100 * (b1 + b2 + b3 + b4)
        BY <3>1, <3>2, <3>3, <3>4 DEF t
      <3>6. d(1) = 100 * a1 - 100 * b1 /\ d(2) = 100 * a2 - 100 * b2 /\ d(3) = 100 * a3 - 100 * b3 /\ d(4) = 100 * a4 - 100 * b4
        BY <3>3, <3>4
      <3> HIDE DEF d
      <3> QED BY <3>5, <3>6
    <2> HIDE DEF d, m
    <2>7. d(1) + d(2) + d(3) + d(4) >= m(1) + m(2) + m(3) + m(4)
      BY <2>2, <2>3
    <2>8. t(o) - t(w) >= n
      BY <2>5, <2>6, <2>7
    <2> QED BY <1>1, <1>6, <1>8, <2>8
  <1> QED BY <1>6, <1>8, <1>9, <1>10 DEF t, c, n, o, w, R

LEMMA WinnerFollows == ValidatorInv => WinnerIsDefensible
  <1> SUFFICES ASSUME ValidatorInv, Good # <<>> PROVE WinnerIsDefensible
    BY DEF WinnerIsDefensible
  <1> DEFINE w == Report.final_winner
             o == Other(w)
  <1>1. Good \in Seq(GoodLine) /\ Len(Good) \in Nat /\ Len(Good) # 0
    BY GoodIsRows
  <1>2. /\ w \in Arms /\ o \in Arms
        /\ 100 * Total(Good, o) - 100 * Total(Good, w) < Len(Good)
        /\ Total(Good, w) = Total(Good, o) => 10000 * Wins(Good, o) - 10000 * Wins(Good, w) < Len(Good)
        /\ \E b \in Buckets : Report.summary_by_bucket[b].count > 0 /\ b \notin Report.conditional
    BY <1>1, WinnerOfRows DEF Report
  <1>3. /\ Total(Good, o) \in Int /\ Total(Good, w) \in Int
        /\ Wins(Good, o) \in Int /\ Wins(Good, w) \in Int
    BY <1>1, <1>2, SummaryIs
  <1>4. 100 * (Total(Good, o) - Total(Good, w)) <= Len(Good)
    BY <1>1, <1>2, <1>3
  <1>5. Total(Good, w) = Total(Good, o) => 10000 * (Wins(Good, o) - Wins(Good, w)) <= Len(Good)
    BY <1>1, <1>2, <1>3
  <1> QED BY <1>2, <1>4, <1>5 DEF WinnerIsDefensible, Wins, Other

\* For every sample, batch size and answer: the arm that is announced has the higher
\* total, or as high a one and as many wins, but for less than what four decimal places
\* show, and at least one age group with rows is not said to clearly prefer the other
\* (aggregate_results: summarize_rows, final_winner, conditional_recommendation).
THEOREM WinnersAreDefensible == Spec => []WinnerIsDefensible
  <1>1. Init => ValidatorInv
    BY RetrievalStarts, CountersStart, ChildInit DEF ValidatorInv
  <1>2. ValidatorInv /\ [Next]_vars => ValidatorInv'
    BY RetrievalNext, CountersNext, ChildNext DEF ValidatorInv
  <1> QED BY <1>1, <1>2, WinnerFollows, PTL DEF Spec

-----------------------------------------------------------------------------
(* The order of the quotes.                                                 *)

LEMMA StrengthIs == \A x \in GoodLine : quote_strength(x) \in Nat
  <1> TAKE x \in GoodLine
  <1>1. x.confidence \in Nat /\ x.A \in Int /\ x.B \in Int
    <2>1. x.confidence \in 0..FullScore /\ x.A \in 0..FullScore /\ x.B \in 0..FullScore
      BY DEF GoodLine
    <2>2. \A y \in 0..FullScore : y \in Nat /\ y \in Int
      BY DEF FullScore
    <2> QED BY <2>1, <2>2
  <1>2. Distance(x.A, x.B) \in Nat
    BY <1>1 DEF Distance
  <1>3. x.confidence * 10001 \in Nat
    BY <1>1
  <1> QED BY <1>2, <1>3 DEF quote_strength

\* Sorting by a number, equals in their order: the places of the elements.
Earlier(q, i, j) == q[i] > q[j] \/ (q[i] = q[j] /\ i < j)
Place(q, n, i) == Cardinality({j \in 1..n : Earlier(q, j, i)}) + 1

\* Every place is taken once, and an earlier element has a smaller place.
LEMMA PlacesAre ==
  ASSUME NEW n \in Nat, NEW q \in [1..n -> Int]
  PROVE  /\ \A i \in 1..n : Place(q, n, i) \in 1..n
         /\ \A i, j \in 1..n : i # j => Earlier(q, i, j) \/ Earlier(q, j, i)
         /\ \A i, j \in 1..n : Earlier(q, i, j) => Place(q, n, i) < Place(q, n, j)
         /\ \A i, j \in 1..n : Place(q, n, i) = Place(q, n, j) => i = j
         /\ \A k \in 1..n : \E i \in 1..n : Place(q, n, i) = k
  <1> DEFINE S(i) == {j \in 1..n : Earlier(q, j, i)}
             place == [i \in 1..n |-> Place(q, n, i)]
  <1>1. IsFiniteSet(1..n) /\ Cardinality(1..n) = n
    BY OneTo
  <1>2. /\ \A i \in 1..n : i \in Int /\ q[i] \in Int
        /\ \A i \in 1..n : ~Earlier(q, i, i)
        /\ \A i, j \in 1..n : i # j => Earlier(q, i, j) \/ Earlier(q, j, i)
        /\ \A i, j, k \in 1..n : Earlier(q, i, j) /\ Earlier(q, j, k) => Earlier(q, i, k)
    BY DEF Earlier
  <1>3. \A i \in 1..n : S(i) \in SUBSET (1..n) /\ i \notin S(i)
    BY <1>2
  <1>4. \A i \in 1..n : IsFiniteSet(S(i)) /\ Cardinality(S(i)) \in Nat
    BY <1>1, <1>3, FS_Subset, FS_CardinalityType
  <1>5. \A i \in 1..n : Cardinality(S(i)) < n
    <2> TAKE i \in 1..n
    <2>1. i \in 1..n /\ i \notin S(i) /\ S(i) \in SUBSET (1..n)
      BY <1>3
    <2> HIDE DEF S
    <2>2. Cardinality(S(i)) <= n /\ (n = Cardinality(S(i)) => 1..n = S(i))
      BY <1>1, <2>1, FS_Subset
    <2>3. n # Cardinality(S(i))
      BY <2>2, <2>1
    <2> QED BY <1>4, <2>2, <2>3
  <1>6. \A i : Place(q, n, i) = Cardinality(S(i)) + 1
    BY DEF Place
  <1>7. \A i \in 1..n : Place(q, n, i) \in 1..n
    <2> TAKE i \in 1..n
    <2> HIDE DEF S
    <2>1. Cardinality(S(i)) \in Nat /\ Cardinality(S(i)) < n
      BY <1>4, <1>5
    <2>2. Cardinality(S(i)) + 1 \in 1..n
      BY <2>1
    <2> QED BY <1>6, <2>2
  <1>8. ASSUME NEW i \in 1..n, NEW j \in 1..n, Earlier(q, i, j) PROVE Place(q, n, i) < Place(q, n, j)
    <2>1. S(i) \in SUBSET S(j) /\ i \in S(j) /\ i \notin S(i)
      BY <1>2, <1>3, <1>8
    <2>2. Cardinality(S(i)) <= Cardinality(S(j)) /\ (Cardinality(S(j)) = Cardinality(S(i)) => S(j) = S(i))
      BY <1>4, <2>1, FS_Subset
    <2> HIDE DEF S
    <2>3. Cardinality(S(i)) # Cardinality(S(j))
      BY <2>1, <2>2
    <2> QED BY <1>4, <1>6, <2>2, <2>3
  <1> HIDE DEF S
  <1>9. \A i, j \in 1..n : Place(q, n, i) = Place(q, n, j) => i = j
    <2> TAKE i, j \in 1..n
    <2>1. Place(q, n, i) \in Int /\ Place(q, n, j) \in Int
      BY <1>7
    <2> QED BY <1>2, <1>8, <2>1
  <1>10. \A k \in 1..n : \E i \in 1..n : Place(q, n, i) = k
    <2>1. place \in Injection(1..n, 1..n)
      BY <1>7, <1>9 DEF Injection, IsInjective
    <2>2. place \in Surjection(1..n, 1..n)
      BY <1>1, <2>1, FS_Injection
    <2> QED BY <2>2 DEF Surjection
  <1> QED BY <1>2, <1>7, <1>8, <1>9, <1>10

\* The same rows, the most decided first.
LEMMA RankedIs ==
  ASSUME NEW s \in Seq(GoodLine)
  PROVE  /\ Len(s) \in Nat /\ Ranked(s) \in Seq(GoodLine) /\ Len(Ranked(s)) = Len(s)
         /\ \A k \in 1..Len(s) : \E i \in 1..Len(s) : Ranked(s)[k] = s[i]
         /\ \A i \in 1..Len(s) : \E k \in 1..Len(s) : Ranked(s)[k] = s[i]
         /\ \A k, l \in 1..Len(s) : k < l => quote_strength(Ranked(s)[k]) >= quote_strength(Ranked(s)[l])
  <1> DEFINE n == Len(s)
             q == [i \in 1..n |-> quote_strength(s[i])]
             Stronger(i, j) == \/ quote_strength(s[i]) > quote_strength(s[j])
                               \/ quote_strength(s[i]) = quote_strength(s[j]) /\ i < j
             place(i) == Cardinality({j \in DOMAIN s : Stronger(j, i)}) + 1
             c(k) == CHOOSE i \in DOMAIN s : place(i) = k
             R == Ranked(s)
  <1>1. n \in Nat /\ DOMAIN s = 1..n /\ \A i \in 1..n : s[i] \in GoodLine
    OBVIOUS
  <1>2. q \in [1..n -> Int] /\ \A i \in 1..n : q[i] = quote_strength(s[i])
    BY <1>1, StrengthIs
  <1>3. R = [k \in 1..n |-> s[c(k)]]
    BY <1>1 DEF Ranked
  <1>4. \A i \in 1..n : place(i) = Place(q, n, i)
    <2>1. \A i, j \in 1..n : Stronger(i, j) <=> Earlier(q, i, j)
      BY <1>2 DEF Earlier
    <2>2. \A i \in 1..n : {j \in DOMAIN s : Stronger(j, i)} = {j \in 1..n : Earlier(q, j, i)}
      BY <1>1, <2>1
    <2> QED BY <2>2 DEF Place
  <1> HIDE DEF place
  <1> HIDE DEF n, q, R
  <1>5. \A k \in 1..n : c(k) \in 1..n /\ Place(q, n, c(k)) = k
    <2> TAKE k \in 1..n
    <2>1. \E i \in 1..n : Place(q, n, i) = k
      BY <1>1, <1>2, PlacesAre
    <2> QED BY <1>1, <1>4, <2>1
  <1> HIDE DEF c
  <1>6. R \in Seq(GoodLine) /\ Len(R) = n
    BY <1>1, <1>3, <1>5
  <1>7. \A k \in 1..n : R[k] = s[c(k)]
    BY <1>3
  <1>8. \A i \in 1..n : \E k \in 1..n : R[k] = s[i]
    <2> TAKE i \in 1..n
    <2>1. Place(q, n, i) \in 1..n
      BY <1>1, <1>2, PlacesAre
    <2>2. PICK k \in 1..n : k = Place(q, n, i)
      BY <2>1
    <2>3. c(k) = i
      BY <1>1, <1>2, <1>5, <2>2, PlacesAre
    <2> QED BY <1>7, <2>3
  <1>9. ASSUME NEW k \in 1..n, NEW l \in 1..n, k < l PROVE quote_strength(R[k]) >= quote_strength(R[l])
    <2>1. PICK i \in 1..n, j \in 1..n : i = c(k) /\ j = c(l) /\ Place(q, n, i) = k /\ Place(q, n, j) = l
      BY <1>5
    <2>2. i # j /\ ~(Place(q, n, j) < Place(q, n, i))
      BY <1>1, <1>9, <2>1
    <2>3. Earlier(q, i, j)
      BY <1>1, <1>2, <2>2, PlacesAre
    <2>4. q[i] \in Int /\ q[j] \in Int
      BY <1>2
    <2>5. q[i] >= q[j]
      BY <2>3, <2>4 DEF Earlier
    <2> QED BY <1>2, <1>7, <2>1, <2>5
  <1> QED BY <1>1, <1>5, <1>6, <1>7, <1>8, <1>9 DEF n, R

(* The quotes.                                                              *)

Quotable(out, r, M) ==
  /\ Len(out) < M
  /\ r.reason # "" /\ \A k \in DOMAIN out : out[k].reason # r.reason
Quote(out, r, M) == IF Quotable(out, r, M) THEN Append(out, r) ELSE out

\* The recursive function of the loop is the one that quotes row by row.
LEMMA QuotedIs ==
  ASSUME NEW R \in Seq(GoodLine), NEW M \in Nat
  PROVE  /\ Len(R) \in Nat /\ QuotedAfter(R, M)[0] = <<>>
         /\ \A n \in 0..Len(R) : QuotedAfter(R, M)[n] \in Seq(GoodLine)
         /\ \A n \in 1..Len(R) : QuotedAfter(R, M)[n] = Quote(QuotedAfter(R, M)[n - 1], R[n], M)
  <1> DEFINE N == Len(R)
             D == Seq(GoodLine)
             P(h) == h = [n \in 0..N |-> IF n = 0 THEN <<>> ELSE Quote(h[n - 1], R[n], M)]
             step == [n \in 1..N |-> [out \in D |-> Quote(out, R[n], M)]]
             f == QuotedAfter(R, M)
  <1>1. N \in Nat /\ <<>> \in D /\ \A n \in 1..N : R[n] \in GoodLine
    OBVIOUS
  <1>2. \A n \in 1..N, out \in D : Quote(out, R[n], M) \in D
    BY <1>1 DEF Quote
  <1>3. f = CHOOSE h : P(h)
    BY DEF QuotedAfter, Quote, Quotable
  <1> HIDE DEF f, N, D
  <1>4. step \in [1..N -> [D -> D]] /\ \A n \in 1..N, out \in D : step[n][out] = Quote(out, R[n], M)
    BY <1>2
  <1> HIDE DEF step
  <1>5. PICK g : Iterated(g, N, D, <<>>, step)
    BY <1>1, <1>4, Iterates
  <1>6. /\ g = [n \in 0..N |-> g[n]] /\ \A n \in 0..N : g[n] \in D
        /\ g[0] = <<>> /\ \A n \in 1..N : n - 1 \in 0..N /\ g[n] = Quote(g[n - 1], R[n], M)
    <2>1. g \in [0..N -> D] /\ g[0] = <<>> /\ \A n \in 1..N : g[n] = step[n][g[n - 1]]
      BY <1>5 DEF Iterated
    <2>2. \A n \in 1..N : n - 1 \in 0..N
      BY <1>1
    <2> QED BY <1>4, <2>1, <2>2
  <1>7. P(g)
    <2>1. \A n \in 0..N : g[n] = IF n = 0 THEN <<>> ELSE Quote(g[n - 1], R[n], M)
      BY <1>1, <1>6
    <2> QED BY <1>6, <2>1
  <1>8. P(f)
    <2> HIDE DEF P
    <2> QED BY <1>3, <1>7
  <1>9. \A n \in 0..N : f[n] = IF n = 0 THEN <<>> ELSE Quote(f[n - 1], R[n], M)
    BY <1>8
  <1> HIDE DEF P
  <1>10. f[0] = <<>> /\ \A n \in 1..N : f[n] = Quote(f[n - 1], R[n], M)
    BY <1>1, <1>9
  <1> DEFINE T == {n \in 0..N : f[n] = g[n]}
  <1>11. T = 0..N
    <2>1. 0 \in T
      BY <1>1, <1>6, <1>10
    <2>2. ASSUME NEW n \in 1..N, n - 1 \in T PROVE n \in T
      <3>1. f[n - 1] = g[n - 1] /\ n \in 0..N
        BY <1>1, <2>2
      <3>2. f[n] = g[n]
        BY <1>6, <1>10, <3>1
      <3> QED BY <3>1, <3>2
    <2> QED BY <1>1, <2>1, <2>2, LeastMissing
  <1>12. \A n \in 0..N : f[n] \in D
    BY <1>6, <1>11
  <1> QED BY <1>1, <1>10, <1>12 DEF f, N, D

\* What holds of the quotes after n of the ranked rows.
QuotesSoFar(o, R, n, M) ==
  /\ o \in Seq(GoodLine) /\ Len(o) <= M
  /\ \A j \in 1..Len(o) : o[j].reason # "" /\ \E i \in 1..n : o[j] = R[i]
  /\ \A i, j \in 1..Len(o) : o[i].reason = o[j].reason => i = j
  /\ \A i \in 1..n : \/ R[i].reason = ""
                     \/ \E j \in 1..Len(o) : o[j].reason = R[i].reason
                     \/ Len(o) = M /\ \A j \in 1..Len(o) : quote_strength(o[j]) >= quote_strength(R[i])

Falling(R) == \A k, l \in 1..Len(R) : k < l => quote_strength(R[k]) >= quote_strength(R[l])

LEMMA AppendIs ==
  ASSUME NEW D, NEW u \in Seq(D), NEW x \in D
  PROVE  LET p == Append(u, x)
         IN  /\ p \in Seq(D) /\ Len(u) \in Nat /\ Len(p) = Len(u) + 1 /\ p[Len(u) + 1] = x
             /\ \A j \in 1..Len(u) : p[j] = u[j]
  OBVIOUS

\* The next row keeps it, quoted or not.
LEMMA QuoteNext ==
  ASSUME NEW R \in Seq(GoodLine), Falling(R), NEW M \in Nat, NEW n \in 1..Len(R), NEW o, QuotesSoFar(o, R, n - 1, M)
  PROVE  QuotesSoFar(Quote(o, R[n], M), R, n, M)
  <1> DEFINE r == R[n]
  <1>1. Len(R) \in Nat /\ n \in Nat /\ r \in GoodLine /\ \A i \in 1..n : i \in 1..Len(R) /\ (i \in 1..(n - 1) \/ i = n)
    OBVIOUS
  <1>2. /\ o \in Seq(GoodLine) /\ Len(o) \in Nat /\ DOMAIN o = 1..Len(o) /\ Len(o) <= M
        /\ \A j \in 1..Len(o) : o[j] \in GoodLine /\ o[j].reason # "" /\ \E i \in 1..(n - 1) : o[j] = R[i]
        /\ \A i, j \in 1..Len(o) : o[i].reason = o[j].reason => i = j
    <2>1. /\ o \in Seq(GoodLine) /\ Len(o) <= M
          /\ \A j \in 1..Len(o) : o[j].reason # "" /\ \E i \in 1..(n - 1) : o[j] = R[i]
          /\ \A i, j \in 1..Len(o) : o[i].reason = o[j].reason => i = j
      BY DEF QuotesSoFar
    <2>2. o \in Seq(GoodLine)
      BY DEF QuotesSoFar
    <2>3. Len(o) \in Nat /\ DOMAIN o = 1..Len(o) /\ \A j \in 1..Len(o) : o[j] \in GoodLine
      BY <2>2
    <2> QED BY <2>1, <2>2, <2>3
  <1>3. PICK m \in Nat : m = Len(o) /\ m <= M
    BY <1>2
  <1>4. \A i \in 1..(n - 1) : \/ R[i].reason = ""
                              \/ \E j \in 1..Len(o) : o[j].reason = R[i].reason
                              \/ Len(o) = M /\ \A j \in 1..Len(o) : quote_strength(o[j]) >= quote_strength(R[i])
    BY DEF QuotesSoFar
  <1>5. \A j \in 1..Len(o) : quote_strength(o[j]) >= quote_strength(r)
    <2> TAKE j \in 1..Len(o)
    <2>1. PICK i \in 1..(n - 1) : o[j] = R[i]
      BY <1>2
    <2>2. i < n /\ i \in 1..Len(R)
      BY <1>1
    <2> QED BY <2>1, <2>2 DEF Falling
  <1>6. \A i \in 1..(n - 1) : i \in 1..n
    BY <1>1
  <1>7. r \in GoodLine
    BY <1>1
  <1> HIDE DEF r
  <1>8. CASE Quotable(o, r, M)
    <2> DEFINE p == Append(o, r)
    <2>1. Quote(o, R[n], M) = p
      BY <1>8 DEF Quote, r
    <2>2. Len(o) < M /\ r.reason # "" /\ \A k \in 1..Len(o) : o[k].reason # r.reason
      BY <1>2, <1>8 DEF Quotable
    <2>3. /\ p \in Seq(GoodLine) /\ Len(p) = Len(o) + 1 /\ p[Len(p)] = r
          /\ \A j \in 1..Len(o) : p[j] = o[j]
      <3>1. r \in GoodLine /\ o \in Seq(GoodLine)
        BY <1>2, <1>7
      <3> QED BY <3>1, AppendIs
    <2> HIDE DEF p
    <2>4. Len(p) = m + 1
      BY <1>3, <2>3
    <2>5. \A j \in 1..Len(p) : j \in 1..Len(o) \/ j = Len(p)
      BY <1>3, <2>4
    <2>6. Len(p) \in 1..Len(p) /\ \A j \in 1..Len(o) : j \in 1..Len(p)
      BY <1>3, <2>4
    <2>7. Len(p) <= M /\ Len(o) # M
      <3>1. m < M
        BY <1>3, <2>2
      <3>2. m + 1 <= M /\ m # M
        BY <1>3, <3>1
      <3> QED BY <1>3, <2>4, <3>2
    <2>8. \A j \in 1..Len(p) : p[j].reason # "" /\ \E i \in 1..n : p[j] = R[i]
      <3> TAKE j \in 1..Len(p)
      <3>1. CASE j \in 1..Len(o)
        BY <1>2, <1>6, <2>3, <3>1
      <3>2. CASE j = Len(p)
        <4>1. n \in 1..n
          BY <1>1
        <4> QED BY <2>2, <2>3, <3>2, <4>1 DEF r
      <3> QED BY <2>5, <3>1, <3>2
    <2>9. \A i, j \in 1..Len(p) : p[i].reason = p[j].reason => i = j
      BY <1>2, <2>2, <2>3, <2>5
    <2>10. \A i \in 1..n : R[i].reason = "" \/ \E j \in 1..Len(p) : p[j].reason = R[i].reason
      <3> TAKE i \in 1..n
      <3>1. CASE i = n
        BY <2>3, <2>6, <3>1 DEF r
      <3>2. CASE i \in 1..(n - 1)
        <4>1. R[i].reason = "" \/ \E j \in 1..Len(o) : o[j].reason = R[i].reason
          BY <1>4, <2>7, <3>2
        <4> QED BY <2>3, <2>6, <4>1
      <3> QED BY <1>1, <3>1, <3>2
    <2> QED BY <2>1, <2>3, <2>7, <2>8, <2>9, <2>10 DEF QuotesSoFar
  <1>9. CASE ~Quotable(o, r, M)
    <2>1. Quote(o, R[n], M) = o
      BY <1>9 DEF Quote, r
    <2>2. Len(o) = M \/ r.reason = "" \/ \E j \in 1..Len(o) : o[j].reason = r.reason
      <3>1. Len(o) < M \/ Len(o) = M
        BY <1>3
      <3>2. DOMAIN o = 1..Len(o)
        BY <1>2
      <3> QED BY <1>9, <3>1, <3>2 DEF Quotable
    <2>3. \A i \in 1..n : \/ R[i].reason = ""
                          \/ \E j \in 1..Len(o) : o[j].reason = R[i].reason
                          \/ Len(o) = M /\ \A j \in 1..Len(o) : quote_strength(o[j]) >= quote_strength(R[i])
      <3> TAKE i \in 1..n
      <3>1. CASE i = n
        BY <1>5, <2>2, <3>1 DEF r
      <3>2. CASE i \in 1..(n - 1)
        BY <1>4, <3>2
      <3> QED BY <1>1, <3>1, <3>2
    <2>4. \A j \in 1..Len(o) : o[j].reason # "" /\ \E i \in 1..n : o[j] = R[i]
      BY <1>2, <1>6
    <2> QED BY <1>2, <2>1, <2>3, <2>4 DEF QuotesSoFar
  <1> QED BY <1>8, <1>9

\* So it holds after the last row.
LEMMA QuotesAre ==
  ASSUME NEW R \in Seq(GoodLine), Falling(R), NEW M \in Nat
  PROVE  QuotesSoFar(QuotedAfter(R, M)[Len(R)], R, Len(R), M)
  <1> DEFINE N == Len(R)
             f == QuotedAfter(R, M)
             S == {n \in 0..N : QuotesSoFar(f[n], R, n, M)}
  <1>1. N \in Nat /\ f[0] = <<>> /\ \A n \in 1..N : f[n] = Quote(f[n - 1], R[n], M)
    BY QuotedIs
  <1> HIDE DEF f
  <1>2. 0 \in S
    <2>1. f[0] \in Seq(GoodLine) /\ Len(f[0]) = 0
      BY <1>1
    <2>2. QuotesSoFar(f[0], R, 0, M)
      BY <2>1 DEF QuotesSoFar
    <2> QED BY <1>1, <2>2
  <1>3. ASSUME NEW n \in 1..N, n - 1 \in S PROVE n \in S
    <2>1. QuotesSoFar(f[n - 1], R, n - 1, M) /\ n \in 0..N
      BY <1>1, <1>3
    <2> QED BY <1>1, <2>1, QuoteNext
  <1>4. S = 0..N
    <2> HIDE DEF S
    <2>1. S \in SUBSET (0..N)
      BY DEF S
    <2> QED BY <1>1, <1>2, <1>3, <2>1, LeastMissing
  <1>5. N \in S
    BY <1>1, <1>4
  <1> QED BY <1>5 DEF f

\* All rows are the rows, bucket by bucket.
LEMMA AllRowsAre ==
  ASSUME NEW r \in Seq(GoodLine)
  PROVE  /\ AllRows(r) \in Seq(GoodLine) /\ Len(AllRows(r)) = Len(r) /\ Len(r) \in Nat
         /\ \A k \in 1..Len(r) : \E j \in 1..Len(r) : AllRows(r)[k] = r[j]
         /\ \A j \in 1..Len(r) : \E k \in 1..Len(r) : AllRows(r)[k] = r[j]
  <1> DEFINE of(b) == At(r, OfBucket(r, b))
             In(s) == /\ s \in Seq(GoodLine) /\ \A k \in 1..Len(s) : \E j \in 1..Len(r) : s[k] = r[j]
             Has(s, b) == \A j \in OfBucket(r, b) : \E k \in 1..Len(s) : s[k] = r[j]
             two == of(1) \o of(2)
             three == two \o of(3)
             four == three \o of(4)
  <1>1. 1 \in Buckets /\ 2 \in Buckets /\ 3 \in Buckets /\ 4 \in Buckets /\ Buckets = {1, 2, 3, 4}
    BY FourBuckets
  <1>2. four = AllRows(r)
    BY DEF AllRows
  <1>3. \A b \in Buckets : In(of(b)) /\ Has(of(b), b)
    <2> TAKE b \in Buckets
    <2>1. OfBucket(r, b) \in SUBSET (1..Len(r))
      BY BucketsPartition
    <2> QED BY <2>1, AtIs
  <1> HIDE DEF of
  <1>4. ASSUME NEW u, NEW v, In(u), In(v)
        PROVE  /\ In(u \o v)
               /\ \A b : Has(u, b) => Has(u \o v, b)
               /\ \A b : Has(v, b) => Has(u \o v, b)
    <2> DEFINE w == u \o v
    <2>1. u \in Seq(GoodLine) /\ v \in Seq(GoodLine)
      BY <1>4
    <2>2. /\ w \in Seq(GoodLine) /\ Len(u) \in Nat /\ Len(v) \in Nat /\ Len(w) = Len(u) + Len(v)
          /\ \A k \in 1..(Len(u) + Len(v)) : w[k] = IF k <= Len(u) THEN u[k] ELSE v[k - Len(u)]
      BY <2>1, JoinIs
    <2>3. PICK m \in Nat, n \in Nat : m = Len(u) /\ n = Len(v)
      BY <2>2
    <2> HIDE DEF w
    <2>4. /\ Len(w) = m + n
          /\ \A k \in 1..m : k \in 1..Len(w) /\ w[k] = u[k]
          /\ \A k \in 1..n : m + k \in 1..Len(w) /\ w[m + k] = v[k]
          /\ \A k \in 1..Len(w) : k \in 1..m \/ \E i \in 1..n : k = m + i
      <3>1. Len(w) = m + n /\ \A k \in 1..(m + n) : w[k] = IF k <= m THEN u[k] ELSE v[k - m]
        BY <2>2, <2>3
      <3>2. \A k \in 1..m : k \in 1..(m + n) /\ k <= m
        OBVIOUS
      <3>3. \A k \in 1..n : m + k \in 1..(m + n) /\ ~(m + k <= m) /\ (m + k) - m = k
        OBVIOUS
      <3>4. \A k \in 1..(m + n) : k \in 1..m \/ (k - m \in 1..n /\ k = m + (k - m))
        OBVIOUS
      <3> QED BY <3>1, <3>2, <3>3, <3>4
    <2>5. In(w)
      <3>1. \A k \in 1..m : \E j \in 1..Len(r) : u[k] = r[j]
        BY <1>4, <2>3
      <3>2. \A k \in 1..n : \E j \in 1..Len(r) : v[k] = r[j]
        BY <1>4, <2>3
      <3>3. \A k \in 1..Len(w) : \E j \in 1..Len(r) : w[k] = r[j]
        <4> TAKE k \in 1..Len(w)
        <4>1. CASE k \in 1..m
          BY <2>4, <3>1, <4>1
        <4>2. CASE \E i \in 1..n : k = m + i
          <5>1. PICK i \in 1..n : k = m + i
            BY <4>2
          <5>2. w[k] = v[i]
            BY <2>4, <5>1
          <5> QED BY <3>2, <5>2
        <4> QED BY <2>4, <4>1, <4>2
      <3> QED BY <2>2, <3>3
    <2>6. ASSUME NEW b, Has(u, b) PROVE Has(w, b)
      <3> SUFFICES ASSUME NEW j \in OfBucket(r, b) PROVE \E k \in 1..Len(w) : w[k] = r[j]
        OBVIOUS
      <3>1. PICK k \in 1..m : u[k] = r[j]
        BY <2>3, <2>6
      <3> QED BY <2>4, <3>1
    <2>7. ASSUME NEW b, Has(v, b) PROVE Has(w, b)
      <3> SUFFICES ASSUME NEW j \in OfBucket(r, b) PROVE \E k \in 1..Len(w) : w[k] = r[j]
        OBVIOUS
      <3>1. PICK k \in 1..n : v[k] = r[j]
        BY <2>3, <2>7
      <3> QED BY <2>4, <3>1
    <2> QED BY <2>5, <2>6, <2>7 DEF w
  <1> HIDE DEF In, Has
  <1>5. In(two) /\ Has(two, 1) /\ Has(two, 2)
    BY <1>1, <1>3, <1>4
  <1> HIDE DEF two
  <1>6. In(three) /\ Has(three, 1) /\ Has(three, 2) /\ Has(three, 3)
    BY <1>1, <1>3, <1>4, <1>5
  <1> HIDE DEF three
  <1>7. In(four) /\ Has(four, 1) /\ Has(four, 2) /\ Has(four, 3) /\ Has(four, 4)
    BY <1>1, <1>3, <1>4, <1>6
  <1> HIDE DEF four
  <1>8. AllRows(r) \in Seq(GoodLine) /\ Len(AllRows(r)) = Len(r) /\ Len(r) \in Nat
    <2>1. [x \in GoodLine |-> 0] \in [GoodLine -> Int]
      OBVIOUS
    <2>2. Len(r) \in Nat
      OBVIOUS
    <2> QED BY <2>1, <2>2, MeasureOfBuckets
  <1>9. ASSUME NEW j \in 1..Len(r) PROVE \E k \in 1..Len(r) : four[k] = r[j]
    <2>1. r[j].bucket \in {1, 2, 3, 4} /\ j \in DOMAIN r
      <3>1. r[j] \in GoodLine /\ j \in DOMAIN r
        OBVIOUS
      <3> QED BY <1>1, <3>1 DEF GoodLine
    <2>2. j \in OfBucket(r, 1) \/ j \in OfBucket(r, 2) \/ j \in OfBucket(r, 3) \/ j \in OfBucket(r, 4)
      BY <2>1 DEF OfBucket
    <2>3. \E k \in 1..Len(four) : four[k] = r[j]
      BY <1>7, <2>2 DEF Has
    <2> QED BY <1>2, <1>8, <2>3
  <1>10. \A k \in 1..Len(r) : \E j \in 1..Len(r) : four[k] = r[j]
    BY <1>2, <1>7, <1>8 DEF In
  <1> QED BY <1>2, <1>8, <1>9, <1>10

\* The quotes q are the most decided of the rows r, each text once, as many as fit.
QuotesFit(q, r, M) ==
  LET texts == {q[k].reason : k \in DOMAIN q}
      given == {r[k].reason : k \in DOMAIN r} \ {""}
  IN  /\ Cardinality(texts) = Len(q)
      /\ Len(q) = Smaller(M, Cardinality(given))
      /\ \A k \in DOMAIN r : r[k].reason \in given \ texts =>
           \A j \in DOMAIN q : quote_strength(q[j]) >= quote_strength(r[k])

LEMMA QuotesOfRows ==
  ASSUME NEW r \in Seq(GoodLine), NEW M \in Nat
  PROVE  QuotesFit(quotes_from_all_rows(AllRows(r), M), r, M)
  <1> DEFINE R == Ranked(AllRows(r))
             q == quotes_from_all_rows(AllRows(r), M)
             t == [k \in 1..Len(q) |-> q[k].reason]
             texts == {q[k].reason : k \in DOMAIN q}
             given == {r[k].reason : k \in DOMAIN r} \ {""}
             n == Len(r)
  <1>1. /\ n \in Nat /\ DOMAIN r = 1..n /\ R \in Seq(GoodLine) /\ Len(R) = n
        /\ \A k \in 1..n : \E j \in 1..n : R[k] = r[j]
        /\ \A j \in 1..n : \E k \in 1..n : R[k] = r[j]
        /\ Falling(R)
    <2> DEFINE all == AllRows(r)
    <2>1. all \in Seq(GoodLine) /\ Len(all) = n /\ n \in Nat /\ DOMAIN r = 1..n
      BY AllRowsAre
    <2>2. /\ \A k \in 1..n : \E j \in 1..n : all[k] = r[j]
          /\ \A j \in 1..n : \E k \in 1..n : all[k] = r[j]
      BY AllRowsAre
    <2> HIDE DEF all, n
    <2>3. /\ R \in Seq(GoodLine) /\ Len(R) = n
          /\ \A k \in 1..n : \E i \in 1..n : R[k] = all[i]
          /\ \A i \in 1..n : \E k \in 1..n : R[k] = all[i]
          /\ \A k, l \in 1..n : k < l => quote_strength(R[k]) >= quote_strength(R[l])
      <3>1. Len(all) = n /\ all \in Seq(GoodLine)
        BY <2>1
      <3> QED BY <3>1, RankedIs DEF all
    <2> HIDE DEF R
    <2>4. Falling(R)
      BY <2>3 DEF Falling
    <2>5. \A k \in 1..n : \E j \in 1..n : R[k] = r[j]
      <3> TAKE k \in 1..n
      <3>1. PICK i \in 1..n : R[k] = all[i]
        BY <2>3
      <3> QED BY <2>2, <3>1
    <2>6. \A j \in 1..n : \E k \in 1..n : R[k] = r[j]
      <3> TAKE j \in 1..n
      <3>1. PICK i \in 1..n : all[i] = r[j]
        BY <2>2
      <3> QED BY <2>3, <3>1
    <2> QED BY <2>1, <2>3, <2>4, <2>5, <2>6
  <1>2. QuotesSoFar(q, R, n, M)
    <2>1. q = QuotedAfter(R, M)[n]
      <3>1. Len(AllRows(r)) = n
        BY AllRowsAre
      <3>2. q = QuotedAfter(R, M)[Len(AllRows(r))]
        BY DEF quotes_from_all_rows
      <3> HIDE DEF q, R, n
      <3> QED BY <3>1, <3>2
    <2>2. QuotesSoFar(QuotedAfter(R, M)[Len(R)], R, Len(R), M)
      BY <1>1, QuotesAre
    <2> HIDE DEF q, R
    <2> QED BY <1>1, <2>1, <2>2
  <1> HIDE DEF n, q, R
  <1>3. q \in Seq(GoodLine)
    BY <1>2 DEF QuotesSoFar
  <1>4. Len(q) \in Nat /\ DOMAIN q = 1..Len(q) /\ \A j \in 1..Len(q) : q[j] \in GoodLine
    BY <1>3
  <1>5. PICK m \in Nat : m = Len(q) /\ m <= M
    BY <1>2, <1>4 DEF QuotesSoFar
  <1>6. Cardinality(texts) = m /\ IsFiniteSet(texts)
    <2>1. t \in Seq(texts) /\ Len(t) = m /\ \A k \in 1..m : t[k] = q[k].reason
      BY <1>4, <1>5
    <2>2. Distinct(t)
      BY <1>2, <1>5, <2>1 DEF QuotesSoFar, Distinct
    <2>3. \A x \in texts : \E k \in 1..m : t[k] = x
      BY <1>4, <1>5, <2>1
    <2> HIDE DEF t, texts
    <2>4. Range(t) = texts /\ Cardinality(Range(t)) = m /\ IsFiniteSet(Range(t))
      BY <2>1, <2>2, <2>3, DistinctCounts
    <2> QED BY <2>4
  <1>7. texts \in SUBSET given
    <2>1. ASSUME NEW j \in 1..m PROVE q[j].reason \in given
      <3>1. q[j].reason # "" /\ \E i \in 1..n : q[j] = R[i]
        BY <1>2, <1>5 DEF QuotesSoFar
      <3>2. PICK k \in 1..n : q[j] = R[k]
        BY <3>1
      <3>3. PICK i \in 1..n : q[j] = r[i]
        <4>1. \A l \in 1..n : \E i \in 1..n : R[l] = r[i]
          BY <1>1
        <4> QED BY <3>2, <4>1
      <3> QED BY <1>1, <3>1, <3>3
    <2> HIDE DEF given
    <2> QED BY <1>4, <1>5, <2>1
  <1>8. IsFiniteSet(given) /\ Cardinality(given) \in Nat
    <2> DEFINE G == {r[k].reason : k \in DOMAIN r}
               h == [k \in 1..n |-> r[k].reason]
    <2>1. h \in Surjection(1..n, G)
      BY <1>1 DEF Surjection
    <2>2. IsFiniteSet(1..n)
      BY <1>1, OneTo
    <2>3. given \in SUBSET G
      OBVIOUS
    <2> HIDE DEF G, h, given
    <2>4. IsFiniteSet(G)
      BY <2>1, <2>2, FS_Surjection
    <2> QED BY <2>3, <2>4, FS_Subset, FS_CardinalityType
  <1>9. \A k \in 1..n : \/ r[k].reason \notin given \/ r[k].reason \in texts
                        \/ m = M /\ \A j \in 1..m : quote_strength(q[j]) >= quote_strength(r[k])
    <2> TAKE k \in 1..n
    <2>1. PICK i \in 1..n : R[i] = r[k]
      BY <1>1
    <2>2. \/ r[k].reason = ""
          \/ \E j \in 1..m : q[j].reason = r[k].reason
          \/ m = M /\ \A j \in 1..m : quote_strength(q[j]) >= quote_strength(r[k])
      BY <1>2, <1>5, <2>1 DEF QuotesSoFar
    <2>3. "" \notin given /\ \A j \in 1..m : q[j].reason \in texts
      BY <1>4, <1>5
    <2> HIDE DEF given, texts
    <2> QED BY <2>2, <2>3
  <1>10. \A x \in given : \E k \in 1..n : r[k].reason = x
    BY <1>1
  <1> HIDE DEF given, texts
  <1>11. m <= Cardinality(given)
    BY <1>6, <1>7, <1>8, FS_Subset
  <1>12. m < M => Cardinality(given) = m
    <2> SUFFICES ASSUME m < M PROVE Cardinality(given) = m
      OBVIOUS
    <2>1. m # M
      BY <1>5
    <2>2. given = texts
      BY <1>7, <1>9, <1>10, <2>1
    <2> QED BY <1>6, <2>2
  <1>13. m = Smaller(M, Cardinality(given))
    BY <1>5, <1>8, <1>11, <1>12 DEF Smaller
  <1>14. \A k \in DOMAIN r : r[k].reason \in given \ texts =>
           \A j \in DOMAIN q : quote_strength(q[j]) >= quote_strength(r[k])
    BY <1>1, <1>4, <1>5, <1>9
  <1> QED BY <1>5, <1>6, <1>13, <1>14 DEF q, texts, given, QuotesFit

LEMMA QuotesFollow == ValidatorInv => QuotesAreTheStrongest
  <1> SUFFICES ASSUME ValidatorInv PROVE QuotesAreTheStrongest
    OBVIOUS
  <1> DEFINE q == Report.key_reasons.quotes
             M == Larger(0, MaxItems - 2)
  <1>1. Good \in Seq(GoodLine) /\ Len(Good) \in Nat
    BY GoodIsRows
  <1>2. M \in Nat /\ M = IF MaxItems > 2 THEN MaxItems - 2 ELSE 0
    BY ScoringAssumption DEF Larger
  <1>3. Smaller(M, 0) = 0
    <2>1. \A x \in Nat : Smaller(x, 0) = 0
      BY DEF Smaller
    <2> HIDE DEF M
    <2> QED BY <1>2, <2>1
  <1>4. Report.overall.count = Len(Good)
    BY <1>1, ReportCounts DEF Report
  <1>5. QuotesFit(q, Good, M)
    <2>1. CASE Len(Good) = 0
      <3>1. q = <<>>
        BY <1>4, <2>1 DEF Report, aggregate_results, build_key_reasons
      <3>2. DOMAIN Good = {}
        BY <1>1, <2>1
      <3> HIDE DEF q, M
      <3>3. {q[k].reason : k \in DOMAIN q} = {} /\ Len(q) = 0
        BY <3>1
      <3>4. {Good[k].reason : k \in DOMAIN Good} \ {""} = {}
        BY <3>2
      <3>5. Smaller(M, 0) = 0
        BY <1>3
      <3>6. Cardinality({}) = 0
        BY FS_EmptySet
      <3> QED BY <3>2, <3>3, <3>4, <3>5, <3>6 DEF QuotesFit
    <2>2. CASE Len(Good) # 0
      <3>1. q = quotes_from_all_rows(AllRows(Good), M)
        <4>1. q = quotes_from_all_rows(AllRows(Good), IF MaxItems > 2 THEN MaxItems - 2 ELSE 0)
          BY <1>4, <2>2 DEF Report, aggregate_results, build_key_reasons, OfBucket, AllRows
        <4> HIDE DEF q, M
        <4> QED BY <1>2, <4>1
      <3> HIDE DEF q, M
      <3> QED BY <1>1, <1>2, <3>1, QuotesOfRows
    <2> QED BY <2>1, <2>2
  <1> QED BY <1>5 DEF QuotesAreTheStrongest, QuotesFit

\* For every number of rows and of items, and every answer: the quotes are of different
\* texts, as many as there is room for or texts are given, and a text that is left out is
\* of rows that are decided no more clearly than any quoted one
\* (key_reasons.py: build_key_reasons over the rows of all buckets, sorted by strength).
THEOREM QuotesAreStrongest == Spec => []QuotesAreTheStrongest
  <1>1. Init => ValidatorInv
    BY RetrievalStarts, CountersStart, ChildInit DEF ValidatorInv
  <1>2. ValidatorInv /\ [Next]_vars => ValidatorInv'
    BY RetrievalNext, CountersNext, ChildNext DEF ValidatorInv
  <1> QED BY <1>1, <1>2, QuotesFollow, PTL DEF Spec
=============================================================================
