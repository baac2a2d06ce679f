---------------------------- MODULE SublistLemmas ---------------------------
(* What a sublist is, for any list: the entries at its places, in their    *)
(* order, each once.                                                       *)
EXTENDS Sublists, TLAPS, FiniteSetTheorems, FunctionTheorems, SequenceTheorems

LEMMA RankMoves ==
    ASSUME NEW P, IsFiniteSet(P), P \subseteq Nat
    PROVE  /\ \A i \in P : Rank(P, i) \in 1..Cardinality(P)
           /\ \A i, k \in P : i < k => Rank(P, i) < Rank(P, k)
<1> DEFINE upTo(i) == {j \in P : j <= i}
<1>1. \A i \in P : /\ upTo(i) \in SUBSET P /\ IsFiniteSet(upTo(i)) /\ i \in upTo(i)
                   /\ Cardinality(upTo(i)) \in Nat /\ Cardinality(upTo(i)) <= Cardinality(P)
  <2> SUFFICES ASSUME NEW i \in P
               PROVE  /\ upTo(i) \in SUBSET P /\ IsFiniteSet(upTo(i)) /\ i \in upTo(i)
                      /\ Cardinality(upTo(i)) \in Nat /\ Cardinality(upTo(i)) <= Cardinality(P)
    OBVIOUS
  <2>1. upTo(i) \in SUBSET P /\ i \in upTo(i)
    OBVIOUS
  <2> HIDE DEF upTo
  <2>2. QED
    BY <2>1, FS_Subset, FS_CardinalityType
<1>2. \A i \in P : Rank(P, i) = Cardinality(upTo(i))
  BY DEF Rank
<1>3. Cardinality(P) \in Nat
  BY FS_CardinalityType
<1>4. ASSUME NEW i \in P PROVE Rank(P, i) \in 1..Cardinality(P)
  <2>1. Cardinality(upTo(i)) # 0
    <3>1. upTo(i) # {}
      BY <1>1
    <3> HIDE DEF upTo
    <3>2. QED
      BY <1>1, <3>1, FS_EmptySet
  <2> HIDE DEF upTo
  <2>2. QED
    BY <1>1, <1>2, <1>3, <2>1
<1>5. ASSUME NEW i \in P, NEW k \in P, i < k PROVE Rank(P, i) < Rank(P, k)
  <2>1. upTo(i) \in SUBSET upTo(k) /\ k \notin upTo(i)
    <3>1. i \in Nat /\ k \in Nat /\ ~(k <= i)
      BY <1>5
    <3>2. \A j \in P : j \in Nat /\ (j <= i => j <= k)
      BY <1>5, <3>1
    <3>3. QED
      BY <3>1, <3>2
  <2> HIDE DEF upTo
  <2>2. upTo(i) # upTo(k)
    BY <1>1, <2>1
  <2>3. Cardinality(upTo(i)) <= Cardinality(upTo(k)) /\ Cardinality(upTo(k)) # Cardinality(upTo(i))
    BY <1>1, <2>1, <2>2, FS_Subset
  <2>4. QED
    BY <1>1, <1>2, <2>3
<1>6. QED
  BY <1>4, <1>5

\* Every number up to the number of places is the rank of a place.
LEMMA RankReaches ==
    ASSUME NEW P, IsFiniteSet(P), P \subseteq Nat
    PROVE  \A n \in 1..Cardinality(P) : \E i \in P : Rank(P, i) = n
<1> DEFINE f == [i \in P |-> Rank(P, i)]
<1>1. Cardinality(P) \in Nat
  BY FS_CardinalityType
<1>2. IsFiniteSet(1..Cardinality(P)) /\ Cardinality(1..Cardinality(P)) = Cardinality(P)
  <2>1. /\ IsFiniteSet(1..Cardinality(P))
        /\ Cardinality(1..Cardinality(P)) = IF 1 > Cardinality(P) THEN 0 ELSE Cardinality(P) - 1 + 1
    BY <1>1, FS_Interval
  <2>2. QED
    BY <1>1, <2>1
<1>3. f \in [P -> 1..Cardinality(P)]
  BY RankMoves
<1>4. \A i, k \in P : f[i] = f[k] => i = k
  <2> SUFFICES ASSUME NEW i \in P, NEW k \in P, f[i] = f[k], i # k PROVE FALSE
    OBVIOUS
  <2>1. Rank(P, i) = Rank(P, k)
    OBVIOUS
  <2>2. Rank(P, i) \in 1..Cardinality(P)
    BY RankMoves
  <2>3. Rank(P, i) \in Nat
    BY <1>1, <2>2
  <2>4. i \in Nat /\ k \in Nat /\ (i < k \/ k < i)
    OBVIOUS
  <2>5. Rank(P, i) < Rank(P, k) \/ Rank(P, k) < Rank(P, i)
    BY <2>4, RankMoves
  <2> QED
    BY <2>1, <2>3, <2>5
<1>5. f \in Injection(P, 1..Cardinality(P))
  BY <1>3, <1>4, Fun_IsInj
<1> HIDE DEF f
<1>6. f \in Surjection(P, 1..Cardinality(P))
  BY <1>2, <1>5, FS_Injection
<1>7. \A n \in 1..Cardinality(P) : \E i \in P : f[i] = n
  BY <1>6, Fun_SurjectionProperties
<1>8. QED
  BY <1>7 DEF f

\* The n-th entry of the sublist is the entry of s at the place at[n].
Takes(s, P, at) ==
    /\ at \in [1..Cardinality(P) -> P]
    /\ \A n \in 1..Cardinality(P) : Sublist(s, P)[n] = s[at[n]]
    /\ \A n, m \in 1..Cardinality(P) : n < m => at[n] < at[m]
    /\ \A i \in P : \E n \in 1..Cardinality(P) : at[n] = i

\* The order of the list is kept, and no chosen entry is left out or repeated.
LEMMA SublistKeepsOrder ==
    ASSUME NEW S, NEW s \in Seq(S), NEW P \in SUBSET (1..Len(s))
    PROVE  /\ Sublist(s, P) \in Seq(S) /\ Len(Sublist(s, P)) = Cardinality(P) /\ Cardinality(P) <= Len(s)
           /\ \E at : Takes(s, P, at)
<1> DEFINE N == Cardinality(P)
           t == Sublist(s, P)
           place(n) == CHOOSE i \in P : Rank(P, i) = n
           at == [n \in 1..N |-> place(n)]
<1>1. Len(s) \in Nat /\ IsFiniteSet(1..Len(s)) /\ Cardinality(1..Len(s)) = Len(s)
  <2>1. Len(s) \in Nat
    BY LenProperties
  <2>2. /\ IsFiniteSet(1..Len(s))
        /\ Cardinality(1..Len(s)) = IF 1 > Len(s) THEN 0 ELSE Len(s) - 1 + 1
    BY <2>1, FS_Interval
  <2>3. QED
    BY <2>1, <2>2
<1>2. IsFiniteSet(P) /\ N \in Nat /\ N <= Len(s) /\ P \subseteq Nat
  <2>1. IsFiniteSet(P) /\ Cardinality(P) <= Cardinality(1..Len(s))
    BY <1>1, FS_Subset
  <2>2. Cardinality(P) \in Nat
    BY <2>1, FS_CardinalityType
  <2>3. P \subseteq Nat
    BY <1>1
  <2>4. QED
    BY <1>1, <2>1, <2>2, <2>3
<1>3. \A n \in 1..N : place(n) \in P /\ Rank(P, place(n)) = n
  <2> SUFFICES ASSUME NEW n \in 1..N PROVE place(n) \in P /\ Rank(P, place(n)) = n
    OBVIOUS
  <2>1. \E i \in P : Rank(P, i) = n
    BY <1>2, RankReaches
  <2>2. QED
    BY <2>1
<1>4. t = [n \in 1..N |-> s[place(n)]]
  BY DEF Sublist
<1> HIDE DEF place, t, N
<1>5. \A i \in P : s[i] \in S
  BY ElementOfSeq
<1>6. t \in Seq(S) /\ Len(t) = N
  <2>1. \A n \in 1..N : t[n] \in S
    BY <1>3, <1>4, <1>5
  <2>2. t \in [1..N -> S]
    BY <1>4, <1>3, <1>5
  <2>3. QED
    BY <1>2, <2>2, SeqDef, LenProperties
<1>7. at \in [1..N -> P] /\ \A n \in 1..N : at[n] = place(n) /\ t[n] = s[at[n]]
  BY <1>3, <1>4
<1> HIDE DEF at
<1>8. ASSUME NEW n \in 1..N, NEW m \in 1..N, n < m PROVE at[n] < at[m]
  <2> SUFFICES ASSUME ~(at[n] < at[m]) PROVE FALSE
    OBVIOUS
  <2>1. at[n] \in P /\ at[m] \in P /\ Rank(P, at[n]) = n /\ Rank(P, at[m]) = m
    BY <1>3, <1>7
  <2>2. at[m] < at[n] \/ at[m] = at[n]
    <3>1. at[m] \in Nat /\ at[n] \in Nat
      BY <1>2, <2>1
    <3>2. QED
      BY <3>1
  <2>3. m < n \/ m = n
    <3>1. \A i, k \in P : i < k => Rank(P, i) < Rank(P, k)
      BY <1>2, RankMoves
    <3>2. QED
      BY <2>1, <2>2, <3>1
  <2>4. QED
    BY <1>2, <1>8, <2>3
<1>9. ASSUME NEW i \in P PROVE \E n \in 1..N : at[n] = i
  <2>1. Rank(P, i) \in 1..N
    BY <1>2, RankMoves DEF N
  <2>2. place(Rank(P, i)) \in P /\ Rank(P, place(Rank(P, i))) = Rank(P, i)
    BY <1>3, <2>1
  <2>3. place(Rank(P, i)) = i
    <3> DEFINE k == place(Rank(P, i))
    <3>1. k \in P /\ Rank(P, k) = Rank(P, i) /\ Rank(P, i) \in Nat
      BY <1>2, <2>1, <2>2
    <3> HIDE DEF k
    <3>2. ~(k < i) /\ ~(i < k)
      <4>1. \A a, b \in P : a < b => Rank(P, a) < Rank(P, b)
        BY <1>2, RankMoves
      <4>2. Rank(P, i) \in Nat
        BY <1>2, <2>1
      <4>3. QED
        BY <3>1, <4>1, <4>2
    <3>3. k \in Nat /\ i \in Nat
      BY <1>2, <3>1
    <3>4. k = i
      BY <3>2, <3>3
    <3>5. QED
      BY <3>4 DEF k
  <2>4. QED
    BY <1>7, <2>1, <2>3
<1>10. Takes(s, P, at)
  BY <1>7, <1>8, <1>9 DEF Takes, t, N
<1>11. QED
  BY <1>2, <1>6, <1>10 DEF t, N

\* What a sublist holds; it repeats nothing if the list does not.
LEMMA SublistHolds ==
    ASSUME NEW S, NEW s \in Seq(S), NEW P \in SUBSET (DOMAIN s)
    PROVE  /\ Sublist(s, P) \in Seq(S)
           /\ {Sublist(s, P)[n] : n \in DOMAIN Sublist(s, P)} = {s[i] : i \in P}
           /\ (\A i, k \in DOMAIN s : s[i] = s[k] => i = k) =>
                 \A n, m \in DOMAIN Sublist(s, P) : Sublist(s, P)[n] = Sublist(s, P)[m] => n = m
<1> DEFINE t == Sublist(s, P)
           N == Cardinality(P)
<1>1. DOMAIN s = 1..Len(s) /\ Len(s) \in Nat
  BY LenProperties
<1>2. P \in SUBSET (1..Len(s))
  BY <1>1
<1>3. t \in Seq(S) /\ Len(t) = N /\ (\E at : Takes(s, P, at))
  BY <1>2, SublistKeepsOrder
<1>4. PICK at : /\ at \in [1..N -> P]
                /\ \A n \in 1..N : t[n] = s[at[n]]
                /\ \A n, m \in 1..N : n < m => at[n] < at[m]
                /\ \A i \in P : \E n \in 1..N : at[n] = i
  BY <1>3 DEF Takes
<1> HIDE DEF t, N
<1>5. DOMAIN t = 1..N /\ N \in Nat
  BY <1>3, LenProperties
<1>6. {t[n] : n \in DOMAIN t} = {s[i] : i \in P}
  <2>1. \A n \in 1..N : at[n] \in P /\ t[n] = s[at[n]]
    BY <1>4
  <2>2. \A n \in DOMAIN t : \E i \in P : t[n] = s[i]
    BY <1>5, <2>1
  <2>3. \A i \in P : \E n \in DOMAIN t : t[n] = s[i]
    BY <1>4, <1>5, <2>1
  <2>4. QED
    BY <2>2, <2>3
<1>7. ASSUME \A i, k \in DOMAIN s : s[i] = s[k] => i = k,
             NEW n \in 1..N, NEW m \in 1..N, t[n] = t[m], n # m
      PROVE  FALSE
  <2>1. at[n] \in P /\ at[m] \in P /\ t[n] = s[at[n]] /\ t[m] = s[at[m]]
    BY <1>4
  <2>2. at[n] = at[m] /\ at[n] \in Nat
    <3>1. at[n] \in DOMAIN s /\ at[m] \in DOMAIN s /\ s[at[n]] = s[at[m]]
      BY <1>7, <2>1
    <3>2. at[n] = at[m]
      BY <1>7, <3>1
    <3>3. QED
      BY <1>1, <3>1, <3>2
  <2>3. n < m \/ m < n
    BY <1>5, <1>7
  <2>4. at[n] < at[m] \/ at[m] < at[n]
    BY <1>4, <2>3
  <2>5. QED
    BY <2>2, <2>4
<1>8. QED
  BY <1>3, <1>5, <1>6, <1>7 DEF t
=============================================================================
