-------------------------- MODULE RtwSessionProof --------------------------
(***************************************************************************)
(* What a session promises holds for every size of its queue and buffers.   *)
(* The stream that the peer gets is thinned by drops and failed allocations *)
(* and grown by what a function queues; thinning a sequence keeps every     *)
(* property of the order of its elements, so each proof about a step is one *)
(* about the messages that the step numbers.                               *)
(***************************************************************************)
EXTENDS RtwSession, SequenceTheorems, FiniteSetTheorems, TLAPS

-----------------------------------------------------------------------------
(* Sequences that lack some elements of others *)

\* f leads the elements of t, in order, to where they are in s.
Embeds(f, t, s) ==
  /\ f \in [1 .. Len(t) -> 1 .. Len(s)]
  /\ \A i, j \in 1 .. Len(t) : i < j => f[i] < f[j]
  /\ \A i \in 1 .. Len(t) : t[i] = s[f[i]]

\* t is what is left of s when some of its elements are gone.
Thins(t, s) == \E f : Embeds(f, t, s)

LEMMA ThinsSelf ==
  ASSUME NEW S, NEW s \in Seq(S)
  PROVE  Thins(s, s)
<1>1. Embeds([i \in 1 .. Len(s) |-> i], s, s)
  BY DEF Embeds
<1> QED BY <1>1 DEF Thins

LEMMA ThinsTransitive ==
  ASSUME NEW S, NEW r \in Seq(S), NEW s \in Seq(S), NEW t \in Seq(S),
         Thins(t, s), Thins(s, r)
  PROVE  Thins(t, r)
<1>1. PICK f : Embeds(f, t, s)
  BY DEF Thins
<1>2. PICK g : Embeds(g, s, r)
  BY DEF Thins
<1> DEFINE h == [i \in 1 .. Len(t) |-> g[f[i]]]
<1>3. Embeds(h, t, r)
  BY <1>1, <1>2, LenProperties DEF Embeds
<1> QED BY <1>3 DEF Thins

\* The end of a sequence.
LEMMA SuffixThins ==
  ASSUME NEW S, NEW s \in Seq(S), NEW k \in 0 .. Len(s)
  PROVE  /\ SubSeq(s, k + 1, Len(s)) \in Seq(S)
         /\ Len(SubSeq(s, k + 1, Len(s))) = Len(s) - k
         /\ Thins(SubSeq(s, k + 1, Len(s)), s)
<1> DEFINE t == SubSeq(s, k + 1, Len(s))
           f == [i \in 1 .. Len(t) |-> i + k]
<1>1. Len(s) \in Nat /\ \A i \in (k + 1) .. Len(s) : s[i] \in S
  BY ElementOfSeq
<1>2. /\ t \in Seq(S) /\ Len(t) = Len(s) - k
      /\ \A i \in 1 .. Len(t) : t[i] = s[i + k]
  BY <1>1, SubSeqProperties
<1>3. Embeds(f, t, s)
  BY <1>1, <1>2 DEF Embeds
<1> QED BY <1>2, <1>3 DEF Thins

\* The beginning of a sequence.
LEMMA PrefixThins ==
  ASSUME NEW S, NEW s \in Seq(S), NEW k \in 0 .. Len(s)
  PROVE  /\ SubSeq(s, 1, k) \in Seq(S)
         /\ Len(SubSeq(s, 1, k)) = k
         /\ \A i \in 1 .. k : SubSeq(s, 1, k)[i] = s[i]
         /\ Thins(SubSeq(s, 1, k), s)
<1> DEFINE t == SubSeq(s, 1, k)
           f == [i \in 1 .. Len(t) |-> i]
<1>1. Len(s) \in Nat /\ \A i \in 1 .. k : s[i] \in S
  BY ElementOfSeq
<1>2. /\ t \in Seq(S) /\ Len(t) = k
      /\ \A i \in 1 .. Len(t) : t[i] = s[i]
  BY <1>1, SubSeqProperties
<1>3. Embeds(f, t, s)
  BY <1>1, <1>2 DEF Embeds
<1> QED BY <1>2, <1>3 DEF Thins

LEMMA ConcatThins ==
  ASSUME NEW S, NEW a \in Seq(S), NEW b \in Seq(S),
         NEW s \in Seq(S), NEW t \in Seq(S), Thins(a, s), Thins(b, t)
  PROVE  Thins(a \o b, s \o t)
<1>1. PICK f : Embeds(f, a, s)
  BY DEF Thins
<1>2. PICK g : Embeds(g, b, t)
  BY DEF Thins
<1> DEFINE la == Len(a)
           ls == Len(s)
           h == [i \in 1 .. Len(a \o b) |->
                   IF i <= la THEN f[i] ELSE ls + g[i - la]]
<1>3. /\ Len(a \o b) = la + Len(b) /\ Len(s \o t) = ls + Len(t)
      /\ la \in Nat /\ Len(b) \in Nat /\ ls \in Nat /\ Len(t) \in Nat
  BY LenProperties, ConcatProperties
<1>4. \A i \in 1 .. la + Len(b) :
        (a \o b)[i] = IF i <= la THEN a[i] ELSE b[i - la]
  BY ConcatProperties
<1>5. \A i \in 1 .. ls + Len(t) :
        (s \o t)[i] = IF i <= ls THEN s[i] ELSE t[i - ls]
  BY ConcatProperties
<1>6. \A i \in 1 .. la : f[i] \in 1 .. ls
  BY <1>1 DEF Embeds
<1>7. \A i \in (la + 1) .. (la + Len(b)) :
        i - la \in 1 .. Len(b) /\ g[i - la] \in 1 .. Len(t)
  <2>1. \A i \in (la + 1) .. (la + Len(b)) : i - la \in 1 .. Len(b)
    BY <1>3
  <2>2. \A k \in 1 .. Len(b) : g[k] \in 1 .. Len(t)
    BY <1>2 DEF Embeds
  <2> QED BY <2>1, <2>2
<1>8. h \in [1 .. Len(a \o b) -> 1 .. Len(s \o t)]
  BY <1>3, <1>6, <1>7
<1>9. ASSUME NEW i \in 1 .. Len(a \o b), NEW j \in 1 .. Len(a \o b), i < j
      PROVE  h[i] < h[j]
  <2>1. CASE j <= la
    BY <2>1, <1>1, <1>3, <1>9 DEF Embeds
  <2>2. CASE i <= la /\ j > la
    BY <2>2, <1>3, <1>6, <1>7, <1>9
  <2>3. CASE i > la
    <3>1. /\ i - la \in 1 .. Len(b) /\ j - la \in 1 .. Len(b) /\ i - la < j - la
          /\ g[i - la] \in Int /\ g[j - la] \in Int
      BY <2>3, <1>3, <1>7, <1>9
    <3>2. g[i - la] < g[j - la]
      BY <3>1, <1>2 DEF Embeds
    <3> QED BY <2>3, <3>1, <3>2, <1>3, <1>9
  <2> QED BY <2>1, <2>2, <2>3, <1>3, <1>9
<1>10. ASSUME NEW i \in 1 .. Len(a \o b)
       PROVE  (a \o b)[i] = (s \o t)[h[i]]
  <2>1. CASE i <= la
    BY <2>1, <1>1, <1>3, <1>4, <1>5, <1>6 DEF Embeds
  <2>2. CASE i > la
    <3>1. i - la \in 1 .. Len(b) /\ g[i - la] \in 1 .. Len(t)
      BY <2>2, <1>3, <1>7
    <3>2. b[i - la] = t[g[i - la]]
      BY <3>1, <1>2 DEF Embeds
    <3>3. h[i] = ls + g[i - la] /\ h[i] \in 1 .. ls + Len(t) /\ ~(h[i] <= ls)
          /\ h[i] - ls = g[i - la]
      BY <2>2, <3>1, <1>3
    <3>4. (a \o b)[i] = b[i - la]
      BY <2>2, <1>3, <1>4
    <3>5. (s \o t)[h[i]] = t[h[i] - ls]
      BY <3>3, <1>5
    <3> QED BY <3>2, <3>3, <3>4, <3>5
  <2>3. i <= la \/ i > la
    BY <1>3
  <2> QED BY <2>1, <2>2, <2>3
<1>11. Embeds(h, a \o b, s \o t)
  BY <1>8, <1>9, <1>10 DEF Embeds
<1> QED BY <1>11 DEF Thins

LEMMA ConcatAssoc ==
  ASSUME NEW S, NEW a \in Seq(S), NEW b \in Seq(S), NEW c \in Seq(S)
  PROVE  (a \o b) \o c = a \o (b \o c)
OBVIOUS

LEMMA FiniteDomain ==
  ASSUME NEW S, NEW s \in Seq(S)
  PROVE  /\ Len(s) \in Nat /\ IsFiniteSet(1 .. Len(s))
         /\ Cardinality(1 .. Len(s)) = Len(s)
<1>1. Len(s) \in Nat
  BY LenProperties
<1>2. /\ IsFiniteSet(1 .. Len(s))
      /\ Cardinality(1 .. Len(s)) = IF 1 > Len(s) THEN 0 ELSE Len(s) - 1 + 1
  BY <1>1, FS_Interval
<1> QED BY <1>1, <1>2

LEMMA DisjointUnion ==
  ASSUME NEW S, NEW T, IsFiniteSet(S), IsFiniteSet(T), S \cap T = {}
  PROVE  /\ IsFiniteSet(S \cup T)
         /\ Cardinality(S) \in Nat /\ Cardinality(T) \in Nat
         /\ Cardinality(S \cup T) = Cardinality(S) + Cardinality(T)
<1>1. Cardinality(S) \in Nat /\ Cardinality(T) \in Nat
  BY FS_CardinalityType
<1>2. Cardinality(S \cap T) = 0
  BY FS_EmptySet
<1>3. IsFiniteSet(S \cup T)
  BY FS_Union
<1>4. Cardinality(S \cup T) = Cardinality(S) + Cardinality(T) - Cardinality(S \cap T)
  BY FS_Union
<1> QED BY <1>1, <1>2, <1>3, <1>4

\* A sequence is not shorter than what is left of it.
LEMMA ThinsLen ==
  ASSUME NEW S, NEW s \in Seq(S), NEW t \in Seq(S), Thins(t, s)
  PROVE  Len(t) \in Nat /\ Len(s) \in Nat /\ Len(t) <= Len(s)
<1>1. PICK f : Embeds(f, t, s)
  BY DEF Thins
<1>2. f \in Injection(1 .. Len(t), 1 .. Len(s))
  <2>1. \A i, j \in 1 .. Len(t) : f[i] = f[j] => i = j
    BY <1>1 DEF Embeds
  <2> QED BY <1>1, <2>1 DEF Embeds, Injection, IsInjective
<1>3. /\ IsFiniteSet(1 .. Len(s))
      /\ Cardinality(1 .. Len(s)) = Len(s) /\ Cardinality(1 .. Len(t)) = Len(t)
  BY FiniteDomain
<1>4. Cardinality(1 .. Len(t)) <= Cardinality(1 .. Len(s))
  BY <1>2, <1>3, FS_Injection
<1> QED BY <1>3, <1>4, LenProperties

\* The messages of s that have a number.
NumberedIn(s) == {i \in 1 .. Len(s) : s[i].seq > 0}

\* No more numbers are missing from t than elements.
LEMMA ThinsCount ==
  ASSUME NEW S, NEW s \in Seq(S), NEW t \in Seq(S), Thins(t, s)
  PROVE  /\ Cardinality(NumberedIn(s)) \in Nat /\ Cardinality(NumberedIn(t)) \in Nat
         /\ Cardinality(NumberedIn(s))
              <= Cardinality(NumberedIn(t)) + (Len(s) - Len(t))
<1>1. PICK f : Embeds(f, t, s)
  BY DEF Thins
<1> DEFINE D == 1 .. Len(s)
           E == 1 .. Len(t)
           image == {f[i] : i \in E}
           numbers == {f[i] : i \in NumberedIn(t)}
<1>2. /\ IsFiniteSet(D) /\ Cardinality(D) = Len(s)
      /\ IsFiniteSet(E) /\ Cardinality(E) = Len(t)
      /\ Len(s) \in Nat /\ Len(t) \in Nat
  BY FiniteDomain
<1>3. /\ NumberedIn(s) \in SUBSET D /\ IsFiniteSet(NumberedIn(s))
      /\ NumberedIn(t) \in SUBSET E /\ IsFiniteSet(NumberedIn(t))
  BY <1>2, FS_Subset DEF NumberedIn
<1>4. image \subseteq D /\ numbers \subseteq D
  BY <1>1, <1>3 DEF Embeds
<1>5. Cardinality(image) = Len(t)
  <2>1. [i \in E |-> f[i]] \in Bijection(E, image)
    <3>1. \A i, j \in E : f[i] = f[j] => i = j
      BY <1>1 DEF Embeds
    <3> QED BY <3>1 DEF Bijection, Injection, Surjection, IsInjective
  <2> QED BY <2>1, <1>2, FS_Bijection DEF ExistsBijection
<1>6. IsFiniteSet(numbers) /\ Cardinality(numbers) <= Cardinality(NumberedIn(t))
  <2> DEFINE g == [i \in NumberedIn(t) |-> f[i]]
  <2>1. g \in Surjection(NumberedIn(t), numbers)
    BY DEF Surjection
  <2> HIDE DEF g
  <2> QED BY <2>1, <1>3, FS_Surjection
<1>7. IsFiniteSet(D \ image) /\ Cardinality(D \ image) = Len(s) - Len(t)
  <2>1. D \cap image = image
    BY <1>4
  <2>2. /\ IsFiniteSet(D \ image)
        /\ Cardinality(D \ image) = Cardinality(D) - Cardinality(D \cap image)
    BY <1>2, FS_Difference
  <2> QED BY <2>1, <2>2, <1>2, <1>5
<1>8. NumberedIn(s) \subseteq numbers \cup (D \ image)
  BY <1>1 DEF Embeds, NumberedIn
<1>9. /\ IsFiniteSet(numbers \cup (D \ image))
      /\ Cardinality(numbers \cup (D \ image))
           <= Cardinality(numbers) + Cardinality(D \ image)
  <2>1. numbers \cap (D \ image) = {}
    BY DEF NumberedIn
  <2> DEFINE missing == D \ image
  <2>2. IsFiniteSet(numbers) /\ IsFiniteSet(missing) /\ numbers \cap missing = {}
    BY <2>1, <1>6, <1>7
  <2>3. /\ IsFiniteSet(numbers \cup missing)
        /\ Cardinality(numbers) \in Nat /\ Cardinality(missing) \in Nat
        /\ Cardinality(numbers \cup missing) = Cardinality(numbers) + Cardinality(missing)
    <3> HIDE DEF numbers, missing
    <3> QED BY <2>2, DisjointUnion
  <2> QED BY <2>3
<1>10. Cardinality(NumberedIn(s)) <= Cardinality(numbers \cup (D \ image))
  BY <1>8, <1>9, FS_Subset
<1> QED BY <1>2, <1>3, <1>6, <1>7, <1>9, <1>10, FS_CardinalityType

\* Messages that are added count, but for the first a, which may have no number.
LEMMA ConcatCount ==
  ASSUME NEW S, NEW s \in Seq(S), NEW t \in Seq(S), NEW a \in 0 .. Len(t),
         \A i \in (a + 1) .. Len(t) : t[i].seq > 0
  PROVE  /\ Cardinality(NumberedIn(s)) \in Nat /\ Cardinality(NumberedIn(s \o t)) \in Nat
         /\ Cardinality(NumberedIn(s)) + (Len(t) - a) <= Cardinality(NumberedIn(s \o t))
<1> DEFINE added == (Len(s) + a + 1) .. (Len(s) + Len(t))
<1>1. Len(s) \in Nat /\ Len(t) \in Nat /\ Len(s \o t) = Len(s) + Len(t)
  BY LenProperties, ConcatProperties
<1>2. \A i \in 1 .. Len(s) + Len(t) :
        (s \o t)[i] = IF i <= Len(s) THEN s[i] ELSE t[i - Len(s)]
  BY ConcatProperties
<1>3. NumberedIn(s) \cup added \subseteq NumberedIn(s \o t)
  BY <1>1, <1>2 DEF NumberedIn
<1>4. IsFiniteSet(1 .. Len(s)) /\ IsFiniteSet(1 .. Len(s \o t))
  BY <1>1, FS_Interval
<1>5. IsFiniteSet(NumberedIn(s)) /\ IsFiniteSet(NumberedIn(s \o t))
  BY <1>4, FS_Subset DEF NumberedIn
<1>6. IsFiniteSet(added) /\ Cardinality(added) = Len(t) - a
  <2>1. Len(s) + a + 1 \in Int /\ Len(s) + Len(t) \in Int
    BY <1>1
  <2>2. /\ IsFiniteSet(added)
        /\ Cardinality(added) = IF Len(s) + a + 1 > Len(s) + Len(t) THEN 0
                                ELSE (Len(s) + Len(t)) - (Len(s) + a + 1) + 1
    BY <2>1, FS_Interval
  <2> QED BY <2>2, <1>1
<1>7. NumberedIn(s) \cap added = {}
  BY <1>1 DEF NumberedIn
<1>8. Cardinality(NumberedIn(s) \cup added)
        = Cardinality(NumberedIn(s)) + Cardinality(added)
  BY <1>5, <1>6, <1>7, DisjointUnion
<1>9. Cardinality(NumberedIn(s) \cup added) <= Cardinality(NumberedIn(s \o t))
  BY <1>3, <1>5, FS_Subset
<1> QED BY <1>1, <1>5, <1>6, <1>8, <1>9, FS_CardinalityType

-----------------------------------------------------------------------------
(* The order of marks *)

\* The place of k among the elements of S, by which Nth and First go.
Rank(S, k) == Cardinality({j \in S : j <= k})

LEMMA RanksGrow ==
  ASSUME NEW n \in Nat, NEW S \in SUBSET (1 .. n)
  PROVE  /\ IsFiniteSet(S) /\ Cardinality(S) \in Nat
         /\ \A k \in S : k \in Int /\ Rank(S, k) \in 1 .. Cardinality(S)
         /\ \A k, l \in S : k < l => Rank(S, k) < Rank(S, l)
<1> DEFINE upTo(k) == {j \in S : j <= k}
<1>0. \A k \in S : k \in Int
  <2>1. \A k \in S : k \in 1 .. n
    OBVIOUS
  <2> QED BY <2>1
<1>1. IsFiniteSet(S) /\ Cardinality(S) \in Nat
  <2>1. IsFiniteSet(1 .. n)
    BY FS_Interval
  <2>2. IsFiniteSet(S)
    BY <2>1, FS_Subset
  <2> QED BY <2>2, FS_CardinalityType
<1>2. ASSUME NEW k \in S
      PROVE  IsFiniteSet(upTo(k)) /\ Cardinality(upTo(k)) \in 1 .. Cardinality(S)
  <2>1. IsFiniteSet(upTo(k)) /\ Cardinality(upTo(k)) <= Cardinality(S)
    BY <1>1, FS_Subset
  <2>2. Cardinality(upTo(k)) \in Nat /\ Cardinality(upTo(k)) # 0
    <3>1. k \in upTo(k)
      OBVIOUS
    <3> HIDE DEF upTo
    <3> QED BY <2>1, <3>1, FS_CardinalityType, FS_EmptySet
  <2> QED BY <1>1, <2>1, <2>2
<1>3. ASSUME NEW k \in S, NEW l \in S, k < l
      PROVE  Cardinality(upTo(k)) < Cardinality(upTo(l))
  <2>1. upTo(k) \in SUBSET upTo(l) /\ upTo(k) # upTo(l)
    <3>1. k \in Int /\ l \in Int /\ \A j \in S : j \in Int
      BY <1>0
    <3>2. l \in upTo(l) /\ l \notin upTo(k)
      BY <3>1, <1>3
    <3>3. \A j \in upTo(k) : j \in upTo(l)
      BY <3>1, <1>3
    <3> QED BY <3>2, <3>3
  <2>2. /\ Cardinality(upTo(k)) <= Cardinality(upTo(l))
        /\ Cardinality(upTo(l)) = Cardinality(upTo(k)) => upTo(l) = upTo(k)
    BY <2>1, <1>2, FS_Subset
  <2> QED BY <2>1, <2>2, <1>2
<1> QED BY <1>0, <1>1, <1>2, <1>3 DEF Rank

\* The arrival numbers of a finite set of marks, counted from the first.
LEMMA NthInOrder ==
  ASSUME NEW n \in Nat, NEW S \in SUBSET (1 .. n)
  PROVE  /\ IsFiniteSet(S) /\ Cardinality(S) \in Nat
         /\ \A i \in 1 .. Cardinality(S) : Nth(S, i) \in S
         /\ \A i, j \in 1 .. Cardinality(S) : i < j => Nth(S, i) < Nth(S, j)
<1> DEFINE rank == [k \in S |-> Rank(S, k)]
<1>1. IsFiniteSet(S) /\ Cardinality(S) \in Nat
  BY RanksGrow
<1>2. \A k \in S : k \in Int /\ Rank(S, k) \in 1 .. Cardinality(S)
  BY RanksGrow
<1>3. \A k, l \in S : k < l => Rank(S, k) < Rank(S, l)
  BY RanksGrow
<1>4. rank \in Injection(S, 1 .. Cardinality(S))
  <2>1. rank \in [S -> 1 .. Cardinality(S)]
    BY <1>2
  <2>2. \A k, l \in S : rank[k] = rank[l] => k = l
    BY <1>2, <1>3
  <2> QED BY <2>1, <2>2 DEF Injection, IsInjective
<1>5. rank \in Surjection(S, 1 .. Cardinality(S))
  <2>1. /\ IsFiniteSet(1 .. Cardinality(S))
        /\ Cardinality(1 .. Cardinality(S)) = Cardinality(S)
    BY <1>1, FS_Interval
  <2> HIDE DEF rank
  <2> QED BY <2>1, <1>4, FS_Injection
<1>6. \A i \in 1 .. Cardinality(S) :
        Nth(S, i) \in S /\ Rank(S, Nth(S, i)) = i
  <2>1. \A i \in 1 .. Cardinality(S) : \E k \in S : Rank(S, k) = i
    BY <1>5 DEF Surjection
  <2> QED BY <2>1 DEF Nth, Rank
<1>7. ASSUME NEW i \in 1 .. Cardinality(S), NEW j \in 1 .. Cardinality(S), i < j
      PROVE  Nth(S, i) < Nth(S, j)
  <2> DEFINE k == Nth(S, i)
             l == Nth(S, j)
  <2>1. /\ k \in S /\ Rank(S, k) = i
        /\ l \in S /\ Rank(S, l) = j
    BY <1>6
  <2> HIDE DEF k, l
  <2>4. k \in Int /\ l \in Int
    BY <2>1, <1>2
  <2>2. ~(l < k)
    <3>1. l < k => Rank(S, l) < Rank(S, k)
      BY <2>1, <1>3
    <3> QED BY <3>1, <2>1, <1>7
  <2>3. l # k
    BY <2>1, <1>7
  <2>5. k < l
    BY <2>2, <2>3, <2>4
  <2> QED BY <2>5 DEF k, l
<1> QED BY <1>1, <1>6, <1>7

\* First takes no more than it is asked for.
LEMMA FirstCount ==
  ASSUME NEW n \in Nat, NEW S \in SUBSET (1 .. n), NEW m \in Nat
  PROVE  Cardinality(First(m, S)) <= m
<1> DEFINE F == First(m, S)
           rank == [k \in F |-> Rank(S, k)]
<1>1. /\ Cardinality(S) \in Nat
      /\ \A k \in S : k \in Int /\ Rank(S, k) \in 1 .. Cardinality(S)
      /\ \A k, l \in S : k < l => Rank(S, k) < Rank(S, l)
  BY RanksGrow
<1>2. \A k \in F : k \in S /\ Rank(S, k) <= m
  BY DEF First, Rank
<1> HIDE DEF F
<1>3. rank \in Injection(F, 1 .. m)
  <2>1. rank \in [F -> 1 .. m]
    <3>1. ASSUME NEW k \in F
          PROVE  Rank(S, k) \in 1 .. m
      <4>1. Rank(S, k) \in 1 .. Cardinality(S) /\ Rank(S, k) <= m
        BY <1>1, <1>2
      <4> QED BY <4>1, <1>1
    <3> QED BY <3>1
  <2>2. \A k, l \in F : rank[k] = rank[l] => k = l
    <3>1. ASSUME NEW k \in F, NEW l \in F, Rank(S, k) = Rank(S, l)
          PROVE  k = l
      <4>1. /\ k \in Int /\ l \in Int
            /\ Rank(S, k) \in 1 .. Cardinality(S) /\ Rank(S, l) \in 1 .. Cardinality(S)
            /\ k < l => Rank(S, k) < Rank(S, l)
            /\ l < k => Rank(S, l) < Rank(S, k)
        BY <1>1, <1>2
      <4> QED BY <4>1, <3>1, <1>1
    <3> QED BY <3>1
  <2> QED BY <2>1, <2>2 DEF Injection, IsInjective
<1>4. IsFiniteSet(1 .. m) /\ Cardinality(1 .. m) = m
  BY FS_Interval
<1> HIDE DEF rank
<1>5. Cardinality(F) <= Cardinality(1 .. m)
  BY <1>3, <1>4, FS_Injection
<1> QED BY <1>4, <1>5 DEF F

-----------------------------------------------------------------------------
(* What enqueueing leaves of the queue *)

LEMMA NewestThins ==
  ASSUME NEW S, NEW q \in Seq(S)
  PROVE  /\ Newest(q) \in Seq(S) /\ Len(Newest(q)) <= QueueCap
         /\ Thins(Newest(q), q)
<1>1. Len(q) \in Nat /\ QueueCap \in Nat
  BY SessionConstants
<1>2. CASE Len(q) > QueueCap
  <2> DEFINE k == Len(q) - QueueCap
  <2>1. k \in 0 .. Len(q) /\ Newest(q) = SubSeq(q, k + 1, Len(q))
    BY <1>1, <1>2 DEF Newest
  <2>2. Len(q) - k = QueueCap
    BY <1>1
  <2> HIDE DEF k
  <2>3. /\ SubSeq(q, k + 1, Len(q)) \in Seq(S)
        /\ Len(SubSeq(q, k + 1, Len(q))) = Len(q) - k
        /\ Thins(SubSeq(q, k + 1, Len(q)), q)
    BY <2>1, SuffixThins
  <2> QED BY <2>1, <2>2, <2>3, <1>1
<1>3. CASE ~(Len(q) > QueueCap)
  BY <1>1, <1>3, ThinsSelf DEF Newest
<1> QED BY <1>2, <1>3

LEMMA EvictedThins ==
  ASSUME NEW S, NEW q \in Seq(S)
  PROVE  Evicted(q) \in Seq(S) /\ Thins(Evicted(q), q)
<1>1. CASE Len(q) = QueueCap
  <2>1. q # <<>> /\ 1 \in 0 .. Len(q)
    BY <1>1, SessionConstants
  <2>2. Evicted(q) = SubSeq(q, 1 + 1, Len(q))
    BY <1>1, <2>1, TailIsSubSeq DEF Evicted
  <2> QED BY <2>1, <2>2, SuffixThins
<1>2. CASE Len(q) # QueueCap
  BY <1>2, ThinsSelf DEF Evicted
<1> QED BY <1>1, <1>2

\* What becomes of ms in the outcome o: kept are queued, after what the queue
\* still holds.
Keeps(S, o, ms, goOn, kept) ==
  /\ kept \in Seq(S) /\ Thins(kept, ms) /\ Len(kept) = o.pushed
  /\ ~goOn => kept = SubSeq(ms, 1, o.pushed)
  /\ goOn => Len(ms) <= o.pushed + 1
  /\ o.pushed < Len(ms) => failures < MaxFailures
  /\ o.queue \in Seq(S) /\ Len(o.queue) <= QueueCap
  /\ Thins(o.queue, outbound \o kept)

LEMMA OutcomeKeeps ==
  ASSUME NEW S, outbound \in Seq(S), NEW ms \in Seq(S), NEW goOn \in BOOLEAN,
         NEW o \in EnqueueOutcomes(ms, goOn)
  PROVE  \E kept : Keeps(S, o, ms, goOn, kept)
<1>1. CASE o = [queue |-> Newest(outbound \o ms), pushed |-> Len(ms)]
  <2>1. outbound \o ms \in Seq(S)
    BY ConcatProperties
  <2>2. Thins(ms, ms) /\ ms = SubSeq(ms, 1, Len(ms)) /\ Len(ms) \in Nat
    BY ThinsSelf, SubSeqFull, LenProperties
  <2>3. o.queue = Newest(outbound \o ms) /\ o.pushed = Len(ms)
    BY <1>1
  <2>4. /\ o.queue \in Seq(S) /\ Len(o.queue) <= QueueCap
        /\ Thins(o.queue, outbound \o ms)
    BY <2>1, <2>3, NewestThins
  <2>5. Len(ms) <= o.pushed + 1 /\ ~(o.pushed < Len(ms))
    BY <2>2, <2>3
  <2>6. Keeps(S, o, ms, goOn, ms)
    BY <2>2, <2>3, <2>4, <2>5 DEF Keeps
  <2> QED BY <2>6
<1>2. CASE o # [queue |-> Newest(outbound \o ms), pushed |-> Len(ms)]
  <2>1. PICK k \in {i \in 1 .. Len(ms) : failures < MaxFailures}, evict \in BOOLEAN :
          LET before == Newest(outbound \o SubSeq(ms, 1, k - 1))
              after == IF goOn THEN SubSeq(ms, k + 1, Len(ms)) ELSE <<>>
          IN o = [queue |-> Newest((IF evict THEN Evicted(before) ELSE before) \o after),
                  pushed |-> k - 1 + Len(after)]
    BY <1>2 DEF EnqueueOutcomes
  <2> DEFINE pre == SubSeq(ms, 1, k - 1)
             after == IF goOn THEN SubSeq(ms, k + 1, Len(ms)) ELSE <<>>
             before == Newest(outbound \o pre)
             room == IF evict THEN Evicted(before) ELSE before
             kept == pre \o after
  <2>2. /\ k \in 1 .. Len(ms) /\ failures < MaxFailures /\ Len(ms) \in Nat
        /\ k - 1 \in 0 .. Len(ms) /\ k \in 0 .. Len(ms)
    BY LenProperties
  <2>3. pre \in Seq(S) /\ Len(pre) = k - 1 /\ Thins(pre, ms)
    BY <2>2, PrefixThins
  <2>4. /\ after \in Seq(S)
        /\ Len(after) = IF goOn THEN Len(ms) - k ELSE 0
    BY <2>2, SuffixThins, EmptySeq
  <2>5. o.queue = Newest(room \o after) /\ o.pushed = k - 1 + Len(after)
    BY <2>1
  <2>6. kept \in Seq(S) /\ Len(kept) = o.pushed
    <3>1. pre \o after \in Seq(S) /\ Len(pre \o after) = Len(pre) + Len(after)
      <4> HIDE DEF pre, after
      <4> QED BY <2>3, <2>4, ConcatProperties
    <3> QED BY <3>1, <2>3, <2>5
  <2>7. Thins(kept, ms)
    <3>1. CASE goOn
      <4> DEFINE mid == SubSeq(ms, k, Len(ms))
      <4>1. k - 1 + 1 = k
        BY <2>2
      <4>2. mid \in Seq(S) /\ Len(mid) = Len(ms) - (k - 1)
        BY <2>2, <4>1, SuffixThins
      <4>3. pre \o mid = ms
        <5>1. /\ 1 \in 1 .. Len(ms) + 1 /\ k - 1 \in 1 - 1 .. Len(ms)
              /\ Len(ms) \in k - 1 .. Len(ms)
          BY <2>2
        <5>2. SubSeq(ms, 1, k - 1) \o SubSeq(ms, k - 1 + 1, Len(ms))
                = SubSeq(ms, 1, Len(ms))
          BY <5>1, ConcatAdjacentSubSeq
        <5> QED BY <5>2, <4>1, SubSeqFull
      <4>4. after = Tail(mid)
        <5>1. k \in 1 .. Len(ms) /\ Len(ms) \in k .. Len(ms)
          BY <2>2
        <5>2. Tail(SubSeq(ms, k, Len(ms))) = SubSeq(ms, k + 1, Len(ms))
          BY <5>1, HeadTailOfSubSeq, Zenon
        <5> QED BY <3>1, <5>2, Zenon
      <4>5. mid # <<>> /\ 1 \in 0 .. Len(mid)
        <5>1. Len(mid) # 0 /\ 1 \in 0 .. Len(mid)
          BY <4>2, <2>2
        <5> HIDE DEF mid
        <5> QED BY <5>1
      <4>6. after = SubSeq(mid, 1 + 1, Len(mid))
        BY <4>2, <4>4, <4>5, TailIsSubSeq
      <4>7. Thins(after, mid)
        BY <4>2, <4>5, <4>6, SuffixThins
      <4> HIDE DEF pre, after, mid, kept
      <4>8. Thins(pre \o after, pre \o mid)
        BY <4>2, <4>7, <2>3, <2>4, ThinsSelf, ConcatThins
      <4> QED BY <4>3, <4>8 DEF kept
    <3>2. CASE ~goOn
      BY <3>2, <2>3, ConcatEmptySeq
    <3> QED BY <3>1, <3>2
  <2>8. before \in Seq(S) /\ Thins(before, outbound \o pre)
    BY <2>3, ConcatProperties, NewestThins
  <2>9. room \in Seq(S) /\ Thins(room, outbound \o pre)
    <3>1. outbound \o pre \in Seq(S)
      BY <2>3, ConcatProperties
    <3> HIDE DEF before
    <3>2. Evicted(before) \in Seq(S) /\ Thins(Evicted(before), outbound \o pre)
      BY <2>8, <3>1, EvictedThins, ThinsTransitive
    <3> QED BY <3>2, <2>8
  <2>10. room \o after \in Seq(S) /\ Thins(room \o after, outbound \o kept)
    <3>0. kept = pre \o after
      OBVIOUS
    <3> HIDE DEF room, after, pre, kept
    <3>1. Thins(room \o after, (outbound \o pre) \o after)
      BY <2>3, <2>4, <2>9, ConcatProperties, ThinsSelf, ConcatThins
    <3>2. (outbound \o pre) \o after = outbound \o kept
      <4>1. outbound \in Seq(S) /\ pre \in Seq(S) /\ after \in Seq(S)
        BY <2>3, <2>4
      <4>2. (outbound \o pre) \o after = outbound \o (pre \o after)
        BY <4>1, ConcatAssoc, SMTT(30)
      <4> QED BY <3>0, <4>2
    <3> QED BY <3>1, <3>2, <2>4, <2>9, ConcatProperties
  <2>11. /\ o.queue \in Seq(S) /\ Len(o.queue) <= QueueCap
         /\ Thins(o.queue, outbound \o kept)
    <3> HIDE DEF room, after, kept
    <3>1. outbound \o kept \in Seq(S)
      BY <2>6, ConcatProperties
    <3> QED BY <3>1, <2>5, <2>10, NewestThins, ThinsTransitive
  <2>12. /\ ~goOn => kept = SubSeq(ms, 1, o.pushed)
         /\ goOn => Len(ms) <= o.pushed + 1
    <3>1. CASE goOn
      BY <3>1, <2>2, <2>4, <2>5
    <3>2. CASE ~goOn
      <4>1. after = <<>> /\ o.pushed = k - 1
        BY <3>2, <2>2, <2>4, <2>5
      <4> QED BY <3>2, <4>1, <2>3, ConcatEmptySeq
    <3> QED BY <3>1, <3>2
  <2> HIDE DEF kept
  <2> QED BY <2>2, <2>6, <2>7, <2>11, <2>12 DEF Keeps
<1> QED BY <1>1, <1>2

-----------------------------------------------------------------------------
(* The inductive invariant *)

\* x may come before y in the stream.
Precedes(x, y) ==
  /\ x.seq > 0 /\ y.seq > 0 => x.seq < y.seq
  /\ x.event = "media" /\ y.event = "media" => x.chunk < y.chunk
  /\ x.event = "mark" /\ y.event = "mark" => x.mark < y.mark
  /\ x.event = "stop" => y.event = "mark"

InOrder(s) == \A i, j \in 1 .. Len(s) : i < j => Precedes(s[i], s[j])

\* What is known of a message in the stream: the session counts on from it,
\* and the marks still pending are younger than those acknowledged.
Sound(x) ==
  /\ x.seq < seq
  /\ x.event = "media" => x.chunk < chunk /\ x.timestamp = 20 * (x.chunk - 1)
  /\ x.event = "mark" => /\ x.mark \in 1 .. Len(markPos)
                         /\ markPos[x.mark] <= consumed
                         /\ \A k \in pending : x.mark < k
  /\ x.event = "stop" => state = "STOPPED"

\* A session that has not started has queued nothing; one that has counts
\* from 1 on.
Counting ==
  /\ state = "IDLE" => /\ seq = 0 /\ chunk = 0 /\ pending = {}
                       /\ wire = <<>> /\ outbound = <<>>
  /\ state # "IDLE" => seq >= 1 /\ chunk >= 1 /\ timestamp_ms = 20 * (chunk - 1)

MarksInOrder ==
  /\ \A i \in 1 .. Len(markPos) : markPos[i] <= written
  /\ \A i, j \in 1 .. Len(markPos) : i < j => markPos[i] <= markPos[j]

SessionInv ==
  /\ SessionTypeOK
  /\ InOrder(Stream)
  /\ \A i \in 1 .. Len(Stream) : Sound(Stream[i])
  /\ Counting
  /\ MarksInOrder
  /\ GapsExplained
  /\ OneSamplePerClear
-----------------------------------------------------------------------------
(* Streams that stay in order *)

LEMMA ThinsElement ==
  ASSUME NEW S, NEW s \in Seq(S), NEW t \in Seq(S), Thins(t, s)
  PROVE  \A i \in 1 .. Len(t) : \E j \in 1 .. Len(s) : t[i] = s[j]
BY DEF Thins, Embeds

LEMMA ThinsInOrder ==
  ASSUME NEW S, NEW s \in Seq(S), NEW t \in Seq(S), Thins(t, s), InOrder(s)
  PROVE  InOrder(t)
<1>1. PICK f : Embeds(f, t, s)
  BY DEF Thins
<1>2. ASSUME NEW i \in 1 .. Len(t), NEW j \in 1 .. Len(t), i < j
      PROVE  Precedes(t[i], t[j])
  <2>1. /\ f[i] \in 1 .. Len(s) /\ f[j] \in 1 .. Len(s) /\ f[i] < f[j]
        /\ t[i] = s[f[i]] /\ t[j] = s[f[j]]
    BY <1>1, <1>2 DEF Embeds
  <2> QED BY <2>1 DEF InOrder
<1> QED BY <1>2 DEF InOrder

LEMMA ConcatElement ==
  ASSUME NEW S, NEW s \in Seq(S), NEW t \in Seq(S)
  PROVE  /\ s \o t \in Seq(S) /\ Len(s) \in Nat /\ Len(t) \in Nat
         /\ Len(s \o t) = Len(s) + Len(t)
         /\ \A i \in 1 .. Len(s \o t) :
              \/ i \in 1 .. Len(s) /\ (s \o t)[i] = s[i]
              \/ /\ i > Len(s) /\ i - Len(s) \in 1 .. Len(t)
                 /\ (s \o t)[i] = t[i - Len(s)]
<1>1. /\ s \o t \in Seq(S) /\ Len(s) \in Nat /\ Len(t) \in Nat
      /\ Len(s \o t) = Len(s) + Len(t)
      /\ \A i \in 1 .. Len(s) + Len(t) :
           (s \o t)[i] = IF i <= Len(s) THEN s[i] ELSE t[i - Len(s)]
  BY LenProperties, ConcatProperties
<1> QED BY <1>1

LEMMA ConcatInOrder ==
  ASSUME NEW S, NEW s \in Seq(S), NEW t \in Seq(S), InOrder(s), InOrder(t),
         \A i \in 1 .. Len(s), j \in 1 .. Len(t) : Precedes(s[i], t[j])
  PROVE  InOrder(s \o t)
<1> DEFINE u == s \o t
<1>1. /\ Len(s) \in Nat
      /\ \A i \in 1 .. Len(u) :
              \/ i \in 1 .. Len(s) /\ u[i] = s[i]
              \/ /\ i > Len(s) /\ i - Len(s) \in 1 .. Len(t)
                 /\ u[i] = t[i - Len(s)]
  BY ConcatElement
<1> HIDE DEF u
<1>2. ASSUME NEW i \in 1 .. Len(u), NEW j \in 1 .. Len(u), i < j
      PROVE  Precedes(u[i], u[j])
  <2>1. CASE j \in 1 .. Len(s) /\ u[j] = s[j]
    <3>1. i \in 1 .. Len(s) /\ u[i] = s[i]
      BY <1>1, <1>2, <2>1
    <3> QED BY <2>1, <3>1, <1>2 DEF InOrder
  <2>2. CASE j > Len(s) /\ j - Len(s) \in 1 .. Len(t) /\ u[j] = t[j - Len(s)]
    <3>1. CASE i \in 1 .. Len(s) /\ u[i] = s[i]
      BY <2>2, <3>1
    <3>2. CASE i > Len(s) /\ i - Len(s) \in 1 .. Len(t) /\ u[i] = t[i - Len(s)]
      <4>1. i - Len(s) < j - Len(s)
        BY <1>1, <1>2
      <4> QED BY <2>2, <3>2, <4>1 DEF InOrder
    <3> QED BY <3>1, <3>2, <1>1
  <2> QED BY <2>1, <2>2, <1>1
<1> QED BY <1>2 DEF InOrder, u

-----------------------------------------------------------------------------
(* What a step adds to the stream *)

\* The step puts the messages kept behind the stream, and the queue drops as
\* many as it counts.
Adds(kept) ==
  /\ kept \in Seq(Message)
  /\ wire' \in Seq(Message) /\ outbound' \in Seq(Message)
  /\ Len(outbound') <= QueueCap
  /\ Thins(Stream', Stream \o kept)
  /\ drops' = drops + (Len(Stream) + Len(kept) - Len(Stream'))

LEMMA StreamType ==
  ASSUME SessionTypeOK
  PROVE  /\ Stream \in Seq(Message) /\ Len(Stream) = Len(wire) + Len(outbound)
         /\ Len(wire) \in Nat /\ Len(outbound) \in Nat /\ Len(Stream) \in Nat
<1>1. wire \in Seq(Message) /\ outbound \in Seq(Message)
  BY DEF SessionTypeOK
<1> QED BY <1>1, ConcatElement DEF Stream

LEMMA EnqueueAdds ==
  ASSUME SessionTypeOK, NEW ms \in Seq(Message), NEW goOn \in BOOLEAN,
         NEW o \in EnqueueOutcomes(ms, goOn),
         NEW kept, Keeps(Message, o, ms, goOn, kept),
         drops' = drops + Dropped(o),
         wire' \in Seq(Message), outbound' \in Seq(Message),
         Len(outbound') <= QueueCap,
         wire' \o outbound' = wire \o o.queue
  PROVE  Adds(kept)
<1>1. /\ kept \in Seq(Message) /\ Len(kept) = o.pushed
      /\ o.queue \in Seq(Message) /\ Thins(o.queue, outbound \o kept)
  BY DEF Keeps
<1>2. wire \in Seq(Message) /\ outbound \in Seq(Message)
  BY DEF SessionTypeOK
<1>3. /\ outbound \o kept \in Seq(Message)
      /\ Len(wire \o o.queue) = Len(wire) + Len(o.queue)
      /\ Len(wire) \in Nat /\ Len(o.queue) \in Nat /\ Len(kept) \in Nat
  BY <1>1, <1>2, ConcatElement
<1>4. Thins(wire \o o.queue, wire \o (outbound \o kept))
  BY <1>1, <1>2, <1>3, ThinsSelf, ConcatThins
<1>5. wire \o (outbound \o kept) = Stream \o kept
  <2>1. wire \in Seq(Message) /\ outbound \in Seq(Message) /\ kept \in Seq(Message)
    BY <1>1, <1>2
  <2>2. (wire \o outbound) \o kept = wire \o (outbound \o kept)
    BY ONLY <2>1
  <2> QED BY <2>2 DEF Stream
<1>6. Stream' = wire \o o.queue
  BY DEF Stream
<1>7. Thins(Stream', Stream \o kept)
  BY <1>4, <1>5, <1>6
<1>8. Dropped(o) = Len(Stream) + Len(kept) - Len(Stream')
  <2>1. Len(Stream) = Len(wire) + Len(outbound) /\ Len(outbound) \in Nat
    BY StreamType
  <2>2. Len(Stream') = Len(wire) + Len(o.queue)
    BY <1>3, <1>6
  <2> QED BY <2>1, <2>2, <1>1, <1>3 DEF Dropped
<1> QED BY <1>1, <1>7, <1>8 DEF Adds

\* What is left to show of a step: the new messages are in order and sound,
\* what was sound stays so, and every number used is accounted for.
LEMMA AddsPreserves ==
  ASSUME SessionInv, NEW kept, Adds(kept), InOrder(kept),
         \A i \in 1 .. Len(Stream), j \in 1 .. Len(kept) : Precedes(Stream[i], kept[j]),
         \A j \in 1 .. Len(kept) : Sound(kept[j])',
         \A x \in Message : Sound(x) => Sound(x)',
         NEW a \in 0 .. Len(kept),
         \A j \in (a + 1) .. Len(kept) : kept[j].seq > 0,
         seq' \in Nat, failures \in Nat, failures' \in Nat,
         state' # "IDLE" /\ state = "IDLE" =>
           seq' - 1 <= (Len(kept) - a) + (failures' - failures),
         state' # "IDLE" /\ state # "IDLE" =>
           seq' - seq <= (Len(kept) - a) + (failures' - failures)
  PROVE  /\ InOrder(Stream)'
         /\ (\A i \in 1 .. Len(Stream) : Sound(Stream[i]))'
         /\ GapsExplained'
         /\ drops' \in Nat
<1>1. /\ kept \in Seq(Message) /\ wire' \in Seq(Message) /\ outbound' \in Seq(Message)
      /\ Thins(Stream', Stream \o kept)
      /\ drops' = drops + (Len(Stream) + Len(kept) - Len(Stream'))
  BY DEF Adds
<1>2. SessionTypeOK /\ drops \in Nat /\ seq \in Nat
  BY DEF SessionInv, SessionTypeOK
<1>3. /\ Stream \in Seq(Message) /\ Stream' \in Seq(Message) /\ Len(Stream) \in Nat
      /\ Len(Stream') \in Nat
  <2>1. Stream \in Seq(Message) /\ Len(Stream) \in Nat
    BY <1>2, StreamType
  <2>2. Stream' \in Seq(Message)
    BY <1>1, ConcatElement DEF Stream
  <2> QED BY <2>1, <2>2, LenProperties
<1>4. /\ Stream \o kept \in Seq(Message) /\ Len(kept) \in Nat
      /\ Len(Stream \o kept) = Len(Stream) + Len(kept)
      /\ \A i \in 1 .. Len(Stream \o kept) :
           \/ i \in 1 .. Len(Stream) /\ (Stream \o kept)[i] = Stream[i]
           \/ /\ i > Len(Stream) /\ i - Len(Stream) \in 1 .. Len(kept)
              /\ (Stream \o kept)[i] = kept[i - Len(Stream)]
  BY <1>1, <1>3, ConcatElement
<1>5. InOrder(Stream)'
  <2>1. InOrder(Stream)
    BY DEF SessionInv
  <2>2. InOrder(Stream \o kept)
    BY <2>1, <1>1, <1>3, ConcatInOrder
  <2>3. InOrder(Stream')
    BY <2>2, <1>1, <1>3, <1>4, ThinsInOrder
  <2> QED BY <2>3 DEF InOrder
<1>6. ASSUME NEW i \in 1 .. Len(Stream')
      PROVE  Sound(Stream[i])'
  <2> DEFINE s == Stream'
             t == Stream \o kept
  <2>1. \A k \in 1 .. Len(s) : \E j \in 1 .. Len(t) : s[k] = t[j]
    <3>1. s \in Seq(Message) /\ t \in Seq(Message) /\ Thins(s, t)
      BY <1>1, <1>3, <1>4
    <3> HIDE DEF s, t
    <3> QED BY <3>1, ThinsElement
  <2>2. PICK j \in 1 .. Len(t) : Stream'[i] = t[j]
    BY <2>1
  <2>3. PICK x : x = Stream'[i]
    OBVIOUS
  <2>4. Sound(x)'
    <3>1. CASE j \in 1 .. Len(Stream) /\ t[j] = Stream[j]
      <4>1. x \in Message /\ Sound(x)
        <5>1. Sound(Stream[j]) /\ Stream[j] \in Message
          BY <3>1, <1>3, ElementOfSeq DEF SessionInv
        <5> QED BY <5>1, <2>2, <2>3, <3>1
      <4> QED BY <4>1
    <3>2. CASE j - Len(Stream) \in 1 .. Len(kept) /\ t[j] = kept[j - Len(Stream)]
      <4>1. PICK k \in 1 .. Len(kept) : k = j - Len(Stream)
        BY <3>2
      <4> QED BY <4>1, <2>2, <2>3, <3>2
    <3> QED BY <3>1, <3>2, <1>4
  <2> QED BY <2>3, <2>4 DEF Sound
<1>7. GapsExplained' /\ drops' \in Nat
  <2>1. Numbered = NumberedIn(Stream) /\ Numbered' = NumberedIn(Stream')
    <3>1. DOMAIN Stream = 1 .. Len(Stream) /\ DOMAIN Stream' = 1 .. Len(Stream')
      BY <1>3, LenProperties
    <3> QED BY <3>1 DEF Numbered, NumberedIn
  <2> DEFINE n == Cardinality(NumberedIn(Stream))
             m == Cardinality(NumberedIn(Stream'))
             l == Cardinality(NumberedIn(Stream \o kept))
  <2>2. n \in Nat /\ l \in Nat /\ n + (Len(kept) - a) <= l
    BY <1>1, <1>3, ConcatCount
  <2>3. m \in Nat /\ l <= m + (Len(Stream \o kept) - Len(Stream'))
    BY <1>1, <1>3, <1>4, ThinsCount
  <2>4. Len(Stream') <= Len(Stream \o kept)
    BY <1>1, <1>3, <1>4, ThinsLen
  <2>5. drops' \in Nat
    BY <2>4, <1>1, <1>2, <1>3, <1>4
  <2>6. state # "IDLE" => seq - 1 <= n + drops + failures
    BY <2>1 DEF SessionInv, GapsExplained
  <2> HIDE DEF n, m, l
  <2>8. /\ Len(Stream) \in Nat /\ Len(Stream') \in Nat /\ Len(kept) \in Nat
        /\ drops' = drops + (Len(Stream) + Len(kept) - Len(Stream'))
        /\ l <= m + (Len(Stream) + Len(kept) - Len(Stream'))
    BY <1>1, <1>3, <1>4, <2>3
  <2>9. state = "IDLE" => drops + failures >= 0
    BY <1>2
  <2>7. state' # "IDLE" => seq' - 1 <= m + drops' + failures'
    <3>1. n + drops + (Len(kept) - a) <= m + drops'
      BY <2>2, <2>3, <2>5, <2>8, <1>2
    <3>2. /\ n \in Nat /\ m \in Nat /\ drops \in Nat /\ a \in Nat
          /\ Len(kept) \in Nat /\ seq \in Nat
      BY <2>2, <2>3, <2>8, <1>2
    <3>3. PICK u \in Nat, e \in Nat, f \in Nat, g \in Nat :
            u = seq' /\ e = drops' /\ f = failures /\ g = failures'
      BY <2>5
    <3>4. n + drops + (Len(kept) - a) <= m + e
      BY <3>1, <3>3
    <3>5. CASE state' # "IDLE" /\ state = "IDLE"
      <4>1. u - 1 <= (Len(kept) - a) + (g - f)
        BY <3>3, <3>5
      <4>2. u - 1 <= m + e + g
        BY ONLY <4>1, <3>2, <3>4
      <4> QED BY <3>3, <4>2
    <3>6. CASE state' # "IDLE" /\ state # "IDLE"
      <4>1. u - seq <= (Len(kept) - a) + (g - f)
        BY <3>3, <3>6
      <4>2. seq - 1 <= n + drops + f
        BY <3>3, <3>6, <2>6
      <4>3. u - 1 <= m + e + g
        BY ONLY <4>1, <4>2, <3>2, <3>4
      <4> QED BY <3>3, <4>3
    <3> QED BY <3>5, <3>6
  <2> QED BY <2>1, <2>5, <2>7 DEF GapsExplained, m
<1> QED BY <1>5, <1>6, <1>7
\* A step that enqueues ms with the outcome o and sends nothing.
LEMMA EnqueueStep ==
  ASSUME SessionTypeOK, NEW ms \in Seq(Message), NEW goOn \in BOOLEAN,
         NEW o \in EnqueueOutcomes(ms, goOn), Enqueue(ms, o), wire' = wire
  PROVE  /\ \E kept : Keeps(Message, o, ms, goOn, kept) /\ Adds(kept)
         /\ failures' = failures + IF o.pushed < Len(ms) THEN 1 ELSE 0
<1>1. outbound \in Seq(Message) /\ wire \in Seq(Message)
  BY DEF SessionTypeOK
<1>2. PICK kept : Keeps(Message, o, ms, goOn, kept)
  BY <1>1, OutcomeKeeps
<1>3. outbound' = o.queue /\ drops' = drops + Dropped(o)
  BY DEF Enqueue
<1>4. /\ outbound' \in Seq(Message) /\ Len(outbound') <= QueueCap
      /\ wire' \in Seq(Message) /\ wire' \o outbound' = wire \o o.queue
  BY <1>1, <1>2, <1>3 DEF Keeps
<1>5. Adds(kept)
  BY <1>2, <1>3, <1>4, EnqueueAdds
<1> QED BY <1>2, <1>5 DEF Enqueue

\* How many of ms an outcome leaves, and what failures it counts.
LEMMA OutcomeCount ==
  ASSUME SessionTypeOK, NEW ms \in Seq(Message), NEW goOn \in BOOLEAN,
         NEW o, NEW kept, Keeps(Message, o, ms, goOn, kept)
  PROVE  /\ Len(ms) \in Nat /\ o.pushed \in 0 .. Len(ms) /\ o.pushed = Len(kept)
         /\ kept \in Seq(Message)
         /\ failures \in Nat
         /\ failures + (IF o.pushed < Len(ms) THEN 1 ELSE 0) \in 0 .. MaxFailures
<1>1. kept \in Seq(Message) /\ Thins(kept, ms) /\ Len(kept) = o.pushed
  BY DEF Keeps
<1>2. Len(kept) \in Nat /\ Len(ms) \in Nat /\ Len(kept) <= Len(ms)
  BY <1>1, ThinsLen
<1>3. failures \in 0 .. MaxFailures /\ MaxFailures \in Nat
  BY SessionConstants DEF SessionTypeOK
<1>4. o.pushed < Len(ms) => failures < MaxFailures
  BY DEF Keeps
<1>5. failures + (IF o.pushed < Len(ms) THEN 1 ELSE 0) \in 0 .. MaxFailures
  BY <1>3, <1>4
<1> QED BY <1>1, <1>2, <1>3, <1>5

\* A caller that gives up has queued the first messages.
LEMMA GiveUpKeeps ==
  ASSUME SessionTypeOK, NEW ms \in Seq(Message), NEW o, NEW kept,
         Keeps(Message, o, ms, FALSE, kept)
  PROVE  \A i \in 1 .. Len(kept) : kept[i] = ms[i]
<1>1. kept = SubSeq(ms, 1, o.pushed)
  BY DEF Keeps
<1>2. o.pushed \in 0 .. Len(ms) /\ o.pushed = Len(kept)
  BY OutcomeCount
<1>3. \A i \in 1 .. o.pushed : SubSeq(ms, 1, o.pushed)[i] = ms[i]
  BY <1>2, PrefixThins
<1> QED BY <1>1, <1>2, <1>3

\* What a message is sound for stays so when the session counts on.
LEMMA SoundKept ==
  ASSUME SessionTypeOK, NEW s \in Nat, seq' = s, seq <= s,
         NEW c \in Nat, chunk' = c, chunk <= c,
         NEW d \in Nat, consumed' = d, consumed <= d,
         markPos' = markPos, pending' \subseteq pending,
         state = "STOPPED" => state' = "STOPPED"
  PROVE  \A x \in Message : Sound(x) => Sound(x)'
<1> SUFFICES ASSUME NEW x \in Message, Sound(x)
             PROVE  Sound(x)'
  OBVIOUS
<1>1. x.seq \in Nat /\ x.chunk \in Nat /\ seq \in Nat /\ chunk \in Nat /\ consumed \in Nat
  BY SessionConstants DEF Message, SessionTypeOK
<1>2. x.seq < s
  BY <1>1 DEF Sound
<1>3. x.event = "media" => x.chunk < c /\ x.timestamp = 20 * (x.chunk - 1)
  BY <1>1 DEF Sound
<1>4. ASSUME x.event = "mark"
      PROVE  /\ x.mark \in 1 .. Len(markPos) /\ markPos[x.mark] <= d
             /\ \A k \in pending' : x.mark < k
  <2>1. /\ x.mark \in 1 .. Len(markPos) /\ markPos[x.mark] <= consumed
        /\ \A k \in pending : x.mark < k
    BY <1>4 DEF Sound
  <2>2. markPos[x.mark] \in Int
    <3>1. markPos \in Seq(0 .. MaxBytes)
      BY DEF SessionTypeOK
    <3>2. markPos[x.mark] \in 0 .. MaxBytes
      BY <2>1, <3>1, ElementOfSeq
    <3> QED BY <3>2
  <2> QED BY <2>1, <2>2, <1>1
<1> QED BY <1>2, <1>3, <1>4 DEF Sound

-----------------------------------------------------------------------------
(* The messages *)

Msg(e, s, c, t, m) == [event |-> e, seq |-> s, chunk |-> c, timestamp |-> t, mark |-> m]

LEMMA MediaFields ==
  ASSUME NEW s \in 0 .. MaxSeq, NEW c \in Nat, NEW t \in Nat
  PROVE  /\ MediaMsg(s, c, t) \in Message
         /\ MediaMsg(s, c, t).event = "media" /\ MediaMsg(s, c, t).seq = s
         /\ MediaMsg(s, c, t).chunk = c /\ MediaMsg(s, c, t).timestamp = t
<1>1. 0 \in 0 .. MaxMarks /\ 0 \in 0 .. MaxSeq /\ 0 \in Nat
  BY SessionConstants
<1>2. MediaMsg(s, c, t) = Msg("media", s, c, t, 0)
  <2> DEFINE x == MediaMsg(s, c, t)
             y == Msg("media", s, c, t, 0)
             fields == {"event", "seq", "chunk", "timestamp", "mark"}
  <2>1. /\ x.event = "media" /\ x.seq = s /\ x.chunk = c /\ x.timestamp = t
        /\ x.mark = 0
    BY DEF MediaMsg, NoMsg
  <2>2. x = [f \in fields |-> x[f]]
    BY DEF MediaMsg, NoMsg
  <2>3. y = [f \in fields |-> y[f]]
    BY DEF Msg
  <2> QED BY <2>1, <2>2, <2>3 DEF Msg
<1> QED BY <1>1, <1>2 DEF Message, Msg

LEMMA MarkFields ==
  ASSUME NEW s \in 0 .. MaxSeq, NEW m \in 0 .. MaxMarks
  PROVE  /\ MarkMsg(s, m) \in Message
         /\ MarkMsg(s, m).event = "mark" /\ MarkMsg(s, m).seq = s
         /\ MarkMsg(s, m).mark = m
BY SessionConstants DEF MarkMsg, NoMsg, Message

LEMMA StartFields ==
  ASSUME NEW s \in 0 .. MaxSeq
  PROVE  /\ StartMsg(s) \in Message /\ StartMsg(s).event = "start" /\ StartMsg(s).seq = s
         /\ ConnectedMsg \in Message /\ ConnectedMsg.event = "connected"
         /\ ConnectedMsg.seq = 0
<1>1. 0 \in 0 .. MaxMarks /\ 0 \in 0 .. MaxSeq /\ 0 \in Nat
  BY SessionConstants
<1>2. StartMsg(s) = Msg("start", s, 0, 0, 0)
  <2> DEFINE x == StartMsg(s)
             y == Msg("start", s, 0, 0, 0)
             fields == {"event", "seq", "chunk", "timestamp", "mark"}
  <2>1. /\ x.event = "start" /\ x.seq = s /\ x.chunk = 0 /\ x.timestamp = 0
        /\ x.mark = 0
    BY DEF StartMsg, NoMsg
  <2>2. x = [f \in fields |-> x[f]]
    BY DEF StartMsg, NoMsg
  <2>3. y = [f \in fields |-> y[f]]
    BY DEF Msg
  <2> QED BY <2>1, <2>2, <2>3 DEF Msg
<1>3. ConnectedMsg
        = [event |-> "connected", seq |-> 0, chunk |-> 0, timestamp |-> 0, mark |-> 0]
  BY DEF ConnectedMsg, NoMsg
<1> QED BY <1>1, <1>2, <1>3 DEF Message, Msg

LEMMA StopFields ==
  ASSUME NEW s \in 0 .. MaxSeq
  PROVE  /\ StopMsg(s) \in Message /\ StopMsg(s).event = "stop" /\ StopMsg(s).seq = s
<1>1. 0 \in 0 .. MaxMarks /\ 0 \in 0 .. MaxSeq /\ 0 \in Nat
  BY SessionConstants
<1>2. StopMsg(s) = Msg("stop", s, 0, 0, 0)
  <2> DEFINE x == StopMsg(s)
             y == Msg("stop", s, 0, 0, 0)
             fields == {"event", "seq", "chunk", "timestamp", "mark"}
  <2>1. /\ x.event = "stop" /\ x.seq = s /\ x.chunk = 0 /\ x.timestamp = 0
        /\ x.mark = 0
    BY DEF StopMsg, NoMsg
  <2>2. x = [f \in fields |-> x[f]]
    BY DEF StopMsg, NoMsg
  <2>3. y = [f \in fields |-> y[f]]
    BY DEF Msg
  <2> QED BY <2>1, <2>2, <2>3 DEF Msg
<1> QED BY <1>1, <1>2 DEF Message, Msg
-----------------------------------------------------------------------------
(* The steps that queue nothing *)

\* Sending the head moves it from the queue to the wire.
LEMMA HeadMoves ==
  ASSUME NEW S, NEW w \in Seq(S), NEW q \in Seq(S), q # <<>>
  PROVE  /\ Append(w, Head(q)) \in Seq(S) /\ Tail(q) \in Seq(S)
         /\ Len(Tail(q)) <= Len(q)
         /\ Append(w, Head(q)) \o Tail(q) = w \o q
<1>1. Head(q) \in S /\ Tail(q) \in Seq(S) /\ Len(Tail(q)) = Len(q) - 1 /\ Len(q) \in Nat
  BY HeadTailProperties, LenProperties
<1>2. Append(w, Head(q)) = w \o <<Head(q)>>
  BY <1>1, AppendIsConcat
<1>3. <<Head(q)>> \o Tail(q) = q
  BY HeadTailProperties
<1>4. <<Head(q)>> \in Seq(S)
  BY <1>1
<1>5. (w \o <<Head(q)>>) \o Tail(q) = w \o (<<Head(q)>> \o Tail(q))
  BY <1>1, <1>4, ConcatAssoc
<1>6. Append(w, Head(q)) \in Seq(S)
  BY <1>1, AppendProperties
<1> QED BY <1>1, <1>2, <1>3, <1>5, <1>6

LEMMA QuietStep ==
  ASSUME SessionInv, Stream' = Stream, UNCHANGED <<state, seq, drops, failures>>,
         \A x \in Message : Sound(x) => Sound(x)'
  PROVE  /\ InOrder(Stream)'
         /\ (\A i \in 1 .. Len(Stream) : Sound(Stream[i]))'
         /\ GapsExplained'
<1>1. InOrder(Stream)'
  BY DEF SessionInv, InOrder
<1>2. ASSUME NEW i \in 1 .. Len(Stream')
      PROVE  Sound(Stream[i])'
  <2>1. PICK x : x = Stream[i]
    OBVIOUS
  <2>2. x \in Message /\ Sound(x)
    <3>1. Stream \in Seq(Message)
      BY StreamType DEF SessionInv
    <3> QED BY <2>1, <3>1, ElementOfSeq DEF SessionInv
  <2>3. Sound(x)'
    BY <2>2
  <2> QED BY <2>1, <2>3 DEF Sound
<1>3. GapsExplained'
  <2>1. Numbered' = Numbered
    BY DEF Numbered
  <2> QED BY <2>1 DEF SessionInv, GapsExplained
<1> QED BY <1>1, <1>2, <1>3

\* Types that a step leaves alone unless it says so.
LEMMA MarkType ==
  ASSUME SessionTypeOK
  PROVE  /\ Len(markPos) \in 0 .. MaxMarks
         /\ \A k \in 1 .. Len(markPos) : markPos[k] \in 0 .. MaxBytes
         /\ pending \in SUBSET (1 .. Len(markPos))
         /\ IsFiniteSet(pending) /\ Cardinality(pending) \in 0 .. MarkMax
<1>1. markPos \in Seq(0 .. MaxBytes) /\ Len(markPos) <= MaxMarks
  BY DEF SessionTypeOK
<1>2. Len(markPos) \in Nat /\ DOMAIN markPos = 1 .. Len(markPos)
  BY <1>1, LenProperties
<1>3. \A k \in 1 .. Len(markPos) : markPos[k] \in 0 .. MaxBytes
  BY <1>1, ElementOfSeq
<1>4. pending \in SUBSET (1 .. Len(markPos)) /\ Cardinality(pending) <= MarkMax
  BY <1>2 DEF SessionTypeOK
<1>5. IsFiniteSet(pending) /\ Cardinality(pending) \in Nat
  BY <1>2, <1>4, NthInOrder
<1> QED BY <1>1, <1>2, <1>3, <1>4, <1>5, SessionConstants

LEMMA PeerMediaKeeps ==
  ASSUME SessionInv, NEW len \in Lens, PeerMedia(len)
  PROVE  SessionInv'
<1>1. SessionTypeOK /\ len \in Nat
  BY SessionConstants DEF SessionInv
<1>2. SessionTypeOK'
  BY <1>1, SessionConstants DEF SessionTypeOK, PeerMedia, queueVars, clearVars
<1>3. \A x \in Message : Sound(x) => Sound(x)'
  BY DEF PeerMedia, Sound
<1>4. Stream' = Stream /\ UNCHANGED <<state, seq, drops, failures>>
  BY DEF PeerMedia, Stream, queueVars
<1>5. MarksInOrder'
  <2>1. \A k \in 1 .. Len(markPos) : markPos[k] \in 0 .. MaxBytes
    BY <1>1, MarkType
  <2> QED BY <1>1, <2>1 DEF SessionInv, MarksInOrder, PeerMedia, SessionTypeOK
<1>6. Counting' /\ OneSamplePerClear'
  BY DEF SessionInv, Counting, OneSamplePerClear, PeerMedia, queueVars, clearVars
<1> QED BY <1>2, <1>3, <1>4, <1>5, <1>6, QuietStep DEF SessionInv

LEMMA PeerMarkKeeps ==
  ASSUME SessionInv, PeerMark
  PROVE  SessionInv'
<1> DEFINE n == Len(markPos)
<1>1. SessionTypeOK
  BY DEF SessionInv
<1>2. /\ n \in 0 .. MaxMarks /\ n < MaxMarks /\ MaxMarks \in Nat /\ MarkMax \in Nat
      /\ \A k \in 1 .. n : markPos[k] \in 0 .. MaxBytes
      /\ pending \in SUBSET (1 .. n)
      /\ IsFiniteSet(pending) /\ Cardinality(pending) \in 0 .. MarkMax
      /\ Cardinality(pending) < MarkMax
  BY <1>1, MarkType, SessionConstants DEF PeerMark
<1>3. /\ markPos' \in Seq(0 .. MaxBytes) /\ Len(markPos') = n + 1
      /\ \A i \in 1 .. n : markPos'[i] = markPos[i]
      /\ markPos'[n + 1] = written
  <2>1. markPos \in Seq(0 .. MaxBytes) /\ written \in 0 .. MaxBytes
    BY <1>1 DEF SessionTypeOK
  <2> QED BY <2>1, AppendProperties DEF PeerMark
<1>4. pending' = pending \cup {n + 1} /\ n + 1 \notin pending
  BY <1>2 DEF PeerMark
<1>5. SessionTypeOK'
  <2>1. DOMAIN markPos' = 1 .. n + 1
    BY <1>3, LenProperties
  <2>2. pending' \subseteq 1 .. n + 1
    <3>1. \A k \in pending : k \in 1 .. n
      BY <1>2
    <3>2. \A k \in 1 .. n : k \in 1 .. n + 1
      BY <1>2
    <3>3. n + 1 \in 1 .. n + 1
      BY <1>2
    <3> QED BY <3>1, <3>2, <3>3, <1>4
  <2>3. Cardinality(pending') = Cardinality(pending) + 1
    BY <1>2, <1>4, FS_AddElement
  <2>4. Cardinality(pending') <= MarkMax /\ Len(markPos') <= MaxMarks
    BY <1>2, <1>3, <2>3
  <2>5. UNCHANGED <<state, paused, seq, chunk, timestamp_ms, drops, outbound, failures,
                    written, consumed, clear_events, clear_armed,
                    clear_latency_samples, wire>>
    BY DEF PeerMark, queueVars, clearVars
  <2> QED BY <1>1, <1>3, <2>1, <2>2, <2>4, <2>5 DEF SessionTypeOK
<1>6. ASSUME NEW x \in Message, Sound(x)
      PROVE  Sound(x)'
  <2>1. CASE x.event # "mark"
    BY <2>1, <1>6 DEF Sound, PeerMark
  <2>2. CASE x.event = "mark"
    <3>1. x.mark \in 1 .. n /\ markPos[x.mark] <= consumed /\ \A k \in pending : x.mark < k
      BY <2>2, <1>6 DEF Sound
    <3>2. x.mark \in 1 .. n + 1 /\ x.mark < n + 1
      BY <1>2, <3>1
    <3>3. x.mark \in 1 .. Len(markPos') /\ markPos'[x.mark] <= consumed
      BY <1>3, <3>1, <3>2
    <3>4. \A k \in pending' : x.mark < k
      BY <1>4, <3>1, <3>2
    <3> QED BY <2>2, <1>6, <3>3, <3>4 DEF Sound, PeerMark
  <2> QED BY <2>1, <2>2
<1>7. Stream' = Stream /\ UNCHANGED <<state, seq, drops, failures>>
  BY DEF PeerMark, Stream, queueVars
<1>8. MarksInOrder'
  <2>1. /\ \A i \in 1 .. n : markPos[i] <= written
        /\ \A i, j \in 1 .. n : i < j => markPos[i] <= markPos[j]
    BY DEF SessionInv, MarksInOrder
  <2>2. written' = written /\ written \in Nat
    BY <1>1, SessionConstants DEF PeerMark, SessionTypeOK
  <2>3. ASSUME NEW i \in 1 .. n + 1, NEW j \in 1 .. n + 1, i < j
        PROVE  markPos'[i] <= markPos'[j]
    <3>1. i \in 1 .. n
      BY <2>3, <1>2
    <3>2. CASE j = n + 1
      BY <3>1, <3>2, <1>3, <2>1
    <3>3. CASE j \in 1 .. n
      BY <3>1, <3>3, <1>3, <2>1, <2>3
    <3> QED BY <3>2, <3>3, <1>2
  <2>4. ASSUME NEW i \in 1 .. n + 1
        PROVE  markPos'[i] <= written
    <3>1. i \in 1 .. n \/ i = n + 1
      BY <1>2
    <3>2. CASE i \in 1 .. n
      BY <3>2, <2>1, <1>3
    <3>3. CASE i = n + 1
      <4>1. written <= written
        BY <2>2
      <4>2. markPos'[i] = written
        BY <3>3, <1>3
      <4> QED BY <4>1, <4>2
    <3> QED BY <3>1, <3>2, <3>3
  <2> QED BY <2>2, <2>3, <2>4, <1>3 DEF MarksInOrder
<1>9. Counting' /\ OneSamplePerClear'
  BY DEF SessionInv, Counting, OneSamplePerClear, PeerMark, queueVars, clearVars
<1> QED BY <1>5, <1>6, <1>7, <1>8, <1>9, QuietStep DEF SessionInv

LEMMA ReadPlayoutKeeps ==
  ASSUME SessionInv, NEW n \in Lens, ReadPlayout(n)
  PROVE  SessionInv'
<1>1. /\ SessionTypeOK /\ n \in Nat /\ written \in Nat /\ consumed \in 0 .. written
      /\ written - consumed <= PlayoutCap
      /\ seq \in Nat /\ chunk \in Nat /\ PlayoutCap \in Nat
  BY SessionConstants DEF SessionInv, SessionTypeOK
<1>2. PICK d \in Nat : d = consumed + BytesRead(n)
  BY <1>1 DEF BytesRead
<1>3. consumed' = d /\ consumed <= d /\ d \in 0 .. written /\ written - d <= PlayoutCap
  BY <1>1, <1>2 DEF BytesRead, ReadPlayout
<1>4. UNCHANGED <<state, paused, seq, chunk, timestamp_ms, outbound, drops, failures, written,
                  pending, markPos, clear_events, clear_armed,
                  clear_latency_samples, wire>>
  BY DEF ReadPlayout, queueVars, clearVars
<1>5. SessionTypeOK'
  BY <1>1, <1>3, <1>4 DEF SessionTypeOK
<1>6. \A x \in Message : Sound(x) => Sound(x)'
  <2>1. /\ seq' = seq /\ seq <= seq /\ chunk' = chunk /\ chunk <= chunk
        /\ markPos' = markPos /\ pending' \subseteq pending
        /\ (state = "STOPPED" => state' = "STOPPED")
    BY <1>1, <1>4
  <2> QED BY <1>1, <1>3, <2>1, SoundKept
<1>7. Stream' = Stream
  BY <1>4 DEF Stream
<1>8. Counting' /\ OneSamplePerClear' /\ MarksInOrder'
  BY <1>4 DEF SessionInv, Counting, OneSamplePerClear, MarksInOrder
<1> QED BY <1>4, <1>5, <1>6, <1>7, <1>8, QuietStep DEF SessionInv

LEMMA NoteWriteKeeps ==
  ASSUME SessionInv, NoteWriteAfterClear
  PROVE  SessionInv'
<1>1. SessionTypeOK
  BY DEF SessionInv
<1>2. UNCHANGED <<state, paused, seq, chunk, timestamp_ms, outbound, drops, failures,
                  written, consumed, pending, markPos, clear_events, wire>>
  BY DEF NoteWriteAfterClear, queueVars, playoutVars
<1>3. clear_latency_samples' = clear_latency_samples + 1 /\ clear_armed /\ clear_armed' = FALSE
  BY DEF NoteWriteAfterClear, ArmedAfterSample
<1>4. SessionTypeOK'
  <2>1. clear_latency_samples + 1 \in Nat
    BY <1>1 DEF SessionTypeOK
  <2>2. clear_latency_samples' \in Nat
    BY <1>3, <2>1
  <2>3. clear_armed' \in BOOLEAN
    BY <1>3
  <2> QED BY <1>1, <1>2, <2>2, <2>3 DEF SessionTypeOK
<1>5. \A x \in Message : Sound(x) => Sound(x)'
  BY <1>2 DEF Sound
<1>6. OneSamplePerClear'
  <2>1. clear_latency_samples \in Nat /\ clear_events \in Nat
    BY <1>1, SessionConstants DEF SessionTypeOK
  <2>2. clear_latency_samples + 1 <= clear_events
    BY <1>3 DEF SessionInv, OneSamplePerClear
  <2> QED BY <1>2, <1>3, <2>1, <2>2 DEF OneSamplePerClear
<1>7. Stream' = Stream
  BY <1>2 DEF Stream
<1>8. Counting' /\ MarksInOrder'
  BY <1>2 DEF SessionInv, Counting, MarksInOrder
<1> QED BY <1>2, <1>4, <1>5, <1>6, <1>7, <1>8, QuietStep DEF SessionInv

LEMMA SetPausedKeeps ==
  ASSUME SessionInv, NEW p \in BOOLEAN, SetPaused(p)
  PROVE  SessionInv'
<1>1. /\ UNCHANGED <<state, seq, chunk, timestamp_ms, outbound, drops, failures,
                     written, consumed, pending, markPos, clear_events, clear_armed,
                     clear_latency_samples, wire>>
      /\ paused' = p
  BY DEF SetPaused, queueVars, playoutVars, clearVars
<1>2. SessionTypeOK'
  BY <1>1 DEF SessionInv, SessionTypeOK
<1>3. \A x \in Message : Sound(x) => Sound(x)'
  BY <1>1 DEF Sound
<1>4. Stream' = Stream
  BY <1>1 DEF Stream
<1>5. Counting' /\ MarksInOrder' /\ OneSamplePerClear'
  BY <1>1 DEF SessionInv, Counting, MarksInOrder, OneSamplePerClear
<1> QED BY <1>1, <1>2, <1>3, <1>4, <1>5, QuietStep DEF SessionInv

LEMMA DropHeadKeeps ==
  ASSUME SessionInv, DropOutboundHead
  PROVE  SessionInv'
<1>1. /\ UNCHANGED <<state, paused, seq, chunk, timestamp_ms, drops, failures,
                     written, consumed, pending, markPos, clear_events, clear_armed,
                     clear_latency_samples>>
      /\ outbound # <<>> /\ outbound' = Tail(outbound)
      /\ wire' = Append(wire, Head(outbound))
  BY DEF DropOutboundHead, playoutVars, clearVars
<1>2. /\ wire \in Seq(Message) /\ outbound \in Seq(Message) /\ Len(outbound) <= QueueCap
      /\ QueueCap \in Nat /\ Len(outbound) \in Nat
  BY SessionConstants, LenProperties DEF SessionInv, SessionTypeOK
<1>3. /\ wire' \in Seq(Message) /\ outbound' \in Seq(Message)
      /\ Len(outbound') <= Len(outbound) /\ wire' \o outbound' = wire \o outbound
  <2>1. /\ Append(wire, Head(outbound)) \in Seq(Message) /\ Tail(outbound) \in Seq(Message)
        /\ Len(Tail(outbound)) <= Len(outbound)
        /\ Append(wire, Head(outbound)) \o Tail(outbound) = wire \o outbound
    BY <1>1, <1>2, HeadMoves, Zenon
  <2> QED BY <1>1, <2>1, Zenon
<1>4. Len(outbound') <= QueueCap
  <2>1. PICK l \in Nat : l = Len(outbound')
    BY <1>3, LenProperties
  <2> QED BY <1>2, <1>3, <2>1
<1>5. SessionTypeOK'
  BY <1>1, <1>3, <1>4 DEF SessionInv, SessionTypeOK
<1>6. \A x \in Message : Sound(x) => Sound(x)'
  BY <1>1 DEF Sound
<1>7. Stream' = Stream
  BY <1>3 DEF Stream
<1>8. Counting' /\ MarksInOrder' /\ OneSamplePerClear'
  BY <1>1 DEF SessionInv, Counting, MarksInOrder, OneSamplePerClear
<1> QED BY <1>1, <1>5, <1>6, <1>7, <1>8, QuietStep DEF SessionInv
-----------------------------------------------------------------------------
(* The steps that queue messages *)

\* A new message may follow all the stream.
Follows(y) ==
  /\ y.seq = 0 \/ y.seq >= seq
  /\ y.event = "media" => y.chunk >= chunk
  /\ y.event = "mark" => y.mark \in pending
  /\ y.event = "mark" \/ state # "STOPPED"

LEMMA SoundPrecedes ==
  ASSUME SessionTypeOK, NEW x \in Message, NEW y \in Message, Sound(x), Follows(y)
  PROVE  Precedes(x, y)
<1>1. /\ x.seq \in Nat /\ x.chunk \in Nat /\ y.seq \in Nat /\ y.chunk \in Nat
      /\ seq \in Nat /\ chunk \in Nat
  BY SessionConstants DEF Message, SessionTypeOK
<1> QED BY <1>1 DEF Sound, Follows, Precedes

\* Of what a step keeps it is enough to know that it follows the stream.
LEMMA StreamPrecedes ==
  ASSUME SessionInv, NEW kept \in Seq(Message),
         \A j \in 1 .. Len(kept) : Follows(kept[j])
  PROVE  \A i \in 1 .. Len(Stream), j \in 1 .. Len(kept) : Precedes(Stream[i], kept[j])
<1>1. SessionTypeOK /\ \A i \in 1 .. Len(Stream) : Sound(Stream[i])
  BY DEF SessionInv
<1>2. Stream \in Seq(Message)
  BY <1>1, StreamType
<1> QED BY <1>1, <1>2, ElementOfSeq, SoundPrecedes

LEMMA PushKeeps ==
  ASSUME SessionInv, NEW n, n \in Nat \ {0}, PushPcm16(n)
  PROVE  SessionInv'
<1> DEFINE ms == [i \in 1 .. n |->
                    MediaMsg(seq + i - 1, chunk + i - 1, timestamp_ms + 20 * (i - 1))]
<1>1. /\ SessionTypeOK /\ n \in Nat /\ n >= 1 /\ MaxSeq \in Nat
      /\ seq \in Nat /\ seq >= 1 /\ chunk \in Nat /\ chunk >= 1 /\ timestamp_ms \in Nat
      /\ timestamp_ms = 20 * (chunk - 1) /\ seq + n - 1 <= MaxSeq /\ state = "RUNNING"
      /\ consumed \in Nat
  BY SessionConstants DEF SessionInv, SessionTypeOK, Counting, PushPcm16
<1>2. ASSUME NEW i \in 1 .. n
      PROVE  /\ ms[i] \in Message /\ ms[i].event = "media" /\ ms[i].seq = seq + i - 1
             /\ ms[i].chunk = chunk + i - 1
             /\ ms[i].timestamp = 20 * (ms[i].chunk - 1)
  <2>1. PICK s \in 0 .. MaxSeq, c \in Nat, t \in Nat :
          /\ s = seq + i - 1 /\ c = chunk + i - 1 /\ t = timestamp_ms + 20 * (i - 1)
          /\ t = 20 * (c - 1)
    BY <1>1
  <2>2. ms[i] = MediaMsg(s, c, t)
    BY <2>1
  <2>3. /\ ms[i] \in Message /\ ms[i].event = "media" /\ ms[i].seq = s
        /\ ms[i].chunk = c /\ ms[i].timestamp = t
    BY <2>2, MediaFields
  <2>4. ms[i].timestamp = 20 * (ms[i].chunk - 1)
    BY <2>1, <2>3
  <2> QED BY <2>1, <2>3, <2>4
<1>3. ms \in Seq(Message) /\ Len(ms) = n
  <2>1. ms \in [1 .. n -> Message]
    BY <1>2
  <2>2. ms \in Seq(Message)
    BY <2>1, <1>1, IsASeq
  <2> QED BY <2>2, <1>1
<1>4. PICK o \in EnqueueOutcomes(ms, FALSE) :
        /\ Enqueue(ms, o)
        /\ seq' = seq + NumbersUsed(ms, o)
        /\ chunk' = chunk + o.pushed
        /\ timestamp_ms' = timestamp_ms + 20 * o.pushed
  BY DEF PushPcm16
<1>5. UNCHANGED <<state, paused, written, consumed, pending, markPos, clear_events,
                  clear_armed, clear_latency_samples, wire>>
  BY DEF PushPcm16, playoutVars, clearVars
<1> HIDE DEF ms
<1>6. /\ \E kept : Keeps(Message, o, ms, FALSE, kept) /\ Adds(kept)
      /\ failures' = failures + IF o.pushed < Len(ms) THEN 1 ELSE 0
  BY <1>1, <1>3, <1>4, <1>5, EnqueueStep
<1>7. PICK kept : Keeps(Message, o, ms, FALSE, kept) /\ Adds(kept)
  BY <1>6
<1>8. /\ o.pushed \in 0 .. n /\ o.pushed = Len(kept) /\ kept \in Seq(Message)
      /\ failures \in Nat
      /\ failures + (IF o.pushed < Len(ms) THEN 1 ELSE 0) \in 0 .. MaxFailures
  BY <1>1, <1>3, <1>7, OutcomeCount
<1>20. \A i \in 1 .. Len(kept) : kept[i] = ms[i]
  <2>1. SessionTypeOK /\ ms \in Seq(Message) /\ Keeps(Message, o, ms, FALSE, kept)
    BY <1>1, <1>3, <1>7
  <2> QED BY ONLY <2>1, GiveUpKeeps
<1> DEFINE k == o.pushed
<1>9. PICK s \in Nat, c \in Nat, g \in Nat, t \in Nat :
        /\ s = seq' /\ c = chunk' /\ g = failures' /\ t = timestamp_ms'
        /\ s = seq + (IF k < n THEN k + 1 ELSE n) /\ c = chunk + k
        /\ t = timestamp_ms + 20 * k
        /\ g = failures + (IF k < n THEN 1 ELSE 0)
  <2>1. /\ seq' = seq + (IF k < n THEN k + 1 ELSE n)
        /\ failures' = failures + (IF k < n THEN 1 ELSE 0)
    BY <1>3, <1>4, <1>6 DEF NumbersUsed
  <2>2. /\ seq + (IF k < n THEN k + 1 ELSE n) \in Nat
        /\ failures + (IF k < n THEN 1 ELSE 0) \in Nat
        /\ chunk + k \in Nat /\ timestamp_ms + 20 * k \in Nat
    BY <1>1, <1>8
  <2> QED BY <2>1, <2>2, <1>4
<1>10. /\ s >= seq /\ s <= MaxSeq + 1 /\ s >= seq + k /\ c >= chunk
       /\ s - seq <= k + (g - failures) /\ t = 20 * (c - 1)
  BY <1>1, <1>8, <1>9
<1>11. ASSUME NEW i \in 1 .. Len(kept)
       PROVE  /\ kept[i].event = "media" /\ kept[i].seq = seq + i - 1
              /\ kept[i].chunk = chunk + i - 1
              /\ kept[i].timestamp = 20 * (kept[i].chunk - 1)
  <2>1. i \in 1 .. n /\ kept[i] = ms[i]
    BY <1>1, <1>8, <1>20
  <2>2. /\ ms[i].event = "media" /\ ms[i].seq = seq + i - 1
        /\ ms[i].chunk = chunk + i - 1 /\ ms[i].timestamp = 20 * (ms[i].chunk - 1)
    BY <2>1, <1>2
  <2> QED BY <2>1, <2>2, Zenon
<1>12. InOrder(kept)
  <2>1. ASSUME NEW i \in 1 .. Len(kept), NEW j \in 1 .. Len(kept), i < j
        PROVE  Precedes(kept[i], kept[j])
    BY <1>1, <1>8, <1>11, <2>1 DEF Precedes
  <2> QED BY <2>1 DEF InOrder
<1>13. \A i \in 1 .. Len(Stream), j \in 1 .. Len(kept) : Precedes(Stream[i], kept[j])
  <2>1. ASSUME NEW j \in 1 .. Len(kept)
        PROVE  Follows(kept[j])
    <3>1. kept[j].event = "media" /\ kept[j].seq >= seq /\ kept[j].chunk >= chunk
      BY <1>1, <1>11
    <3> QED BY <1>1, <3>1 DEF Follows
  <2> QED BY <2>1, <1>8, StreamPrecedes
<1>14. ASSUME NEW j \in 1 .. Len(kept)
       PROVE  Sound(kept[j])'
  <2>1. seq + j - 1 < s /\ chunk + j - 1 < c
    BY <1>1, <1>8, <1>9, <1>10
  <2>2. kept[j].seq < s /\ kept[j].chunk < c
    BY <2>1, <1>11
  <2> QED BY <2>2, <1>9, <1>11 DEF Sound
<1>15. \A x \in Message : Sound(x) => Sound(x)'
  <2>1. /\ seq' = s /\ seq <= s /\ chunk' = c /\ chunk <= c
        /\ consumed' = consumed /\ consumed <= consumed
        /\ markPos' = markPos /\ pending' \subseteq pending
        /\ (state = "STOPPED" => state' = "STOPPED")
    BY <1>1, <1>5, <1>9, <1>10
  <2> QED BY <1>1, <2>1, SoundKept
<1>16. /\ InOrder(Stream)' /\ (\A i \in 1 .. Len(Stream) : Sound(Stream[i]))'
       /\ GapsExplained' /\ drops' \in Nat
  <2>1. /\ 0 \in 0 .. Len(kept) /\ \A j \in (0 + 1) .. Len(kept) : kept[j].seq > 0
        /\ seq' \in Nat /\ failures \in Nat /\ failures' \in Nat
    BY <1>1, <1>8, <1>9, <1>11
  <2>2. s - seq <= (Len(kept) - 0) + (g - failures)
    BY <1>8, <1>10
  <2>3. /\ state' # "IDLE" /\ state = "IDLE" =>
             seq' - 1 <= (Len(kept) - 0) + (failures' - failures)
        /\ state' # "IDLE" /\ state # "IDLE" =>
             seq' - seq <= (Len(kept) - 0) + (failures' - failures)
    BY <2>2, <1>1, <1>9
  <2> QED BY <2>1, <2>3, <1>7, <1>12, <1>13, <1>14, <1>15, AddsPreserves
<1>17. SessionTypeOK'
  <2>1. seq' \in 0 .. MaxSeq + 1 /\ chunk' \in Nat /\ timestamp_ms' \in Nat
    BY <1>1, <1>9, <1>10
  <2>2. failures' \in 0 .. MaxFailures
    BY <1>6, <1>8
  <2>3. /\ outbound' \in Seq(Message) /\ Len(outbound') <= QueueCap
        /\ wire' \in Seq(Message)
    BY <1>7 DEF Adds
  <2> QED BY <1>1, <1>5, <1>16, <2>1, <2>2, <2>3 DEF SessionTypeOK
<1>18. Counting'
  <2>1. s >= 1 /\ c >= 1
    BY <1>1, <1>10
  <2> QED BY <2>1, <1>1, <1>5, <1>9, <1>10 DEF Counting
<1>19. MarksInOrder' /\ OneSamplePerClear'
  BY <1>5 DEF SessionInv, MarksInOrder, OneSamplePerClear
<1> QED BY <1>16, <1>17, <1>18, <1>19 DEF SessionInv
\* The acknowledgements of pending marks are numbered on, and in the order of
\* the marks.
LEMMA AcksFields ==
  ASSUME SessionInv, NEW S \in SUBSET pending, seq + Cardinality(S) - 1 <= MaxSeq
  PROVE  /\ Acks(S, seq) \in Seq(Message) /\ Len(Acks(S, seq)) = Cardinality(S)
         /\ Cardinality(S) \in Nat /\ seq \in Nat
         /\ \A i \in 1 .. Cardinality(S) :
              /\ Acks(S, seq)[i].event = "mark" /\ Acks(S, seq)[i].seq = seq + i - 1
              /\ Acks(S, seq)[i].seq > 0 /\ Acks(S, seq)[i].mark \in S
              /\ Follows(Acks(S, seq)[i])
         /\ InOrder(Acks(S, seq))
<1> DEFINE ms == Acks(S, seq)
           n == Cardinality(S)
           last == Len(markPos)
<1>1. /\ SessionTypeOK /\ seq \in Nat /\ MaxSeq \in Nat
      /\ (state = "IDLE" => pending = {}) /\ (state # "IDLE" => seq >= 1)
  BY SessionConstants DEF SessionInv, SessionTypeOK, Counting
<1>2. /\ last \in 0 .. MaxMarks /\ last \in Nat
      /\ pending \in SUBSET (1 .. last) /\ S \in SUBSET (1 .. last)
  BY <1>1, MarkType
<1>3. /\ n \in Nat
      /\ \A i \in 1 .. n : Nth(S, i) \in S
      /\ \A i, j \in 1 .. n : i < j => Nth(S, i) < Nth(S, j)
  BY <1>2, NthInOrder
<1>4. ASSUME NEW i \in 1 .. n
      PROVE  /\ ms[i] \in Message /\ ms[i].event = "mark" /\ ms[i].seq = seq + i - 1
             /\ ms[i].mark = Nth(S, i) /\ ms[i].seq > 0 /\ Nth(S, i) \in S
             /\ Nth(S, i) \in Int
  <2>1. Nth(S, i) \in S /\ Nth(S, i) \in pending
    BY <1>3
  <2>2. Nth(S, i) \in 1 .. last
    BY <2>1, <1>2
  <2>3. PICK m \in 0 .. MaxMarks : m = Nth(S, i) /\ m \in Int
    BY <2>2, <1>2, SessionConstants
  <2>4. seq >= 1
    BY <1>1, <2>1
  <2>5. PICK s \in 0 .. MaxSeq : s = seq + i - 1 /\ s > 0
    BY <1>1, <1>3, <2>4
  <2>6. ms[i] = MarkMsg(s, m)
    BY <2>3, <2>5 DEF Acks
  <2>7. ms[i] \in Message /\ ms[i].event = "mark" /\ ms[i].seq = s /\ ms[i].mark = m
    BY <2>6, MarkFields
  <2> QED BY <2>1, <2>3, <2>5, <2>7
<1>5. ms \in Seq(Message) /\ Len(ms) = n
  <2>1. ms \in [1 .. n -> Message]
    BY <1>4 DEF Acks
  <2> HIDE DEF ms, n
  <2>2. ms \in Seq(Message)
    BY <2>1, <1>3, IsASeq
  <2> QED BY <2>1, <2>2, <1>3
<1> HIDE DEF ms, n
<1>6. \A i \in 1 .. n : Follows(ms[i])
  BY <1>1, <1>3, <1>4 DEF Follows
<1>7. InOrder(ms)
  <2>1. ASSUME NEW i \in 1 .. n, NEW j \in 1 .. n, i < j
        PROVE  Precedes(ms[i], ms[j])
    <3>1. seq + i - 1 < seq + j - 1
      BY <1>1, <1>3, <2>1
    <3> QED BY <1>3, <1>4, <2>1, <3>1 DEF Precedes
  <2> QED BY <2>1, <1>5 DEF InOrder
<1> QED BY <1>1, <1>3, <1>4, <1>5, <1>6, <1>7 DEF ms, n

\* The step of acknowledging the marks of S, up to d consumed bytes.
LEMMA AcksKeep ==
  ASSUME SessionInv, NEW S \in SUBSET pending, seq + Cardinality(S) - 1 <= MaxSeq,
         NEW goOn \in BOOLEAN, NEW o, NEW kept,
         Keeps(Message, o, Acks(S, seq), goOn, kept), Adds(kept),
         NEW s \in Nat, s = seq', s >= seq, s <= seq + Cardinality(S),
         \A j \in 1 .. Len(kept) : kept[j].seq < s,
         failures' = failures + (IF o.pushed < Cardinality(S) THEN 1 ELSE 0),
         s - seq <= o.pushed + (IF o.pushed < Cardinality(S) THEN 1 ELSE 0),
         NEW d \in Nat, d = consumed', consumed <= d, d <= written,
         pending' \subseteq pending,
         \A k \in S : markPos[k] <= d /\ \A l \in pending' : k < l,
         UNCHANGED <<state, paused, chunk, timestamp_ms, written, markPos>>
  PROVE  /\ InOrder(Stream)' /\ (\A i \in 1 .. Len(Stream) : Sound(Stream[i]))'
         /\ GapsExplained' /\ Counting' /\ MarksInOrder'
         /\ clear_events' \in 0 .. MaxClears /\ clear_armed' \in BOOLEAN
              /\ clear_latency_samples' \in Nat => SessionTypeOK'
<1> DEFINE ms == Acks(S, seq)
           n == Cardinality(S)
<1>1. /\ SessionTypeOK /\ chunk \in Nat /\ written \in Nat /\ consumed \in 0 .. written
      /\ written - consumed <= PlayoutCap /\ PlayoutCap \in Nat /\ MaxSeq \in Nat
  BY SessionConstants DEF SessionInv, SessionTypeOK
<1>2. /\ ms \in Seq(Message) /\ Len(ms) = n /\ n \in Nat /\ seq \in Nat
      /\ InOrder(ms)
      /\ \A i \in 1 .. n : /\ ms[i].event = "mark" /\ ms[i].seq > 0
                           /\ ms[i].mark \in S /\ Follows(ms[i])
  BY AcksFields
<1> HIDE DEF ms, n
<1>3. /\ o.pushed \in 0 .. n /\ o.pushed = Len(kept) /\ kept \in Seq(Message)
      /\ failures \in Nat
      /\ failures + (IF o.pushed < Len(ms) THEN 1 ELSE 0) \in 0 .. MaxFailures
  <2>1. Keeps(Message, o, ms, goOn, kept)
    BY DEF ms
  <2> QED BY <2>1, <1>1, <1>2, OutcomeCount
<1>4. Thins(kept, ms)
  BY DEF Keeps, ms
<1>5. InOrder(kept)
  BY <1>2, <1>3, <1>4, ThinsInOrder
<1>6. ASSUME NEW j \in 1 .. Len(kept)
      PROVE  /\ kept[j].event = "mark" /\ kept[j].seq > 0 /\ kept[j].mark \in S
             /\ Follows(kept[j])
  <2>1. PICK i \in 1 .. Len(ms) : kept[j] = ms[i]
    BY <1>2, <1>3, <1>4, ThinsElement
  <2> QED BY <1>2, <2>1
<1>7. \A i \in 1 .. Len(Stream), j \in 1 .. Len(kept) : Precedes(Stream[i], kept[j])
  BY <1>3, <1>6, StreamPrecedes
<1>8. pending \in SUBSET (1 .. Len(markPos)) /\ IsFiniteSet(pending)
      /\ Cardinality(pending) \in 0 .. MarkMax
  BY <1>1, MarkType
<1>9. ASSUME NEW j \in 1 .. Len(kept)
      PROVE  Sound(kept[j])'
  <2>1. kept[j].mark \in S /\ kept[j].event = "mark" /\ kept[j].seq < s
    BY <1>6
  <2>2. kept[j].mark \in 1 .. Len(markPos)
    <3>1. kept[j].mark \in pending
      BY <2>1
    <3> QED BY <3>1, <1>8
  <2>3. markPos[kept[j].mark] <= d /\ \A l \in pending' : kept[j].mark < l
    BY <2>1
  <2> QED BY <2>1, <2>2, <2>3 DEF Sound
<1>10. \A x \in Message : Sound(x) => Sound(x)'
  <2>1. chunk' = chunk /\ chunk <= chunk /\ seq <= s
        /\ (state = "STOPPED" => state' = "STOPPED")
    BY <1>1, <1>2
  <2> QED BY <1>1, <2>1, SoundKept
<1>11. PICK g \in Nat : g = failures' /\ g \in 0 .. MaxFailures
                        /\ s - seq <= (Len(kept) - 0) + (g - failures)
  <2>1. PICK e \in Nat : e = IF o.pushed < n THEN 1 ELSE 0
    OBVIOUS
  <2>2. failures + e = failures' /\ failures + e \in 0 .. MaxFailures
    BY <2>1, <1>2, <1>3 DEF n
  <2>3. s - seq <= Len(kept) + e
    BY <2>1, <1>3 DEF n
  <2>4. s - seq <= (Len(kept) - 0) + ((failures + e) - failures)
    BY <2>1, <2>3, <1>2, <1>3
  <2> QED BY <2>2, <2>4, <1>3
<1>12. /\ InOrder(Stream)' /\ (\A i \in 1 .. Len(Stream) : Sound(Stream[i]))'
       /\ GapsExplained' /\ drops' \in Nat
  <2>1. /\ 0 \in 0 .. Len(kept) /\ \A j \in (0 + 1) .. Len(kept) : kept[j].seq > 0
        /\ seq' \in Nat /\ failures \in Nat /\ failures' \in Nat
    BY <1>3, <1>6, <1>11
  <2>2. /\ state' # "IDLE" /\ state = "IDLE" =>
             seq' - 1 <= (Len(kept) - 0) + (failures' - failures)
        /\ state' # "IDLE" /\ state # "IDLE" =>
             seq' - seq <= (Len(kept) - 0) + (failures' - failures)
    BY <1>11
  <2> QED BY <2>1, <2>2, <1>5, <1>7, <1>9, <1>10, AddsPreserves
<1>13. Counting'
  <2>1. CASE state = "IDLE"
    <3>1. /\ seq = 0 /\ chunk = 0 /\ pending = {} /\ wire = <<>> /\ outbound = <<>>
      BY <2>1 DEF SessionInv, Counting
    <3>2. S = {} /\ n = 0
      BY <3>1, FS_EmptySet DEF n
    <3>3. s = 0 /\ Len(kept) = 0
      BY <3>1, <3>2, <1>3 DEF n
    <3>4. wire' = <<>> /\ outbound' = <<>>
      <4>1. /\ wire' \in Seq(Message) /\ outbound' \in Seq(Message)
            /\ Thins(Stream', Stream \o kept)
        BY DEF Adds
      <4>2. Stream \in Seq(Message) /\ Len(Stream) = 0
        BY <1>1, <3>1, StreamType
      <4>3. /\ Stream' \in Seq(Message) /\ Len(Stream') = Len(wire') + Len(outbound')
            /\ Len(wire') \in Nat /\ Len(outbound') \in Nat
        BY <4>1, ConcatElement DEF Stream
      <4>4. Stream \o kept \in Seq(Message) /\ Len(Stream \o kept) = 0
        BY <4>2, <3>3, <1>3, ConcatElement
      <4>5. Len(Stream') <= 0
        BY <4>1, <4>3, <4>4, ThinsLen
      <4>6. PICK a \in Nat, b \in Nat : a = Len(wire') /\ b = Len(outbound')
        BY <4>3
      <4>7. a + b <= 0
        BY <4>3, <4>5, <4>6
      <4>8. a = 0 /\ b = 0
        BY <4>7
      <4> QED BY <4>1, <4>6, <4>8, EmptySeq
    <3> QED BY <2>1, <3>1, <3>3, <3>4 DEF Counting
  <2>2. CASE state # "IDLE"
    <3>1. seq >= 1
      BY <2>2 DEF SessionInv, Counting
    <3>2. s >= 1
      BY <3>1, <1>2
    <3> QED BY <2>2, <3>2 DEF SessionInv, Counting
  <2> QED BY <2>1, <2>2
<1>14. MarksInOrder'
  BY DEF SessionInv, MarksInOrder
<1>15. ASSUME clear_events' \in 0 .. MaxClears, clear_armed' \in BOOLEAN,
              clear_latency_samples' \in Nat
       PROVE  SessionTypeOK'
  <2>1. s \in 0 .. MaxSeq + 1
    BY <1>1, <1>2 DEF n
  <2>2. d \in 0 .. written /\ written - d <= PlayoutCap
    <3>1. consumed <= d /\ d <= written
      OBVIOUS
    <3> QED BY ONLY <3>1, <1>1, d \in Nat
  <2>3. Cardinality(pending') <= MarkMax
    <3>1. Cardinality(pending') <= Cardinality(pending) /\ IsFiniteSet(pending')
      BY <1>8, FS_Subset
    <3>2. PICK c \in Nat : c = Cardinality(pending')
      BY <3>1, FS_CardinalityType
    <3>3. c <= MarkMax
      BY <3>1, <3>2, <1>8, SessionConstants
    <3> QED BY <3>2, <3>3
  <2>4. /\ outbound' \in Seq(Message) /\ Len(outbound') <= QueueCap
        /\ wire' \in Seq(Message)
    BY DEF Adds
  <2>5. pending' \subseteq DOMAIN markPos'
    BY <1>1 DEF SessionTypeOK
  <2> QED BY <1>1, <1>11, <1>12, <1>15, <2>1, <2>2, <2>3, <2>4, <2>5 DEF SessionTypeOK
<1> QED BY <1>12, <1>13, <1>14, <1>15
LEMMA PeerClearKeeps ==
  ASSUME SessionInv, PeerClear
  PROVE  SessionInv'
<1> DEFINE ms == Acks(pending, seq)
           n == Cardinality(pending)
<1>1. /\ SessionTypeOK /\ written \in Nat /\ consumed \in 0 .. written
      /\ MaxClears \in Nat /\ clear_events \in 0 .. MaxClears /\ seq \in Nat
      /\ clear_latency_samples \in Nat
  BY SessionConstants DEF SessionInv, SessionTypeOK
<1>2. n \in Nat
  BY <1>1, MarkType
<1>3. Len(ms) = n
  BY <1>2 DEF Acks
<1>4. /\ pending \in SUBSET pending /\ seq + Cardinality(pending) - 1 <= MaxSeq
      /\ clear_events < MaxClears /\ consumed' = written /\ pending' = {}
      /\ clear_events' = clear_events + 1 /\ clear_armed' = TRUE
      /\ UNCHANGED <<state, paused, chunk, timestamp_ms, written, markPos,
                     clear_latency_samples, wire>>
  BY <1>3 DEF PeerClear
<1>5. /\ ms \in Seq(Message)
      /\ \A i \in 1 .. n : ms[i].seq = seq + i - 1
  BY <1>4, AcksFields
<1>6. PICK o \in EnqueueOutcomes(ms, FALSE) :
        Enqueue(ms, o) /\ seq' = seq + NumbersUsed(ms, o)
  BY DEF PeerClear
<1>7. /\ \E kept : Keeps(Message, o, ms, FALSE, kept) /\ Adds(kept)
      /\ failures' = failures + IF o.pushed < Len(ms) THEN 1 ELSE 0
  <2> HIDE DEF ms
  <2> QED BY <1>1, <1>4, <1>5, <1>6, EnqueueStep
<1>8. PICK kept : Keeps(Message, o, ms, FALSE, kept) /\ Adds(kept)
  BY <1>7
<1>9. o.pushed \in 0 .. n /\ o.pushed = Len(kept)
  <2> HIDE DEF ms
  <2> QED BY <1>1, <1>3, <1>5, <1>8, OutcomeCount
<1>10. \A i \in 1 .. Len(kept) : kept[i] = ms[i]
  <2> HIDE DEF ms
  <2>1. SessionTypeOK /\ ms \in Seq(Message) /\ Keeps(Message, o, ms, FALSE, kept)
    BY <1>1, <1>5, <1>8
  <2> QED BY ONLY <2>1, GiveUpKeeps
<1> HIDE DEF ms, n
<1>11. PICK s \in Nat : /\ s = seq' /\ s = seq + (IF o.pushed < n THEN o.pushed + 1 ELSE n)
  <2>1. seq' = seq + (IF o.pushed < n THEN o.pushed + 1 ELSE n)
    BY <1>3, <1>6 DEF NumbersUsed
  <2>2. seq + (IF o.pushed < n THEN o.pushed + 1 ELSE n) \in Nat
    BY <1>1, <1>2, <1>9
  <2> QED BY <2>1, <2>2
<1>12. /\ s >= seq /\ s <= seq + n /\ s >= seq + o.pushed
       /\ s - seq <= o.pushed + (IF o.pushed < n THEN 1 ELSE 0)
  BY ONLY <1>1, <1>2, <1>9, <1>11, s \in Nat
<1>13. ASSUME NEW j \in 1 .. Len(kept)
       PROVE  kept[j].seq < s
  <2>1. j \in 1 .. n /\ j \in 1 .. o.pushed
    BY <1>2, <1>9
  <2>2. kept[j].seq = seq + j - 1
    BY <2>1, <1>5, <1>10
  <2>3. seq + j - 1 < s
    BY ONLY <2>1, <1>1, <1>9, <1>12, s \in Nat
  <2> QED BY <2>2, <2>3
<1>14. \A k \in pending : markPos[k] <= written /\ \A l \in pending' : k < l
  <2>1. pending \in SUBSET (1 .. Len(markPos))
    BY <1>1, MarkType
  <2>2. \A k \in 1 .. Len(markPos) : markPos[k] <= written
    BY DEF SessionInv, MarksInOrder
  <2> QED BY <2>1, <2>2, <1>4
<1>15. /\ InOrder(Stream)' /\ (\A i \in 1 .. Len(Stream) : Sound(Stream[i]))'
       /\ GapsExplained' /\ Counting' /\ MarksInOrder'
       /\ clear_events' \in 0 .. MaxClears /\ clear_armed' \in BOOLEAN
            /\ clear_latency_samples' \in Nat => SessionTypeOK'
  <2>1. failures' = failures + (IF o.pushed < n THEN 1 ELSE 0)
    BY <1>3, <1>7
  <2>2. consumed <= written /\ written <= written /\ pending' \subseteq pending
    BY <1>1, <1>4
  <2>3. Keeps(Message, o, Acks(pending, seq), FALSE, kept) /\ Adds(kept)
    BY <1>8 DEF ms
  <2>4. /\ s = seq' /\ s >= seq /\ s <= seq + Cardinality(pending)
        /\ failures' = failures + (IF o.pushed < Cardinality(pending) THEN 1 ELSE 0)
        /\ s - seq <= o.pushed + (IF o.pushed < Cardinality(pending) THEN 1 ELSE 0)
    BY <1>11, <1>12, <2>1 DEF n
  <2>5. UNCHANGED <<state, paused, chunk, timestamp_ms, written, markPos>>
    BY <1>4
  <2> QED BY <1>1, <1>4, <1>13, <1>14, <2>2, <2>3, <2>4, <2>5, AcksKeep
<1>16. SessionTypeOK'
  <2>1. clear_events + 1 \in 0 .. MaxClears
    BY <1>1, <1>4
  <2>2. clear_events' \in 0 .. MaxClears /\ clear_latency_samples' \in Nat
    BY <2>1, <1>1, <1>4
  <2>3. clear_armed' \in BOOLEAN
    BY <1>4
  <2> QED BY <2>2, <2>3, <1>15
<1>17. OneSamplePerClear'
  <2>1. clear_latency_samples <= clear_events
    <3>1. CASE clear_armed
      BY <3>1, <1>1 DEF SessionInv, OneSamplePerClear
    <3>2. CASE ~clear_armed
      BY <3>2, <1>1 DEF SessionInv, OneSamplePerClear
    <3> QED BY <3>1, <3>2
  <2>2. clear_latency_samples + 1 <= clear_events + 1
    BY <2>1, <1>1
  <2> QED BY <2>2, <1>4 DEF OneSamplePerClear
<1> QED BY <1>15, <1>16, <1>17 DEF SessionInv

\* The completed marks are older than those that stay pending.
LEMMA CompletedFirst ==
  ASSUME SessionInv
  PROVE  /\ First(HarvestMax, Completed) \in SUBSET pending
         /\ Completed \in SUBSET pending
         /\ \A k \in First(HarvestMax, Completed) :
              markPos[k] <= consumed /\ \A l \in pending \ Completed : k < l
<1>1. /\ First(HarvestMax, Completed) \in SUBSET Completed
      /\ Completed \in SUBSET pending
  BY DEF First, Completed
<1>2. SessionTypeOK /\ consumed \in Int
  BY SessionConstants DEF SessionInv, SessionTypeOK
<1>3. /\ Len(markPos) \in Nat /\ pending \in SUBSET (1 .. Len(markPos))
      /\ \A k \in 1 .. Len(markPos) : markPos[k] \in 0 .. MaxBytes
  BY <1>2, MarkType
<1>4. ASSUME NEW k \in Completed, NEW l \in pending \ Completed
      PROVE  k < l
  <2>1. /\ k \in 1 .. Len(markPos) /\ l \in 1 .. Len(markPos)
        /\ markPos[k] <= consumed /\ ~(markPos[l] <= consumed)
    BY <1>3 DEF Completed
  <2>2. markPos[k] \in Int /\ markPos[l] \in Int
    BY <2>1, <1>3
  <2>3. l < k => markPos[l] <= markPos[k]
    BY <2>1 DEF SessionInv, MarksInOrder
  <2> QED BY <2>1, <2>2, <2>3, <1>2
<1> QED BY <1>1, <1>4 DEF Completed
\* Peek and pop: a harvest, with or without the head sent.
LEMMA HarvestKeeps ==
  ASSUME SessionInv, NEW o \in EnqueueOutcomes(Harvest, TRUE), HarvestMarks(o),
         \/ outbound' = o.queue /\ wire' = wire
         \/ /\ o.queue # <<>> /\ outbound' = Tail(o.queue)
            /\ wire' = Append(wire, Head(o.queue))
  PROVE  SessionInv'
<1> DEFINE S == First(HarvestMax, Completed)
           n == Cardinality(S)
<1>1. /\ SessionTypeOK /\ written \in Nat /\ consumed \in 0 .. written /\ seq \in Nat
      /\ wire \in Seq(Message) /\ outbound \in Seq(Message)
      /\ QueueCap \in Nat /\ consumed \in Nat
  BY SessionConstants DEF SessionInv, SessionTypeOK
<1>2. /\ S \in SUBSET pending
      /\ \A k \in S : markPos[k] <= consumed /\ \A l \in pending \ Completed : k < l
  BY CompletedFirst
<1>3. n \in Nat
  <2>1. IsFiniteSet(pending)
    BY <1>1, MarkType
  <2> HIDE DEF S
  <2>2. IsFiniteSet(S)
    BY <2>1, <1>2, FS_Subset
  <2> QED BY <2>2, FS_CardinalityType
<1>4. Harvest = Acks(S, seq) /\ Len(Harvest) = n
  BY <1>3 DEF Harvest, Acks
<1>5. /\ seq + n - 1 <= MaxSeq
      /\ drops' = drops + Dropped(o)
      /\ failures' = failures + (IF o.pushed < n THEN 1 ELSE 0)
      /\ seq' = seq + n /\ pending' = pending \ Completed
      /\ UNCHANGED <<state, paused, chunk, timestamp_ms, written, consumed, markPos,
                     clear_events, clear_armed, clear_latency_samples>>
  BY <1>4 DEF HarvestMarks, clearVars
<1> HIDE DEF S, n
<1>6. /\ Harvest \in Seq(Message)
      /\ \A i \in 1 .. n : Harvest[i].seq = seq + i - 1
  BY <1>2, <1>4, <1>5, AcksFields DEF n
<1>7. PICK kept : Keeps(Message, o, Harvest, TRUE, kept)
  BY <1>1, <1>6, OutcomeKeeps
<1>8. /\ wire' \in Seq(Message) /\ outbound' \in Seq(Message)
      /\ Len(outbound') <= QueueCap
      /\ wire' \o outbound' = wire \o o.queue
  <2>1. o.queue \in Seq(Message) /\ Len(o.queue) <= QueueCap
    BY <1>7 DEF Keeps
  <2>2. CASE outbound' = o.queue /\ wire' = wire
    BY <2>1, <2>2, <1>1
  <2>3. CASE /\ o.queue # <<>> /\ outbound' = Tail(o.queue)
             /\ wire' = Append(wire, Head(o.queue))
    <3>1. /\ Append(wire, Head(o.queue)) \in Seq(Message)
          /\ Tail(o.queue) \in Seq(Message) /\ Len(Tail(o.queue)) <= Len(o.queue)
          /\ Append(wire, Head(o.queue)) \o Tail(o.queue) = wire \o o.queue
      BY <2>1, <2>3, <1>1, HeadMoves
    <3>2. Len(o.queue) \in Nat /\ Len(Tail(o.queue)) \in Nat
      BY <2>1, <3>1, LenProperties
    <3>3. Len(Tail(o.queue)) <= QueueCap
      BY <2>1, <3>1, <3>2, <1>1
    <3> QED BY <2>3, <3>1, <3>3
  <2> QED BY <2>2, <2>3
<1>9. Adds(kept)
  BY <1>1, <1>5, <1>6, <1>7, <1>8, EnqueueAdds
<1>10. /\ o.pushed \in 0 .. n /\ o.pushed = Len(kept) /\ kept \in Seq(Message)
  <2>1. SessionTypeOK /\ Harvest \in Seq(Message) /\ TRUE \in BOOLEAN
    BY <1>6 DEF SessionInv
  <2>2. /\ o.pushed \in 0 .. Len(Harvest) /\ o.pushed = Len(kept)
        /\ kept \in Seq(Message)
    BY <1>7, <2>1, OutcomeCount, Zenon
  <2> QED BY <1>4, <2>2, Zenon
<1>11. n <= o.pushed + 1 /\ Thins(kept, Harvest)
  BY <1>4, <1>7 DEF Keeps
<1>12. PICK s \in Nat : s = seq' /\ s = seq + n
  BY <1>1, <1>3, <1>5
<1>13. ASSUME NEW j \in 1 .. Len(kept)
       PROVE  kept[j].seq < s
  <2>1. PICK i \in 1 .. Len(Harvest) : kept[j] = Harvest[i]
    BY <1>6, <1>10, <1>11, ThinsElement
  <2>2. i \in 1 .. n /\ kept[j].seq = seq + i - 1
    BY <2>1, <1>4, <1>6
  <2>3. seq + i - 1 < s
    BY ONLY <2>2, <1>1, <1>3, <1>12, s \in Nat
  <2> QED BY <2>2, <2>3
<1>14. /\ InOrder(Stream)' /\ (\A i \in 1 .. Len(Stream) : Sound(Stream[i]))'
       /\ GapsExplained' /\ Counting' /\ MarksInOrder'
       /\ clear_events' \in 0 .. MaxClears /\ clear_armed' \in BOOLEAN
            /\ clear_latency_samples' \in Nat => SessionTypeOK'
  <2>1. /\ s >= seq /\ s <= seq + n
        /\ s - seq <= o.pushed + (IF o.pushed < n THEN 1 ELSE 0)
    BY ONLY <1>1, <1>3, <1>10, <1>11, <1>12, s \in Nat
  <2>2. /\ s = seq' /\ s >= seq /\ s <= seq + Cardinality(S)
        /\ seq + Cardinality(S) - 1 <= MaxSeq
        /\ failures' = failures + (IF o.pushed < Cardinality(S) THEN 1 ELSE 0)
        /\ s - seq <= o.pushed + (IF o.pushed < Cardinality(S) THEN 1 ELSE 0)
    BY <2>1, <1>5, <1>12 DEF n
  <2>3. /\ consumed' = consumed /\ consumed <= consumed /\ consumed <= written
        /\ pending' \subseteq pending
    BY <1>1, <1>5
  <2>4. Keeps(Message, o, Acks(S, seq), TRUE, kept)
    BY <1>4, <1>7
  <2>5. \A k \in S : markPos[k] <= consumed /\ \A l \in pending' : k < l
    BY <1>2, <1>5
  <2>6. UNCHANGED <<state, paused, chunk, timestamp_ms, written, markPos>>
    BY <1>5
  <2> QED BY <1>1, <1>2, <1>9, <1>13, <2>2, <2>3, <2>4, <2>5, <2>6, AcksKeep
<1>15. SessionTypeOK'
  BY <1>1, <1>5, <1>14 DEF SessionTypeOK
<1>16. OneSamplePerClear'
  BY <1>5 DEF SessionInv, OneSamplePerClear
<1> QED BY <1>14, <1>15, <1>16 DEF SessionInv

LEMMA PeekKeeps ==
  ASSUME SessionInv, PeekOutbound
  PROVE  SessionInv'
BY HarvestKeeps DEF PeekOutbound

LEMMA PopKeeps ==
  ASSUME SessionInv, PopOutbound
  PROVE  SessionInv'
<1>1. PICK o \in EnqueueOutcomes(Harvest, TRUE) :
        /\ HarvestMarks(o)
        /\ IF o.queue = <<>>
             THEN outbound' = <<>> /\ wire' = wire
             ELSE outbound' = Tail(o.queue) /\ wire' = Append(wire, Head(o.queue))
  BY DEF PopOutbound
<1>2. \/ outbound' = o.queue /\ wire' = wire
      \/ /\ o.queue # <<>> /\ outbound' = Tail(o.queue)
         /\ wire' = Append(wire, Head(o.queue))
  BY <1>1
<1> QED BY <1>1, <1>2, HarvestKeeps
\* The handshake of a first or a later connection, numbered m.
LEMMA HandshakeKeeps ==
  ASSUME SessionInv, NEW m \in 1 .. MaxSeq,
         \/ state = "IDLE" /\ m = 1 /\ chunk' = 1 /\ timestamp_ms' = 0 /\ state' # "IDLE"
         \/ state = "RUNNING" /\ m = seq /\ UNCHANGED <<state, chunk, timestamp_ms>>,
         NEW o \in EnqueueOutcomes(<<ConnectedMsg, StartMsg(m)>>, FALSE),
         Enqueue(<<ConnectedMsg, StartMsg(m)>>, o),
         seq' = IF o.pushed = 0 THEN m ELSE m + 1,
         state' \in {"STARTING", "RUNNING"},
         UNCHANGED <<paused, written, consumed, pending, markPos, clear_events,
                     clear_armed, clear_latency_samples, wire>>
  PROVE  SessionInv'
<1> DEFINE ms == <<ConnectedMsg, StartMsg(m)>>
           k == o.pushed
<1>1. /\ SessionTypeOK /\ seq \in Nat /\ chunk \in Nat /\ consumed \in Nat /\ MaxSeq \in Nat
      /\ state \in {"IDLE", "RUNNING"} /\ seq <= m /\ m \in Nat /\ m >= 1
      /\ (state = "IDLE" => m = 1 /\ chunk = 0) /\ (state = "RUNNING" => m = seq)
  BY SessionConstants DEF SessionInv, SessionTypeOK, Counting
<1>2. /\ ms \in Seq(Message) /\ Len(ms) = 2
      /\ ms[1].event = "connected" /\ ms[1].seq = 0
      /\ ms[2].event = "start" /\ ms[2].seq = m
  <2>1. m \in 0 .. MaxSeq
    OBVIOUS
  <2>2. /\ StartMsg(m) \in Message /\ StartMsg(m).event = "start" /\ StartMsg(m).seq = m
        /\ ConnectedMsg \in Message /\ ConnectedMsg.event = "connected"
        /\ ConnectedMsg.seq = 0
    BY <2>1, StartFields
  <2> QED BY <2>2
<1> HIDE DEF ms
<1>3. /\ \E kept : Keeps(Message, o, ms, FALSE, kept) /\ Adds(kept)
      /\ failures' = failures + IF o.pushed < Len(ms) THEN 1 ELSE 0
  <2>1. o \in EnqueueOutcomes(ms, FALSE) /\ Enqueue(ms, o) /\ wire' = wire
    BY DEF ms
  <2> QED BY <2>1, <1>1, <1>2, EnqueueStep
<1>4. PICK kept : Keeps(Message, o, ms, FALSE, kept) /\ Adds(kept)
  BY <1>3
<1>5. /\ k \in 0 .. 2 /\ k = Len(kept) /\ kept \in Seq(Message) /\ failures \in Nat
      /\ failures + (IF o.pushed < Len(ms) THEN 1 ELSE 0) \in 0 .. MaxFailures
  BY <1>1, <1>2, <1>4, OutcomeCount
<1>6. \A i \in 1 .. Len(kept) : kept[i] = ms[i]
  <2>1. SessionTypeOK /\ ms \in Seq(Message) /\ Keeps(Message, o, ms, FALSE, kept)
    BY <1>1, <1>2, <1>4
  <2> QED BY ONLY <2>1, GiveUpKeeps
<1> HIDE DEF k
<1>7. PICK s \in Nat, g \in Nat, c \in Nat :
        /\ s = seq' /\ s = (IF k = 0 THEN m ELSE m + 1)
        /\ g = failures' /\ g = failures + (IF k < 2 THEN 1 ELSE 0)
        /\ c = chunk' /\ chunk <= c /\ c >= 1
  <2>1. PICK g \in Nat : g = failures' /\ g = failures + (IF k < 2 THEN 1 ELSE 0)
    BY <1>2, <1>3, <1>5 DEF k
  <2>2. PICK s \in Nat : s = seq' /\ s = (IF k = 0 THEN m ELSE m + 1)
    BY <1>1 DEF k
  <2>3. PICK c \in Nat : c = chunk' /\ chunk <= c /\ c >= 1
    <3>1. CASE state = "IDLE"
      <4>1. chunk = 0 /\ chunk' = 1
        BY <3>1, <1>1
      <4> QED BY <4>1
    <3>2. CASE state = "RUNNING"
      <4>1. chunk >= 1 /\ chunk' = chunk
        BY <3>2 DEF SessionInv, Counting
      <4> QED BY <4>1, <1>1
    <3> QED BY <3>1, <3>2, <1>1
  <2> QED BY <2>1, <2>2, <2>3
<1>8. ASSUME NEW j \in 1 .. Len(kept)
      PROVE  /\ j = 1 => kept[j].event = "connected" /\ kept[j].seq = 0
             /\ j = 2 => kept[j].event = "start" /\ kept[j].seq = m
             /\ j \in {1, 2}
  BY <1>2, <1>5, <1>6
<1>9. InOrder(kept)
  <2>1. ASSUME NEW i \in 1 .. Len(kept), NEW j \in 1 .. Len(kept), i < j
        PROVE  Precedes(kept[i], kept[j])
    <3>1. i = 1
      BY <1>8, <2>1
    <3> QED BY <1>8, <3>1 DEF Precedes
  <2> QED BY <2>1 DEF InOrder
<1>10. \A i \in 1 .. Len(Stream), j \in 1 .. Len(kept) : Precedes(Stream[i], kept[j])
  <2>1. \A j \in 1 .. Len(kept) : Follows(kept[j])
    BY <1>1, <1>8 DEF Follows
  <2> QED BY <2>1, <1>5, StreamPrecedes
<1>11. ASSUME NEW j \in 1 .. Len(kept)
       PROVE  Sound(kept[j])'
  <2>1. CASE j = 1
    <3>1. kept[j].event = "connected" /\ kept[j].seq = 0
      BY <1>8, <2>1
    <3>2. 0 < s
      BY ONLY <1>1, <1>7, s \in Nat, m \in Nat
    <3>3. kept[j].seq < s
      BY <3>1, <3>2
    <3> QED BY <3>1, <3>3, <1>7 DEF Sound
  <2>2. CASE j = 2
    <3>1. kept[j].event = "start" /\ kept[j].seq = m /\ k # 0
      BY <1>5, <1>8, <2>2
    <3>2. m < s
      BY ONLY <1>1, <1>7, <3>1, s \in Nat
    <3>3. kept[j].seq < s
      BY <3>1, <3>2
    <3> QED BY <3>1, <3>3, <1>7 DEF Sound
  <2> QED BY <2>1, <2>2, <1>8
<1>12. \A x \in Message : Sound(x) => Sound(x)'
  <2>1. seq <= s
    BY ONLY <1>1, <1>7, s \in Nat
  <2>2. /\ seq' = s /\ chunk' = c /\ chunk <= c
        /\ consumed' = consumed /\ consumed <= consumed
        /\ markPos' = markPos /\ pending' \subseteq pending
        /\ (state = "STOPPED" => state' = "STOPPED")
    BY <1>1, <1>7
  <2> QED BY <1>1, <2>1, <2>2, SoundKept
<1>13. PICK a \in 0 .. Len(kept) :
         /\ \A j \in (a + 1) .. Len(kept) : kept[j].seq > 0
         /\ s - m <= (Len(kept) - a) + (g - failures)
  <2>1. CASE k = 0
    <3>1. s - m <= (0 - 0) + (g - failures)
      BY ONLY <2>1, <1>1, <1>5, <1>7, s \in Nat, g \in Nat
    <3>2. 0 \in 0 .. Len(kept) /\ Len(kept) = 0 /\ \A j \in (0 + 1) .. Len(kept) : FALSE
      BY <2>1, <1>5
    <3>3. s - m <= (Len(kept) - 0) + (g - failures)
      BY <3>1, <3>2
    <3> QED BY <3>2, <3>3
  <2>2. CASE k # 0
    <3>1. s - m <= (k - 1) + (g - failures) /\ 1 \in 0 .. k
      BY ONLY <2>2, <1>1, <1>5, <1>7, s \in Nat, g \in Nat
    <3>2. \A j \in (1 + 1) .. Len(kept) : kept[j].seq > 0
      BY <1>1, <1>5, <1>8
    <3> QED BY <3>1, <3>2, <1>5
  <2> QED BY <2>1, <2>2
<1>14. /\ InOrder(Stream)' /\ (\A i \in 1 .. Len(Stream) : Sound(Stream[i]))'
       /\ GapsExplained' /\ drops' \in Nat
  <2>1. seq' \in Nat /\ failures \in Nat /\ failures' \in Nat
    BY <1>5, <1>7
  <2>2. /\ state' # "IDLE" /\ state = "IDLE" =>
             seq' - 1 <= (Len(kept) - a) + (failures' - failures)
        /\ state' # "IDLE" /\ state # "IDLE" =>
             seq' - seq <= (Len(kept) - a) + (failures' - failures)
    BY <1>1, <1>7, <1>13
  <2> QED BY <2>1, <2>2, <1>4, <1>9, <1>10, <1>11, <1>12, <1>13, AddsPreserves
<1>15. SessionTypeOK'
  <2>1. s \in 0 .. MaxSeq + 1
    BY ONLY <1>1, <1>7, s \in Nat, m \in 1 .. MaxSeq
  <2>2. failures' \in 0 .. MaxFailures
    BY <1>3, <1>5
  <2>3. /\ outbound' \in Seq(Message) /\ Len(outbound') <= QueueCap
        /\ wire' \in Seq(Message)
    BY <1>4 DEF Adds
  <2>4. timestamp_ms' \in Nat
    BY DEF SessionInv, SessionTypeOK
  <2> QED BY <1>1, <1>7, <1>14, <2>1, <2>2, <2>3, <2>4 DEF SessionTypeOK
<1>16. Counting'
  <2>1. s >= 1
    BY ONLY <1>1, <1>7, s \in Nat
  <2>2. timestamp_ms' = 20 * (chunk' - 1)
    <3>1. CASE state = "IDLE"
      <4>1. timestamp_ms' = 0 /\ chunk' = 1 /\ 0 = 20 * (1 - 1)
        BY <3>1, <1>1
      <4> QED BY <4>1
    <3>2. CASE state = "RUNNING"
      BY <3>2 DEF SessionInv, Counting
    <3> QED BY <3>1, <3>2, <1>1
  <2> QED BY <2>1, <2>2, <1>7 DEF Counting
<1>17. MarksInOrder' /\ OneSamplePerClear'
  BY DEF SessionInv, MarksInOrder, OneSamplePerClear
<1> QED BY <1>14, <1>15, <1>16, <1>17 DEF SessionInv
LEMMA StartKeeps ==
  ASSUME SessionInv, SessionStart
  PROVE  SessionInv'
<1> DEFINE ms == <<ConnectedMsg, StartMsg(1)>>
<1>1. /\ state = "IDLE" /\ 1 \in 1 .. MaxSeq
      /\ UNCHANGED <<paused, written, consumed, pending, markPos, clear_events,
                     clear_armed, clear_latency_samples, wire>>
  BY SessionConstants DEF SessionStart, playoutVars, clearVars
<1>2. CASE /\ \E o \in EnqueueOutcomes(ms, FALSE) :
                /\ Enqueue(ms, o)
                /\ seq' = IF o.pushed = 0 THEN 1 ELSE 2
                /\ state' = IF o.pushed = Len(ms) THEN "RUNNING" ELSE "STARTING"
           /\ chunk' = 1 /\ timestamp_ms' = 0
  <2>1. PICK o \in EnqueueOutcomes(ms, FALSE) :
          /\ Enqueue(ms, o)
          /\ seq' = IF o.pushed = 0 THEN 1 ELSE 2
          /\ state' = IF o.pushed = Len(ms) THEN "RUNNING" ELSE "STARTING"
    BY <1>2
  <2>2. /\ seq' = (IF o.pushed = 0 THEN 1 ELSE 1 + 1)
        /\ state' \in {"STARTING", "RUNNING"} /\ state' # "IDLE"
    BY <2>1
  <2> QED BY <1>1, <1>2, <2>1, <2>2, HandshakeKeeps
<1>3. CASE /\ failures < MaxFailures
           /\ failures' = failures + 1
           /\ UNCHANGED <<outbound, drops, seq, state, chunk, timestamp_ms>>
  <2>1. SessionTypeOK /\ failures \in 0 .. MaxFailures /\ MaxFailures \in Nat
    BY SessionConstants DEF SessionInv, SessionTypeOK
  <2>2. failures' \in 0 .. MaxFailures
    BY <1>3, <2>1
  <2>3. SessionTypeOK'
    BY <1>1, <1>3, <2>1, <2>2 DEF SessionTypeOK
  <2>4. Counting' /\ MarksInOrder' /\ OneSamplePerClear'
    BY <1>1, <1>3 DEF SessionInv, Counting, MarksInOrder, OneSamplePerClear
  <2>5. Stream' = Stream
    BY <1>1, <1>3 DEF Stream
  <2>6. InOrder(Stream)' /\ (\A i \in 1 .. Len(Stream) : Sound(Stream[i]))'
    BY <1>1, <1>3, <2>5 DEF SessionInv, InOrder, Sound
  <2>7. GapsExplained'
    BY <1>1, <1>3 DEF GapsExplained
  <2> QED BY <2>3, <2>4, <2>6, <2>7 DEF SessionInv
<1> QED BY <1>2, <1>3 DEF SessionStart

LEMMA RehandshakeKeeps ==
  ASSUME SessionInv, Rehandshake
  PROVE  SessionInv'
<1>1. /\ state = "RUNNING" /\ seq <= MaxSeq /\ seq \in Nat /\ seq >= 1 /\ MaxSeq \in Nat
      /\ UNCHANGED <<state, paused, chunk, timestamp_ms, written, consumed, pending,
                     markPos, clear_events, clear_armed, clear_latency_samples, wire>>
  BY SessionConstants DEF SessionInv, SessionTypeOK, Counting, Rehandshake, playoutVars,
       clearVars
<1>2. PICK m \in 1 .. MaxSeq : m = seq
  BY <1>1
<1>3. PICK o \in EnqueueOutcomes(<<ConnectedMsg, StartMsg(m)>>, FALSE) :
        /\ Enqueue(<<ConnectedMsg, StartMsg(m)>>, o)
        /\ seq' = IF o.pushed = 0 THEN m ELSE m + 1
  BY <1>2 DEF Rehandshake, RestartSeq
<1>4. state' \in {"STARTING", "RUNNING"}
  BY <1>1
<1> QED BY <1>1, <1>2, <1>3, <1>4, HandshakeKeeps

LEMMA StopKeeps ==
  ASSUME SessionInv, SessionStop
  PROVE  SessionInv'
<1> DEFINE ms == <<StopMsg(seq)>>
<1>1. /\ SessionTypeOK /\ seq \in Nat /\ seq >= 1 /\ seq <= MaxSeq /\ MaxSeq \in Nat
      /\ seq' = seq + 1 /\ state # "IDLE" /\ state # "STOPPED"
      /\ chunk \in Nat /\ consumed \in Nat
      /\ UNCHANGED <<paused, chunk, timestamp_ms, written, consumed, pending,
                     markPos, clear_events, clear_armed, clear_latency_samples, wire>>
  BY SessionConstants DEF SessionInv, SessionTypeOK, Counting, SessionStop, MayStop,
       playoutVars, clearVars
<1>2. /\ ms \in Seq(Message) /\ Len(ms) = 1 /\ ms[1].event = "stop" /\ ms[1].seq = seq
  <2>1. seq \in 0 .. MaxSeq
    BY <1>1
  <2>2. StopMsg(seq) \in Message /\ StopMsg(seq).event = "stop" /\ StopMsg(seq).seq = seq
    BY <2>1, StopFields
  <2> QED BY <2>2
<1>3. PICK o \in EnqueueOutcomes(ms, FALSE) :
        /\ Enqueue(ms, o)
        /\ state' = IF o.pushed = 1 THEN "STOPPED" ELSE "STOPPING"
  BY DEF SessionStop
<1> HIDE DEF ms
<1>4. /\ \E kept : Keeps(Message, o, ms, FALSE, kept) /\ Adds(kept)
      /\ failures' = failures + IF o.pushed < Len(ms) THEN 1 ELSE 0
  BY <1>1, <1>2, <1>3, EnqueueStep
<1>5. PICK kept : Keeps(Message, o, ms, FALSE, kept) /\ Adds(kept)
  BY <1>4
<1>6. /\ o.pushed \in 0 .. 1 /\ o.pushed = Len(kept) /\ kept \in Seq(Message)
      /\ failures \in Nat
      /\ failures + (IF o.pushed < Len(ms) THEN 1 ELSE 0) \in 0 .. MaxFailures
  BY <1>1, <1>2, <1>5, OutcomeCount
<1>7. \A i \in 1 .. Len(kept) : kept[i] = ms[i]
  <2>1. SessionTypeOK /\ ms \in Seq(Message) /\ Keeps(Message, o, ms, FALSE, kept)
    BY <1>1, <1>2, <1>5
  <2> QED BY ONLY <2>1, GiveUpKeeps
<1>8. PICK s \in Nat, g \in Nat : /\ s = seq' /\ s = seq + 1
                                  /\ g = failures'
                                  /\ g = failures + (IF o.pushed < 1 THEN 1 ELSE 0)
  BY <1>1, <1>2, <1>4, <1>6
<1>9. ASSUME NEW j \in 1 .. Len(kept)
      PROVE  /\ j = 1 /\ kept[j].event = "stop" /\ kept[j].seq = seq /\ state' = "STOPPED"
  <2>1. PICK l \in 0 .. 1 : l = Len(kept) /\ l = o.pushed
    BY <1>6
  <2>2. j \in 1 .. l
    BY <2>1
  <2>3. j = 1 /\ l = 1
    BY ONLY <2>2, l \in 0 .. 1
  <2> QED BY <2>1, <2>3, <1>2, <1>3, <1>7
<1>10. InOrder(kept)
  BY <1>9 DEF InOrder
<1>11. \A i \in 1 .. Len(Stream), j \in 1 .. Len(kept) : Precedes(Stream[i], kept[j])
  <2>1. \A j \in 1 .. Len(kept) : Follows(kept[j])
    BY <1>1, <1>9 DEF Follows
  <2> QED BY <2>1, <1>6, StreamPrecedes
<1>12. ASSUME NEW j \in 1 .. Len(kept)
       PROVE  Sound(kept[j])'
  <2>1. seq < s
    BY <1>1, <1>8
  <2>2. kept[j].seq < s
    BY <2>1, <1>9
  <2> QED BY <2>2, <1>8, <1>9 DEF Sound
<1>13. \A x \in Message : Sound(x) => Sound(x)'
  <2>1. /\ seq' = s /\ seq <= s /\ chunk' = chunk /\ chunk <= chunk
        /\ consumed' = consumed /\ consumed <= consumed
        /\ markPos' = markPos /\ pending' \subseteq pending
        /\ (state = "STOPPED" => state' = "STOPPED")
    BY <1>1, <1>8
  <2> QED BY <1>1, <2>1, SoundKept
<1>14. /\ InOrder(Stream)' /\ (\A i \in 1 .. Len(Stream) : Sound(Stream[i]))'
       /\ GapsExplained' /\ drops' \in Nat
  <2>1. /\ 0 \in 0 .. Len(kept) /\ \A j \in (0 + 1) .. Len(kept) : kept[j].seq > 0
        /\ seq' \in Nat /\ failures \in Nat /\ failures' \in Nat
    BY <1>1, <1>6, <1>8, <1>9
  <2>2. s - seq <= (Len(kept) - 0) + (g - failures)
    BY ONLY <1>1, <1>6, <1>8, s \in Nat, g \in Nat
  <2>3. /\ state' # "IDLE" /\ state = "IDLE" =>
             seq' - 1 <= (Len(kept) - 0) + (failures' - failures)
        /\ state' # "IDLE" /\ state # "IDLE" =>
             seq' - seq <= (Len(kept) - 0) + (failures' - failures)
    BY <2>2, <1>1, <1>8
  <2> QED BY <2>1, <2>3, <1>5, <1>10, <1>11, <1>12, <1>13, AddsPreserves
<1>15. SessionTypeOK'
  <2>1. seq' \in 0 .. MaxSeq + 1
    BY <1>1
  <2>2. failures' \in 0 .. MaxFailures
    BY <1>4, <1>6
  <2>3. /\ outbound' \in Seq(Message) /\ Len(outbound') <= QueueCap
        /\ wire' \in Seq(Message)
    BY <1>5 DEF Adds
  <2>4. state' \in {"STOPPED", "STOPPING"}
    BY <1>3
  <2> QED BY <1>1, <1>14, <2>1, <2>2, <2>3, <2>4 DEF SessionTypeOK
<1>16. Counting'
  <2>1. s >= 1
    BY <1>1, <1>8
  <2> QED BY <2>1, <1>1, <1>3, <1>8 DEF SessionInv, Counting
<1>17. MarksInOrder' /\ OneSamplePerClear'
  BY <1>1 DEF SessionInv, MarksInOrder, OneSamplePerClear
<1> QED BY <1>14, <1>15, <1>16, <1>17 DEF SessionInv

\* A session without messages, marks and counts.
LEMMA FreshStream ==
  <<>> \o <<>> = <<>> /\ Len(<<>>) = 0 /\ <<>> \in Seq(Message) /\ 1 .. 0 = {}
BY EmptySeq, ConcatEmptySeq

LEMMA InitSound ==
  ASSUME Init
  PROVE  SessionInv
<1>1. Stream = <<>> /\ Len(Stream) = 0 /\ Len(markPos) = 0 /\ 1 .. 0 = {}
  BY FreshStream DEF Init, Stream
<1>2. SessionTypeOK
  <2>1. Cardinality({}) = 0
    BY FS_EmptySet
  <2>2. markPos \in Seq(0 .. MaxBytes) /\ Len(markPos) = 0
    BY <1>1, EmptySeq DEF Init
  <2>3. /\ 0 \in 0 .. (MaxSeq + 1) /\ 0 \in Nat /\ 0 \in 0 .. MaxBytes /\ 0 \in 0 .. 0
        /\ 0 <= PlayoutCap /\ 0 <= MaxMarks /\ 0 <= MarkMax /\ 0 <= QueueCap
        /\ 0 \in 0 .. MaxClears /\ 0 \in 0 .. MaxFailures /\ 0 - 0 = 0
    BY SessionConstants
  <2>4. outbound \in Seq(Message) /\ Len(outbound) = 0 /\ wire \in Seq(Message)
    BY FreshStream DEF Init
  <2>5. pending \subseteq DOMAIN markPos /\ Cardinality(pending) = 0
    BY <2>1 DEF Init
  <2> QED BY <2>2, <2>3, <2>4, <2>5 DEF Init, SessionTypeOK
<1> QED BY <1>1, <1>2
        DEF Init, SessionInv, InOrder, Counting, MarksInOrder, GapsExplained,
            OneSamplePerClear

LEMMA DestroyKeeps ==
  ASSUME SessionDestroy
  PROVE  SessionInv'
<1>1. Stream' = <<>> /\ Len(Stream') = 0 /\ Len(markPos') = 0 /\ 1 .. 0 = {}
  BY FreshStream DEF SessionDestroy, Stream
<1>2. SessionTypeOK'
  <2>1. Cardinality({}) = 0
    BY FS_EmptySet
  <2>2. markPos' \in Seq(0 .. MaxBytes) /\ Len(markPos') = 0
    BY <1>1, EmptySeq DEF SessionDestroy
  <2>3. /\ 0 \in 0 .. (MaxSeq + 1) /\ 0 \in Nat /\ 0 \in 0 .. MaxBytes /\ 0 \in 0 .. 0
        /\ 0 <= PlayoutCap /\ 0 <= MaxMarks /\ 0 <= MarkMax /\ 0 <= QueueCap
        /\ 0 \in 0 .. MaxClears /\ 0 \in 0 .. MaxFailures /\ 0 - 0 = 0
    BY SessionConstants
  <2>4. outbound' \in Seq(Message) /\ Len(outbound') = 0 /\ wire' \in Seq(Message)
    BY FreshStream DEF SessionDestroy
  <2>5. pending' \subseteq DOMAIN markPos' /\ Cardinality(pending') = 0
    BY <2>1 DEF SessionDestroy
  <2> QED BY <2>2, <2>3, <2>4, <2>5 DEF SessionDestroy, SessionTypeOK
<1> QED BY <1>1, <1>2
        DEF SessionDestroy, SessionInv, InOrder, Counting, MarksInOrder, GapsExplained,
            OneSamplePerClear
-----------------------------------------------------------------------------
(* The theorems *)

LEMMA SessionStep ==
  ASSUME SessionInv, [SessionNext]_sessionVars
  PROVE  SessionInv'
<1>1. CASE SessionStart
  BY <1>1, StartKeeps
<1>2. CASE \E n \in Frames : PushPcm16(n)
  BY <1>2, PushKeeps, SessionConstants
<1>3. CASE \E len \in Lens : PeerMedia(len)
  BY <1>3, PeerMediaKeeps
<1>4. CASE PeerMark
  BY <1>4, PeerMarkKeeps
<1>5. CASE PeerClear
  BY <1>5, PeerClearKeeps
<1>6. CASE PeekOutbound
  BY <1>6, PeekKeeps
<1>7. CASE PopOutbound
  BY <1>7, PopKeeps
<1>8. CASE DropOutboundHead
  BY <1>8, DropHeadKeeps
<1>9. CASE \E n \in Lens : ReadPlayout(n)
  BY <1>9, ReadPlayoutKeeps
<1>10. CASE NoteWriteAfterClear
  BY <1>10, NoteWriteKeeps
<1>11. CASE \E p \in BOOLEAN : SetPaused(p)
  BY <1>11, SetPausedKeeps
<1>12. CASE SessionStop
  BY <1>12, StopKeeps
<1>13. CASE Rehandshake
  BY <1>13, RehandshakeKeeps
<1>14. CASE SessionDestroy
  BY <1>14, DestroyKeeps
<1>15. CASE UNCHANGED sessionVars
  <2>1. UNCHANGED <<state, paused, seq, chunk, timestamp_ms, outbound, drops, failures,
                    written, consumed, pending, markPos, clear_events, clear_armed,
                    clear_latency_samples, wire>>
    BY <1>15 DEF sessionVars, queueVars, playoutVars, clearVars
  <2>2. SessionTypeOK'
    BY <2>1 DEF SessionInv, SessionTypeOK
  <2>3. \A x \in Message : Sound(x) => Sound(x)'
    BY <2>1 DEF Sound
  <2>4. Stream' = Stream
    BY <2>1 DEF Stream
  <2>5. Counting' /\ MarksInOrder' /\ OneSamplePerClear'
    BY <2>1 DEF SessionInv, Counting, MarksInOrder, OneSamplePerClear
  <2> QED BY <2>1, <2>2, <2>3, <2>4, <2>5, QuietStep DEF SessionInv
<1> QED BY <1>1, <1>2, <1>3, <1>4, <1>5, <1>6, <1>7, <1>8, <1>9, <1>10, <1>11, <1>12,
           <1>13, <1>14, <1>15 DEF SessionNext

\* What the invariant says of the stream.
LEMMA SessionPromises ==
  ASSUME SessionInv
  PROVE  /\ StreamOrdered /\ AcksInOrder /\ AckAfterAudio /\ OnlyAcksAfterStop
<1>1. /\ DOMAIN Stream = 1 .. Len(Stream)
      /\ \A i, j \in 1 .. Len(Stream) : i < j => Precedes(Stream[i], Stream[j])
      /\ \A i \in 1 .. Len(Stream) : Sound(Stream[i])
  <2>1. Stream \in Seq(Message)
    BY StreamType DEF SessionInv
  <2> QED BY <2>1, LenProperties DEF SessionInv, InOrder
<1>2. StreamOrdered
  <2>1. \A i, j \in Numbered : i < j => Stream[i].seq < Stream[j].seq
    BY <1>1 DEF Numbered, Precedes
  <2>2. \A i, j \in Event("media") : i < j => Stream[i].chunk < Stream[j].chunk
    BY <1>1 DEF Event, Precedes
  <2>3. \A i \in Event("media") : Stream[i].timestamp = 20 * (Stream[i].chunk - 1)
    BY <1>1 DEF Event, Sound
  <2> QED BY <2>1, <2>2, <2>3 DEF StreamOrdered
<1>3. AcksInOrder
  BY <1>1 DEF AcksInOrder, Event, Precedes
<1>4. AckAfterAudio
  BY <1>1 DEF AckAfterAudio, Event, Sound
<1>5. OnlyAcksAfterStop
  BY <1>1 DEF OnlyAcksAfterStop, Event, Precedes
<1> QED BY <1>2, <1>3, <1>4, <1>5

LEMMA SessionInvariant == SessionSpec => []SessionInv
<1>1. Init => SessionInv
  BY InitSound
<1>2. SessionInv /\ [SessionNext]_sessionVars => SessionInv'
  BY SessionStep
<1> QED BY <1>1, <1>2, PTL DEF SessionSpec

\* The session keeps its types; queue, playout buffer and pending marks stay
\* within their capacities.
THEOREM SessionTypes == SessionSpec => []SessionTypeOK
<1>1. SessionInv => SessionTypeOK
  BY DEF SessionInv
<1> QED BY <1>1, SessionInvariant, PTL

\* However messages are dropped, fail or are announced again, the peer sees
\* growing sequence and chunk numbers, and timestamps that match them.
THEOREM SessionOrder == SessionSpec => []StreamOrdered
<1>1. SessionInv => StreamOrdered
  BY SessionPromises
<1> QED BY <1>1, SessionInvariant, PTL

\* Every missing number is a counted drop or a failed allocation.
THEOREM SessionGaps == SessionSpec => []GapsExplained
<1>1. SessionInv => GapsExplained
  BY DEF SessionInv
<1> QED BY <1>1, SessionInvariant, PTL

\* A mark is acknowledged at most once, in the order of the marks.
THEOREM SessionAcks == SessionSpec => []AcksInOrder
<1>1. SessionInv => AcksInOrder
  BY SessionPromises
<1> QED BY <1>1, SessionInvariant, PTL

\* A mark is acknowledged only when the audio before it was consumed.
THEOREM SessionAckAfterAudio == SessionSpec => []AckAfterAudio
<1>1. SessionInv => AckAfterAudio
  BY SessionPromises
<1> QED BY <1>1, SessionInvariant, PTL

\* Nothing but acknowledgements follows the stop message.
THEOREM SessionStopLast == SessionSpec => []OnlyAcksAfterStop
<1>1. SessionInv => OnlyAcksAfterStop
  BY SessionPromises
<1> QED BY <1>1, SessionInvariant, PTL

\* A clear is measured at most once.
THEOREM SessionSamples == SessionSpec => []OneSamplePerClear
<1>1. SessionInv => OneSamplePerClear
  BY DEF SessionInv
<1> QED BY <1>1, SessionInvariant, PTL
=============================================================================
