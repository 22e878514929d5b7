------------------------ MODULE SequenceParts_proofs ------------------------
(***************************************************************************)
(* What appending, taking off, inserting, removing and selecting do to the   *)
(* elements of a sequence and to their number.                               *)
(***************************************************************************)
EXTENDS SequenceParts, SequencesExt, FiniteSetTheorems, SequenceTheorems, TLAPS

-----------------------------------------------------------------------------
(* Counting the elements of a sequence. *)

\* The positions counted are a finite set.
LEMMA CountType ==
  ASSUME NEW T, NEW s \in Seq(T), NEW S
  PROVE  Count(s, S) \in Nat /\ IsFiniteSet({i \in DOMAIN s : s[i] \in S})
<1>1. DOMAIN s = 1 .. Len(s) /\ Len(s) \in Nat
  OBVIOUS
<1>2. IsFiniteSet(1 .. Len(s))
  BY <1>1, FS_Interval
<1>3. IsFiniteSet({i \in DOMAIN s : s[i] \in S})
  BY <1>1, <1>2, FS_Subset
<1> QED
  BY <1>3, FS_CardinalityType DEF Count

\* What a concatenation holds is what its parts hold.
LEMMA CountConcat ==
  ASSUME NEW T, NEW s \in Seq(T), NEW t \in Seq(T), NEW S
  PROVE  Count(s \o t, S) = Count(s, S) + Count(t, S)
<1> DEFINE A == {i \in DOMAIN s : s[i] \in S}
           B == {i \in DOMAIN t : t[i] \in S}
           C == {i \in DOMAIN (s \o t) : (s \o t)[i] \in S}
           D == {i \in C : i > Len(s)}
           f == [i \in B |-> i + Len(s)]
<1>1. /\ DOMAIN s = 1 .. Len(s) /\ DOMAIN t = 1 .. Len(t)
      /\ DOMAIN (s \o t) = 1 .. Len(s) + Len(t)
      /\ Len(s) \in Nat /\ Len(t) \in Nat
      /\ \A i \in 1 .. Len(s) + Len(t) :
            (s \o t)[i] = IF i <= Len(s) THEN s[i] ELSE t[i - Len(s)]
  BY ConcatProperties
<1>2. C = A \cup D /\ A \cap D = {}
  BY <1>1
<1>3. f \in Bijection(B, D)
  <2>1. \A i \in B : f[i] \in D
    BY <1>1
  <2>2. \A j \in D : j - Len(s) \in B /\ f[j - Len(s)] = j
    BY <1>1
  <2>3. \A i, j \in B : f[i] = f[j] => i = j
    BY <1>1
  <2>4. f \in [B -> D]
    BY <2>1
  <2> HIDE DEF f, B, D
  <2>5. f \in Injection(B, D)
    BY <2>3, <2>4 DEF Injection, IsInjective
  <2>6. f \in Surjection(B, D)
    BY <2>2, <2>4 DEF Surjection
  <2> QED
    BY <2>5, <2>6 DEF Bijection
<1>4. IsFiniteSet(A) /\ IsFiniteSet(B)
  BY CountType
<1>5. IsFiniteSet(D) /\ Cardinality(D) = Cardinality(B)
  BY <1>3, <1>4, FS_Bijection DEF ExistsBijection
<1>6. Cardinality(C) = Cardinality(A) + Cardinality(D) - Cardinality(A \cap D)
  BY <1>2, <1>4, <1>5, FS_Union
<1>7. Cardinality(A \cap D) = 0 /\ Cardinality(A) \in Nat /\ Cardinality(B) \in Nat
  BY <1>2, <1>4, FS_EmptySet, FS_CardinalityType
<1>8. Count(s, S) = Cardinality(A) /\ Count(t, S) = Cardinality(B)
      /\ Count(s \o t, S) = Cardinality(C)
  BY DEF Count
<1> HIDE DEF A, B, C, D
<1> QED
  BY <1>5, <1>6, <1>7, <1>8

\* A sequence of one element, or of none.
LEMMA CountShort ==
  ASSUME NEW S
  PROVE  /\ Count(<<>>, S) = 0
         /\ \A e : Count(<<e>>, S) = One(e \in S)
<1>1. Count(<<>>, S) = 0
  <2>1. {i \in DOMAIN <<>> : <<>>[i] \in S} = {}
    OBVIOUS
  <2> QED
    BY <2>1, FS_EmptySet DEF Count
<1>2. ASSUME NEW e PROVE Count(<<e>>, S) = One(e \in S)
  <2>1. {i \in DOMAIN <<e>> : <<e>>[i] \in S} = IF e \in S THEN {1} ELSE {}
    OBVIOUS
  <2>2. Cardinality({1}) = 1 /\ Cardinality({}) = 0
    BY FS_Singleton, FS_EmptySet
  <2> QED
    BY <2>1, <2>2 DEF Count, One
<1> QED
  BY <1>1, <1>2

\* The characteristic value of a condition is a number.
LEMMA OneType == \A b \in BOOLEAN : One(b) \in Nat
  BY DEF One

\* Both ends of a queue.
LEMMA CountQueue ==
  ASSUME NEW T, NEW s \in Seq(T), NEW S
  PROVE  /\ \A e \in T : Count(Append(s, e), S) = Count(s, S) + One(e \in S)
         /\ s # <<>> => Count(Tail(s), S) = Count(s, S) - One(Head(s) \in S)
<1>1. ASSUME NEW e \in T
      PROVE  Count(Append(s, e), S) = Count(s, S) + One(e \in S)
  <2>1. Append(s, e) = s \o <<e>> /\ <<e>> \in Seq(T)
    BY AppendIsConcat
  <2>2. Count(s \o <<e>>, S) = Count(s, S) + Count(<<e>>, S)
    BY <2>1, CountConcat
  <2> QED
    BY <2>1, <2>2, CountShort
<1>2. ASSUME s # <<>>
      PROVE  Count(Tail(s), S) = Count(s, S) - One(Head(s) \in S)
  <2> DEFINE h == <<Head(s)>>
             t == Tail(s)
  <2>1. h \in Seq(T) /\ t \in Seq(T) /\ s = h \o t
    BY <1>2
  <2>2. Count(h, S) = One(Head(s) \in S)
    BY CountShort
  <2>3. One(Head(s) \in S) \in Nat
    BY DEF One
  <2> HIDE DEF h, t
  <2>4. Count(h \o t, S) = Count(h, S) + Count(t, S)
    BY <2>1, CountConcat
  <2>5. Count(t, S) \in Nat
    BY <2>1, CountType
  <2>6. Count(s, S) = One(Head(s) \in S) + Count(t, S)
    BY <2>1, <2>2, <2>4
  <2>7. Count(t, S) = Count(s, S) - One(Head(s) \in S)
    BY <2>3, <2>5, <2>6
  <2> QED
    BY <2>7 DEF t
<1> QED
  BY <1>1, <1>2

\* A sequence cut behind its n-th element.
LEMMA CutSeq ==
  ASSUME NEW T, NEW s \in Seq(T), NEW n \in 0 .. Len(s)
  PROVE  /\ SubSeq(s, 1, n) \in Seq(T) /\ SubSeq(s, n + 1, Len(s)) \in Seq(T)
         /\ s = SubSeq(s, 1, n) \o SubSeq(s, n + 1, Len(s))
<1>1. SubSeq(s, 1, n) \in Seq(T) /\ SubSeq(s, n + 1, Len(s)) \in Seq(T)
  OBVIOUS
<1>2. s = SubSeq(s, 1, n) \o SubSeq(s, n + 1, Len(s))
  BY ConcatAdjacentSubSeq, SubSeqFull, 1 \in 1 .. Len(s) + 1, n \in 1 - 1 .. Len(s), Len(s) \in n .. Len(s)
<1> QED
  BY <1>1, <1>2

\* The middle of a queue.
LEMMA CountInside ==
  ASSUME NEW T, NEW s \in Seq(T), NEW S
  PROVE  /\ \A e \in T, n \in 0 .. Len(s) :
              Count(InsertAt(s, n + 1, e), S) = Count(s, S) + One(e \in S)
         /\ \A i \in 1 .. Len(s) :
              Count(RemoveAt(s, i), S) = Count(s, S) - One(s[i] \in S)
<1>1. ASSUME NEW e \in T, NEW n \in 0 .. Len(s)
      PROVE  Count(InsertAt(s, n + 1, e), S) = Count(s, S) + One(e \in S)
  <2> DEFINE a == SubSeq(s, 1, n)
             b == SubSeq(s, n + 1, Len(s))
             h == <<e>>
  <2>1. a \in Seq(T) /\ b \in Seq(T) /\ s = a \o b
    BY CutSeq
  <2>2. PICK m \in Nat : m = n + 1
    OBVIOUS
  <2>3. m - 1 = n
    BY <2>2
  <2>4. InsertAt(s, m, e) = a \o h \o b
    BY <2>2, <2>3, Zenon DEF InsertAt
  <2>5. h \in Seq(T)
    OBVIOUS
  <2>6. Count(h, S) = One(e \in S)
    BY CountShort
  <2> HIDE DEF a, b, h
  <2>x. a \o h \in Seq(T)
    BY <2>1, <2>5
  <2>7. Count(a \o h \o b, S) = Count(a \o h, S) + Count(b, S)
    BY <2>1, <2>5, <2>x, CountConcat
  <2>8. Count(a \o h, S) = Count(a, S) + Count(h, S)
    BY <2>1, <2>5, <2>x, CountConcat
  <2>9. Count(s, S) = Count(a, S) + Count(b, S)
    BY <2>1, CountConcat
  <2>10. Count(a, S) \in Nat /\ Count(b, S) \in Nat /\ Count(h, S) \in Nat
    BY <2>1, <2>5, CountType
  <2>11. Count(a \o h \o b, S) = Count(s, S) + Count(h, S)
    BY <2>7, <2>8, <2>9, <2>10
  <2> QED
    BY <2>2, <2>4, <2>6, <2>11
<1>2. ASSUME NEW i \in 1 .. Len(s)
      PROVE  Count(RemoveAt(s, i), S) = Count(s, S) - One(s[i] \in S)
  <2> DEFINE a == SubSeq(s, 1, i - 1)
             b == SubSeq(s, i, Len(s))
             c == SubSeq(s, i + 1, Len(s))
             h == <<s[i]>>
  <2>1. i - 1 \in 0 .. Len(s) /\ i \in 0 .. Len(s) /\ i - 1 + 1 = i
    OBVIOUS
  <2>2. a \in Seq(T) /\ SubSeq(s, i - 1 + 1, Len(s)) \in Seq(T)
        /\ s = a \o SubSeq(s, i - 1 + 1, Len(s))
    BY <2>1, CutSeq
  <2>3. b \in Seq(T) /\ s = a \o b
    BY <2>1, <2>2, Zenon
  <2>4. c \in Seq(T)
    BY <2>1, CutSeq
  <2>5. b = h \o c /\ h \in Seq(T)
    BY SubSeqRecursiveFirst, Len(s) \in i .. Len(s)
  <2>6. RemoveAt(s, i) = a \o c
    BY DEF RemoveAt
  <2>7. Count(h, S) = One(s[i] \in S)
    BY CountShort
  <2> HIDE DEF a, b, c, h
  <2>8. Count(s, S) = Count(a, S) + Count(b, S)
    BY <2>2, <2>3, CountConcat
  <2>9. Count(b, S) = Count(h, S) + Count(c, S)
    BY <2>4, <2>5, CountConcat
  <2>10. Count(a \o c, S) = Count(a, S) + Count(c, S)
    BY <2>2, <2>4, CountConcat
  <2>11. Count(a, S) \in Nat /\ Count(c, S) \in Nat /\ Count(h, S) \in Nat
    BY <2>2, <2>4, <2>5, CountType
  <2>12. Count(a \o c, S) = Count(s, S) - Count(h, S)
    BY <2>8, <2>9, <2>10, <2>11
  <2> QED
    BY <2>6, <2>7, <2>12
<1> QED
  BY <1>1, <1>2

-----------------------------------------------------------------------------
(* The elements of a sequence that Kept leaves. *)

\* f picks the elements of r, from left to right, among those of s, and all that are in S.
Selects(f, s, S, r) ==
    /\ f \in [1 .. Len(r) -> DOMAIN s]
    /\ \A k \in 1 .. Len(r) : r[k] = s[f[k]] /\ r[k] \in S
    /\ \A j, k \in 1 .. Len(r) : j < k => f[j] < f[k]
    /\ \A i \in DOMAIN s : s[i] \in S => \E k \in 1 .. Len(r) : f[k] = i

\* Kept is such a choice: the rank of a position among those that are kept is a
\* one-to-one map, and so one onto 1 .. Cardinality.
LEMMA KeptPositions ==
  ASSUME NEW T, NEW s \in Seq(T), NEW S
  PROVE  Kept(s, S) \in Seq(T) /\ \E f : Selects(f, s, S, Kept(s, S))
<1> DEFINE at == {i \in DOMAIN s : s[i] \in S}
           n == Cardinality(at)
           below(i) == {j \in at : j <= i}
           rank == [i \in at |-> Cardinality(below(i))]
           f == [k \in 1 .. n |-> CHOOSE i \in at : Cardinality(below(i)) = k]
<1>1. at \subseteq 1 .. Len(s) /\ at \subseteq Nat
  OBVIOUS
<1>2. IsFiniteSet(at) /\ n \in Nat
  <2>1. IsFiniteSet(1 .. Len(s))
    BY FS_Interval
  <2> QED
    BY <1>1, <2>1, FS_Subset, FS_CardinalityType
<1>3. ASSUME NEW i \in at
      PROVE  IsFiniteSet(below(i)) /\ Cardinality(below(i)) \in 1 .. n
  <2>1. below(i) \subseteq at /\ i \in below(i) /\ below(i) # {}
    BY <1>1
  <2>2. IsFiniteSet(below(i)) /\ Cardinality(below(i)) <= n
    BY <1>2, <2>1, FS_Subset
  <2>3. Cardinality(below(i)) \in Nat /\ Cardinality(below(i)) # 0
    BY <2>1, <2>2, FS_CardinalityType, FS_EmptySet
  <2> QED
    BY <1>2, <2>2, <2>3
<1>4. ASSUME NEW i \in at, NEW k \in at, i < k
      PROVE  Cardinality(below(i)) < Cardinality(below(k))
  <2>1. below(i) \subseteq below(k) /\ k \in below(k) /\ k \notin below(i)
    BY <1>1, <1>4
  <2>2. below(i) # below(k)
    BY <2>1
  <2>3. /\ Cardinality(below(i)) <= Cardinality(below(k))
        /\ Cardinality(below(i)) # Cardinality(below(k))
    BY <1>3, <2>1, <2>2, FS_Subset
  <2>4. Cardinality(below(i)) \in 1 .. n /\ Cardinality(below(k)) \in 1 .. n
    BY <1>3
  <2> QED
    BY <1>2, <2>3, <2>4
<1>5. rank \in Surjection(at, 1 .. n)
  <2>1. rank \in [at -> 1 .. n]
    BY <1>3
  <2>2. ASSUME NEW i \in at, NEW k \in at, rank[i] = rank[k] PROVE i = k
    <3>1. rank[i] = Cardinality(below(i)) /\ rank[k] = Cardinality(below(k))
      OBVIOUS
    <3>2. Cardinality(below(i)) = Cardinality(below(k))
      BY <2>2, <3>1
    <3>3. Cardinality(below(i)) \in 1 .. n
      BY <1>3
    <3>4. ~(i < k) /\ ~(k < i)
      <4> HIDE DEF below
      <4> QED
        BY <1>2, <1>4, <3>2, <3>3
    <3> QED
      BY <1>1, <3>4
  <2>3. rank \in Injection(at, 1 .. n)
    BY <2>1, <2>2 DEF Injection, IsInjective
  <2>4. IsFiniteSet(1 .. n) /\ Cardinality(1 .. n) = n
    BY <1>2, FS_Interval
  <2> QED
    BY <2>3, <2>4, FS_Injection
<1>6. ASSUME NEW k \in 1 .. n
      PROVE  f[k] \in at /\ Cardinality(below(f[k])) = k
  <2>1. \E i \in at : Cardinality(below(i)) = k
    BY <1>5 DEF Surjection
  <2>2. f[k] = CHOOSE i \in at : Cardinality(below(i)) = k
    OBVIOUS
  <2> HIDE DEF f, below
  <2> QED
    BY <2>1, <2>2, Zenon
<1>7. Kept(s, S) = [k \in 1 .. n |-> s[f[k]]]
  BY DEF Kept
<1>8. \A j, k \in 1 .. n : j < k => f[j] < f[k]
  <2> SUFFICES ASSUME NEW j \in 1 .. n, NEW k \in 1 .. n, j < k
               PROVE  f[j] < f[k]
    OBVIOUS
  <2>1. f[j] \in at /\ f[k] \in at
    BY <1>6
  <2>2. Cardinality(below(f[j])) = j /\ Cardinality(below(f[k])) = k
    BY <1>6
  <2>3. ~(f[k] < f[j]) /\ f[j] # f[k]
    <3> HIDE DEF f, below
    <3> QED
      BY <1>4, <2>1, <2>2, <1>2
  <2> HIDE DEF f, below
  <2> QED
    BY <1>1, <2>1, <2>3
<1>9. \A i \in DOMAIN s : s[i] \in S => \E k \in 1 .. n : f[k] = i
  <2> SUFFICES ASSUME NEW i \in at
               PROVE  \E k \in 1 .. n : f[k] = i
    OBVIOUS
  <2>1. PICK k \in 1 .. n : k = Cardinality(below(i))
    BY <1>3
  <2>2. f[k] \in at /\ Cardinality(below(f[k])) = k
    BY <1>6
  <2>3. ~(f[k] < i) /\ ~(i < f[k])
    <3> HIDE DEF f, below
    <3> QED
      BY <1>4, <2>1, <2>2, <1>2
  <2>4. f[k] = i
    <3> HIDE DEF f, below
    <3> QED
      BY <1>1, <2>2, <2>3
  <2> QED
    BY <2>4
<1>10. f \in [1 .. n -> DOMAIN s] /\ \A k \in 1 .. n : s[f[k]] \in S
  BY <1>6
<1> HIDE DEF f, n, at
<1>11. Kept(s, S) \in Seq(T) /\ Len(Kept(s, S)) = n
  BY <1>2, <1>7, <1>10
<1>12. Selects(f, s, S, Kept(s, S))
  BY <1>7, <1>8, <1>9, <1>10, <1>11 DEF Selects
<1> QED
  BY <1>11, <1>12

\* ... so it has no more elements, no new ones, and none twice that s does not.
LEMMA KeptElements ==
  ASSUME NEW T, NEW s \in Seq(T), NEW S
  PROVE  /\ Kept(s, S) \in Seq(T) /\ Len(Kept(s, S)) <= Len(s)
         /\ Range(Kept(s, S)) = Range(s) \cap S
         /\ IsInjective(s) => IsInjective(Kept(s, S))
<1>1. PICK r \in Seq(T) : r = Kept(s, S)
  BY KeptPositions
<1>2. PICK f : Selects(f, s, S, r)
  BY <1>1, KeptPositions
<1>3. PICK n \in Nat : n = Len(r) /\ DOMAIN r = 1 .. n
  BY <1>1
<1>4. PICK m \in Nat : m = Len(s) /\ DOMAIN s = 1 .. m
  OBVIOUS
<1>5. /\ f \in [1 .. n -> 1 .. m]
      /\ \A k \in 1 .. n : r[k] = s[f[k]] /\ r[k] \in S
      /\ \A j, k \in 1 .. n : j < k => f[j] < f[k]
      /\ \A i \in 1 .. m : s[i] \in S => \E k \in 1 .. n : f[k] = i
  BY <1>2, <1>3, <1>4, Zenon DEF Selects
<1>6. \A j, k \in 1 .. n : f[j] = f[k] => j = k
  BY <1>5
<1>7. n <= m
  <2>1. f \in Injection(1 .. n, 1 .. m)
    BY <1>5, <1>6 DEF Injection, IsInjective
  <2>2. IsFiniteSet(1 .. m) /\ Cardinality(1 .. m) = m /\ Cardinality(1 .. n) = n
    BY FS_Interval
  <2> QED
    BY <2>1, <2>2, FS_Injection
<1>8. Range(r) = Range(s) \cap S
  <2>1. ASSUME NEW x \in Range(r) PROVE x \in Range(s) \cap S
    BY <1>4, <1>3, <1>5 DEF Range
  <2>2. ASSUME NEW x \in Range(s), x \in S PROVE x \in Range(r)
    <3>1. PICK i \in 1 .. m : s[i] = x
      BY <1>4 DEF Range
    <3>2. PICK k \in 1 .. n : f[k] = i
      BY <1>5, <2>2, <3>1
    <3>3. r[k] = x
      BY <1>5, <3>1, <3>2
    <3> QED
      BY <1>3, <3>3 DEF Range
  <2> QED
    BY <2>1, <2>2
<1>9. IsInjective(s) => IsInjective(r)
  <2> SUFFICES ASSUME IsInjective(s), NEW j \in 1 .. n, NEW k \in 1 .. n, r[j] = r[k]
               PROVE  j = k
    BY <1>3 DEF IsInjective
  <2>1. s[f[j]] = s[f[k]] /\ f[j] \in 1 .. m /\ f[k] \in 1 .. m
    BY <1>5
  <2>2. f[j] = f[k]
    BY <1>4, <2>1 DEF IsInjective
  <2> QED
    BY <1>6, <2>2
<1> QED
  BY <1>1, <1>3, <1>4, <1>7, <1>8, <1>9

\* An element put in front of a sequence joins its elements.
LEMMA RangeConcat ==
  ASSUME NEW T, NEW s \in Seq(T), NEW e
  PROVE  Range(<<e>> \o s) = Range(s) \cup {e}
<1>1. PICK n \in Nat : n = Len(s) /\ DOMAIN s = 1 .. n
  OBVIOUS
<1>2. PICK r : r = <<e>> \o s
  OBVIOUS
<1>3. DOMAIN r = 1 .. n + 1 /\ r[1] = e /\ \A i \in 1 .. n : r[i + 1] = s[i]
  BY <1>1, <1>2
<1>4. ASSUME NEW x \in Range(r) PROVE x \in Range(s) \cup {e}
  <2>1. PICK i \in 1 .. n + 1 : x = r[i]
    BY <1>3 DEF Range
  <2>2. CASE i = 1
    BY <1>3, <2>1, <2>2
  <2>3. CASE i # 1
    <3>1. i - 1 \in 1 .. n /\ i = (i - 1) + 1
      BY <2>3
    <3>2. r[i] = s[i - 1]
      BY <1>3, <3>1
    <3> QED
      BY <1>1, <2>1, <3>1, <3>2 DEF Range
  <2> QED
    BY <2>2, <2>3
<1>5. e \in Range(r)
  BY <1>3 DEF Range
<1>6. ASSUME NEW i \in 1 .. n PROVE s[i] \in Range(r)
  <2>1. i + 1 \in 1 .. n + 1 /\ r[i + 1] = s[i]
    BY <1>3
  <2> QED
    BY <1>3, <2>1 DEF Range
<1>7. Range(s) \subseteq Range(r)
  BY <1>1, <1>6 DEF Range
<1> QED
  BY <1>2, <1>4, <1>5, <1>7

\* The elements of two sequences one after the other.
LEMMA ConcatElements ==
  ASSUME NEW T, NEW s \in Seq(T), NEW t \in Seq(T)
  PROVE  /\ s \o t \in Seq(T) /\ ToSet(s \o t) = ToSet(s) \cup ToSet(t)
         /\ IsInjective(s) /\ IsInjective(t) /\ ToSet(s) \cap ToSet(t) = {}
              => IsInjective(s \o t)
<1>1. PICK n \in Nat : n = Len(s) /\ DOMAIN s = 1 .. n
  OBVIOUS
<1>2. PICK m \in Nat : m = Len(t) /\ DOMAIN t = 1 .. m
  OBVIOUS
<1>3. PICK r \in Seq(T) : r = s \o t
  BY ConcatProperties
<1>4. /\ DOMAIN r = 1 .. n + m
      /\ \A i \in 1 .. n : r[i] = s[i]
      /\ \A i \in 1 .. m : r[n + i] = t[i]
  BY <1>1, <1>2, <1>3
<1>5. ASSUME NEW i \in DOMAIN r
      PROVE  \/ i \in 1 .. n /\ r[i] = s[i]
             \/ i - n \in 1 .. m /\ r[i] = t[i - n] /\ i \notin 1 .. n
  BY <1>4
<1>6. ToSet(r) \subseteq ToSet(s) \cup ToSet(t)
  BY <1>1, <1>2, <1>5 DEF ToSet
<1>7. ToSet(s) \subseteq ToSet(r)
  BY <1>1, <1>4 DEF ToSet
<1>8. ToSet(t) \subseteq ToSet(r)
  <2>1. ASSUME NEW i \in 1 .. m PROVE n + i \in 1 .. n + m /\ t[i] = r[n + i]
    BY <1>4
  <2> QED
    BY <1>2, <1>4, <2>1 DEF ToSet
<1>9. ASSUME IsInjective(s), IsInjective(t), ToSet(s) \cap ToSet(t) = {} PROVE IsInjective(r)
  <2> SUFFICES ASSUME NEW i \in DOMAIN r, NEW j \in DOMAIN r, r[i] = r[j] PROVE i = j
    BY DEF IsInjective
  <2>1. CASE i \in 1 .. n /\ j \in 1 .. n
    BY <1>1, <1>4, <1>9, <2>1 DEF IsInjective
  <2>2. CASE i \notin 1 .. n /\ j \notin 1 .. n
    <3>1. i - n \in DOMAIN t /\ j - n \in DOMAIN t /\ t[i - n] = t[j - n]
      BY <1>2, <1>5, <2>2
    <3>2. i - n = j - n
      BY <1>9, <3>1 DEF IsInjective
    <3> QED
      BY <1>4, <3>2
  <2>3. ASSUME NEW k \in DOMAIN r, NEW l \in DOMAIN r, r[k] = r[l], k \in 1 .. n, l \notin 1 .. n
        PROVE  FALSE
    <3>1. r[k] \in ToSet(s) /\ r[l] \in ToSet(t)
      BY <1>1, <1>2, <1>4, <1>5, <2>3 DEF ToSet
    <3> QED
      BY <1>9, <2>3, <3>1
  <2> QED
    BY <2>1, <2>2, <2>3
<1> QED
  BY <1>3, <1>6, <1>7, <1>8, <1>9

\* A sequence from its end to its start.
LEMMA ReverseElements ==
  ASSUME NEW T, NEW s \in Seq(T)
  PROVE  /\ Reverse(s) \in Seq(T) /\ ToSet(Reverse(s)) = ToSet(s)
         /\ IsInjective(s) => IsInjective(Reverse(s))
<1>1. PICK n \in Nat : n = Len(s) /\ DOMAIN s = 1 .. n
  OBVIOUS
<1>2. PICK r : r = [i \in 1 .. n |-> s[(n - i) + 1]]
  OBVIOUS
<1>3. Reverse(s) = r
  BY <1>1, <1>2 DEF Reverse
<1>4. \A i \in 1 .. n : (n - i) + 1 \in 1 .. n /\ (n - ((n - i) + 1)) + 1 = i
  OBVIOUS
<1>5. \A i \in 1 .. n : s[(n - i) + 1] \in T
  BY <1>1, <1>4
<1>6. r \in Seq(T) /\ DOMAIN r = 1 .. n
  BY <1>2, <1>5
<1>7. ToSet(r) \subseteq ToSet(s)
  BY <1>1, <1>2, <1>4, <1>6 DEF ToSet
<1>8. ASSUME NEW i \in 1 .. n PROVE s[i] = r[(n - i) + 1] /\ (n - i) + 1 \in 1 .. n
  BY <1>2, <1>4
<1>9. ToSet(s) \subseteq ToSet(r)
  BY <1>1, <1>6, <1>8 DEF ToSet
<1>10. ASSUME IsInjective(s), NEW i \in 1 .. n, NEW j \in 1 .. n, r[i] = r[j] PROVE i = j
  <2>1. s[(n - i) + 1] = s[(n - j) + 1]
    BY <1>2, <1>10
  <2>2. (n - i) + 1 = (n - j) + 1
    BY <1>1, <1>4, <1>10, <2>1 DEF IsInjective
  <2> QED
    BY <2>2
<1> QED
  BY <1>3, <1>6, <1>7, <1>9, <1>10 DEF IsInjective

\* What occurs once in s occurs once in what is kept of it.
LEMMA KeptOnce ==
  ASSUME NEW T, NEW s \in Seq(T), NEW S, NEW U,
         \A i, j \in DOMAIN s : s[i] = s[j] /\ s[i] \in U => i = j
  PROVE  /\ \A i, j \in DOMAIN Kept(s, S) :
              Kept(s, S)[i] = Kept(s, S)[j] /\ Kept(s, S)[i] \in U => i = j
         /\ IsInjective(Kept(s, U))
<1>1. ASSUME NEW V, NEW i \in DOMAIN Kept(s, V), NEW j \in DOMAIN Kept(s, V),
             Kept(s, V)[i] = Kept(s, V)[j], Kept(s, V)[i] \in U
      PROVE  i = j
  <2>1. PICK r \in Seq(T) : r = Kept(s, V)
    BY KeptPositions
  <2>2. PICK f : Selects(f, s, V, r)
    BY <2>1, KeptPositions
  <2>3. PICK n \in Nat : n = Len(r) /\ DOMAIN r = 1 .. n
    BY <2>1
  <2>4. i \in 1 .. n /\ j \in 1 .. n
    BY <1>1, <2>1, <2>3
  <2>5. f[i] \in DOMAIN s /\ f[j] \in DOMAIN s /\ r[i] = s[f[i]] /\ r[j] = s[f[j]]
    BY <2>2, <2>3, <2>4 DEF Selects
  <2>6. f[i] = f[j]
    BY <1>1, <2>1, <2>5
  <2>7. f[i] \in Int /\ f[j] \in Int
    BY <2>5
  <2>8. ~(i < j) /\ ~(j < i)
    BY <2>2, <2>3, <2>4, <2>6, <2>7 DEF Selects
  <2> QED
    BY <2>4, <2>8
<1>2. \A i \in DOMAIN Kept(s, U) : Kept(s, U)[i] \in U
  <2>1. PICK r \in Seq(T) : r = Kept(s, U)
    BY KeptPositions
  <2>2. PICK f : Selects(f, s, U, r)
    BY <2>1, KeptPositions
  <2> QED
    BY <2>1, <2>2 DEF Selects
<1> QED
  BY <1>1, <1>2 DEF IsInjective

\* What is kept of s has of each kind what s has of it.
LEMMA KeptCount ==
  ASSUME NEW T, NEW s \in Seq(T), NEW S, NEW X
  PROVE  Count(Kept(s, S), X) = Count(s, X \cap S)
<1>1. PICK r \in Seq(T) : r = Kept(s, S)
  BY KeptPositions
<1>2. PICK f : Selects(f, s, S, r)
  BY <1>1, KeptPositions
<1>3. PICK A : A = {k \in DOMAIN r : r[k] \in X}
  OBVIOUS
<1>4. PICK B : B = {i \in DOMAIN s : s[i] \in X \cap S}
  OBVIOUS
<1>5. PICK n \in Nat : n = Len(r) /\ DOMAIN r = 1 .. n
  BY LenProperties
<1>6. PICK g : g = [k \in A |-> f[k]]
  OBVIOUS
<1>7. g \in Bijection(A, B)
  <2>1. \A k \in A : g[k] = f[k] /\ f[k] \in DOMAIN s /\ r[k] = s[f[k]] /\ r[k] \in S /\ r[k] \in X
    BY <1>2, <1>3, <1>5, <1>6 DEF Selects
  <2>2. \A k \in A : g[k] \in B
    BY <1>4, <2>1
  <2>3. g \in [A -> B]
    BY <1>6, <2>2
  <2>4. \A j, k \in A : g[j] = g[k] => j = k
    <3>1. A \subseteq 1 .. n
      BY <1>3, <1>5
    <3>2. \A j, k \in A : j < k => f[j] < f[k] /\ f[j] \in Int /\ f[k] \in Int
      BY <1>2, <1>5, <2>1, <3>1, LenProperties DEF Selects
    <3>3. \A j, k \in A : j = k \/ j < k \/ k < j
      BY <3>1
    <3> QED
      BY <2>1, <3>1, <3>2, <3>3
  <2>5. \A i \in B : \E k \in A : g[k] = i
    <3> SUFFICES ASSUME NEW i \in B PROVE \E k \in A : g[k] = i
      OBVIOUS
    <3>1. i \in DOMAIN s /\ s[i] \in X /\ s[i] \in S
      BY <1>4
    <3>2. PICK k \in 1 .. n : f[k] = i
      BY <1>2, <1>5, <3>1 DEF Selects
    <3>3. r[k] = s[i]
      BY <1>2, <1>5, <3>2 DEF Selects
    <3>4. k \in A
      BY <1>3, <1>5, <3>1, <3>3
    <3> QED
      BY <2>1, <3>2, <3>4
  <2>6. g \in Injection(A, B)
    BY <2>3, <2>4 DEF Injection, IsInjective
  <2>7. g \in Surjection(A, B)
    BY <2>3, <2>5 DEF Surjection
  <2> QED
    BY <2>6, <2>7 DEF Bijection
<1>8. IsFiniteSet(A)
  BY <1>1, <1>3, CountType
<1>9. Cardinality(A) = Cardinality(B)
  BY <1>7, <1>8, FS_Bijection DEF ExistsBijection
<1> QED
  BY <1>1, <1>3, <1>4, <1>9 DEF Count

\* Reversing a sequence changes no count.
LEMMA ReverseCount ==
  ASSUME NEW T, NEW s \in Seq(T), NEW S
  PROVE  Len(Reverse(s)) = Len(s) /\ Count(Reverse(s), S) = Count(s, S)
<1>1. PICK n \in Nat : n = Len(s) /\ DOMAIN s = 1 .. n
  BY LenProperties
<1>2. PICK e : e = Reverse(s)
  OBVIOUS
<1>3. e \in Seq(T) /\ Len(e) = n /\ DOMAIN e = 1 .. n /\ \A j \in 1 .. n : e[j] = s[(n - j) + 1]
  <2>1. e \in Seq(T)
    BY <1>2, ReverseElements
  <2> QED
    BY <1>1, <1>2, <2>1 DEF Reverse
<1>4. PICK A, B : A = {j \in 1 .. n : e[j] \in S} /\ B = {j \in 1 .. n : s[j] \in S}
  OBVIOUS
<1>5. PICK g : g = [j \in B |-> (n - j) + 1]
  OBVIOUS
<1>6. g \in Bijection(B, A)
  <2>1. \A j \in 1 .. n : (n - j) + 1 \in 1 .. n /\ (n - ((n - j) + 1)) + 1 = j
    BY <1>1
  <2>2. \A j \in B : g[j] = (n - j) + 1 /\ g[j] \in A
    BY <1>3, <1>4, <1>5, <2>1
  <2>3. \A j \in A : (n - j) + 1 \in B /\ g[(n - j) + 1] = j
    BY <1>3, <1>4, <1>5, <2>1
  <2>4. g \in [B -> A]
    BY <1>5, <2>2
  <2>5. \A j, k \in B : g[j] = g[k] => j = k
    <3> TAKE j \in B, k \in B
    <3>1. g[j] = (n - j) + 1 /\ g[k] = (n - k) + 1 /\ j \in Int /\ k \in Int
      BY <1>4, <2>2
    <3> QED
      BY <3>1
  <2>6. g \in Injection(B, A)
    BY <2>4, <2>5 DEF Injection, IsInjective
  <2>7. g \in Surjection(B, A)
    BY <2>3, <2>4 DEF Surjection
  <2> QED
    BY <2>6, <2>7 DEF Bijection
<1>7. IsFiniteSet(B)
  BY <1>1, <1>4, CountType
<1>8. Cardinality(A) = Cardinality(B)
  BY <1>6, <1>7, FS_Bijection DEF ExistsBijection
<1> QED
  BY <1>1, <1>2, <1>3, <1>4, <1>8 DEF Count
=============================================================================
