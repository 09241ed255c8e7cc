--------------------------- MODULE SequenceLemmas ---------------------------
(***************************************************************************)
(* Facts about the operators on sequences that the models take from        *)
(* SequencesExt: FlattenSeq, RemoveAt, ToSet and SetToSeqs, and about      *)
(* relations between any two elements of a sequence.  FlattenSeq is a      *)
(* recursive function, so that what it returns is shown by induction on    *)
(* the length, from the well-foundedness of the naturals; that a finite    *)
(* set of naturals has an ascending order, by induction on its bound.      *)
(***************************************************************************)
EXTENDS Integers, Sequences, FiniteSets, SequencesExt, TLAPS, FiniteSetTheorems,
        SequenceTheorems

-----------------------------------------------------------------------------
(* Concatenation: two facts of the library in the form a step cites that   *)
(* has nothing else to do with sequences.                                  *)
Associates(S) == \A s, t, u \in Seq(S) : (s \o t) \o u = s \o (t \o u)

Concatenates(S) ==
    \A s, t \in Seq(S) :
        /\ s \o t \in Seq(S)
        /\ Len(s \o t) = Len(s) + Len(t)
        /\ \A i \in 1..Len(s) + Len(t) :
               (s \o t)[i] = IF i <= Len(s) THEN s[i] ELSE t[i - Len(s)]

LEMMA ConcatAssociates == ASSUME NEW S PROVE Associates(S)
BY ConcatAssociative DEF Associates

LEMMA ConcatConcatenates == ASSUME NEW S PROVE Concatenates(S)
BY ConcatProperties DEF Concatenates

-----------------------------------------------------------------------------
(* The naturals. *)

(* A nonempty set of naturals has a least element, which Min selects. *)
LEMMA MinOfNaturals ==
    ASSUME NEW S \in SUBSET Nat, S # {}
    PROVE  Min(S) \in S /\ \A y \in S : Min(S) <= y
<1>1. PICK x \in S : \A y \in S : ~(<<y, x>> \in OpToRel(<, Nat))
    BY WFMin, NatLessThanWellFounded, Zenon
<1>2. \A y \in S : x <= y
  <2> SUFFICES ASSUME NEW y \in S PROVE x <= y
    OBVIOUS
  <2>1. <<y, x>> \in Nat \X Nat
    OBVIOUS
  <2>2. ~(y < x)
    BY <1>1, <2>1 DEF OpToRel
  <2> QED BY <2>2
<1> QED BY <1>2 DEF Min

(* Induction, about a set: it holds every natural if it holds 0 and the    *)
(* successor of each of its elements.                                      *)
LEMMA InductionOnNaturals ==
    ASSUME NEW G, 0 \in G, \A n \in Nat : n \in G => n + 1 \in G
    PROVE  \A n \in Nat : n \in G
<1> SUFFICES ASSUME Nat \ G # {} PROVE FALSE
    OBVIOUS
<1> DEFINE m == Min(Nat \ G)
<1>1. m \in Nat \ G /\ \A y \in Nat \ G : m <= y
    BY MinOfNaturals
<1> HIDE DEF m
<1>2. m # 0 /\ m - 1 \in Nat
    BY <1>1
<1>3. m - 1 \in G
    BY <1>1, <1>2
<1>4. (m - 1) + 1 \in G
    BY <1>2, <1>3
<1> QED BY <1>1, <1>4

-----------------------------------------------------------------------------
(* FlattenSeq. *)

(* f holds the concatenations of the first i sequences of s, for i up to n. *)
PartialSums(s, f, n) ==
    \A i \in 1..n : f[i] = IF i = 1 THEN s[i] ELSE f[i - 1] \o s[i]

LEMMA PartialSumsExist ==
    ASSUME NEW S, NEW s \in Seq(Seq(S)), NEW n \in 0..Len(s)
    PROVE  \E f \in [1..n -> Seq(S)] : PartialSums(s, f, n)
<1>0. Len(s) \in Nat /\ \A i \in 1..Len(s) : s[i] \in Seq(S)
    BY LenProperties, ElementOfSeq
<1> DEFINE Good(k) == \E f \in [1..k -> Seq(S)] : PartialSums(s, f, k)
           G == {k \in Nat : k <= Len(s) => Good(k)}
<1>1. 0 \in G
  <2>1. [i \in 1..0 |-> <<>>] \in [1..0 -> Seq(S)]
    OBVIOUS
  <2>2. PartialSums(s, [i \in 1..0 |-> <<>>], 0)
    BY DEF PartialSums
  <2> QED BY <2>1, <2>2
<1>2. ASSUME NEW k \in Nat, k \in G PROVE k + 1 \in G
  <2> SUFFICES ASSUME k + 1 <= Len(s) PROVE Good(k + 1)
    OBVIOUS
  <2>1. PICK f \in [1..k -> Seq(S)] : PartialSums(s, f, k)
    BY <1>0, <1>2
  <2>2. s[k + 1] \in Seq(S)
    BY <1>0
  <2> DEFINE last == IF k = 0 THEN s[k + 1] ELSE f[k] \o s[k + 1]
             g == [i \in 1..k + 1 |-> IF i <= k THEN f[i] ELSE last]
  <2>3. last \in Seq(S)
    <3>1. CASE k = 0
      BY <2>2, <3>1
    <3>2. CASE k # 0
      BY <2>2, <3>2, ConcatProperties
    <3> QED BY <3>1, <3>2
  <2> HIDE DEF last
  <2>4. g \in [1..k + 1 -> Seq(S)]
    BY <2>3
  <2>5. PartialSums(s, g, k + 1)
    <3> SUFFICES ASSUME NEW i \in 1..k + 1
                 PROVE  g[i] = IF i = 1 THEN s[i] ELSE g[i - 1] \o s[i]
      BY DEF PartialSums
    <3>1. CASE i <= k
      <4>1. g[i] = f[i] /\ (i # 1 => g[i - 1] = f[i - 1])
        BY <3>1
      <4>2. f[i] = IF i = 1 THEN s[i] ELSE f[i - 1] \o s[i]
        <5>1. i \in 1..k
          BY <3>1
        <5> QED BY <2>1, <5>1, Zenon DEF PartialSums
      <4> HIDE DEF g
      <4> QED BY <4>1, <4>2
    <3>2. CASE i = k + 1
      <4>1. g[i] = last /\ (i # 1 => g[i - 1] = f[k])
        BY <3>2
      <4> QED BY <3>2, <4>1 DEF last
    <3> QED BY <3>1, <3>2
  <2> QED BY <2>4, <2>5
<1>3. \A k \in Nat : k \in G
  <2> HIDE DEF G
  <2> QED BY <1>1, <1>2, InductionOnNaturals
<1> QED BY <1>0, <1>3

(* There is only one such function. *)
LEMMA PartialSumsUnique ==
    ASSUME NEW s, NEW n \in Nat, NEW f, NEW g, PartialSums(s, f, n), PartialSums(s, g, n)
    PROVE  \A i \in 1..n : f[i] = g[i]
<1> DEFINE G == {k \in Nat : k \in 1..n => f[k] = g[k]}
<1>1. 0 \in G
    OBVIOUS
<1>2. ASSUME NEW k \in Nat, k \in G PROVE k + 1 \in G
  <2> SUFFICES ASSUME k + 1 \in 1..n PROVE f[k + 1] = g[k + 1]
    OBVIOUS
  <2>1. CASE k = 0
    BY <2>1 DEF PartialSums
  <2>2. CASE k # 0
    <3>1. f[k] = g[k] /\ (k + 1) - 1 = k /\ k + 1 # 1
      BY <1>2, <2>2
    <3> QED BY <3>1 DEF PartialSums
  <2> QED BY <2>1, <2>2
<1>3. \A k \in Nat : k \in G
  <2> HIDE DEF G
  <2> QED BY <1>1, <1>2, InductionOnNaturals
<1> QED BY <1>3

(* FlattenSeq returns the last of them. *)
LEMMA FlattenIsLastSum ==
    ASSUME NEW S, NEW s \in Seq(Seq(S)), Len(s) # 0,
           NEW f, PartialSums(s, f, Len(s))
    PROVE  FlattenSeq(s) = f[Len(s)]
<1>0. Len(s) \in Nat
    BY LenProperties
<1> DEFINE D(h) == [i \in 1..Len(s) |-> IF i = 1 THEN s[i] ELSE h[i - 1] \o s[i]]
           c == CHOOSE h : h = D(h)
<1>1. FlattenSeq(s) = c[Len(s)]
    BY DEF FlattenSeq
<1>2. \E h : h = D(h)
  <2>0. Len(s) \in 0..Len(s)
    BY <1>0
  <2>1. PICK h \in [1..Len(s) -> Seq(S)] : PartialSums(s, h, Len(s))
    BY <2>0, PartialSumsExist, Zenon
  <2>2. ASSUME NEW i \in 1..Len(s) PROVE h[i] = D(h)[i]
    BY <2>1, <2>2, Zenon DEF PartialSums
  <2>3. h = D(h)
    BY <2>1, <2>2
  <2> QED BY <2>3
<1>3. c = D(c)
    BY <1>2
<1>4. PartialSums(s, c, Len(s))
  <2> SUFFICES ASSUME NEW i \in 1..Len(s)
               PROVE  c[i] = IF i = 1 THEN s[i] ELSE c[i - 1] \o s[i]
    BY DEF PartialSums
  <2> HIDE DEF c
  <2> QED BY <1>3
<1> HIDE DEF c
<1>5. \A i \in 1..Len(s) : c[i] = f[i]
    BY <1>0, <1>4, PartialSumsUnique
<1> QED BY <1>0, <1>1, <1>5

LEMMA FlattenEmpty == FlattenSeq(<<>>) = <<>>
BY DEF FlattenSeq

LEMMA FlattenType ==
    ASSUME NEW S, NEW s \in Seq(Seq(S))
    PROVE  FlattenSeq(s) \in Seq(S)
<1>0. Len(s) \in Nat
    BY LenProperties
<1>1. CASE Len(s) = 0
  <2>1. s = <<>>
    BY <1>1, EmptySeq
  <2> QED BY <2>1, FlattenEmpty, EmptySeq
<1>2. CASE Len(s) # 0
  <2>0. Len(s) \in 0..Len(s)
    BY <1>0
  <2>1. PICK f \in [1..Len(s) -> Seq(S)] : PartialSums(s, f, Len(s))
    BY <2>0, PartialSumsExist, Zenon
  <2>2. FlattenSeq(s) = f[Len(s)]
    BY <1>2, <2>1, FlattenIsLastSum
  <2>3. Len(s) \in 1..Len(s)
    BY <1>0, <1>2
  <2>4. f[Len(s)] \in Seq(S)
    BY <2>1, <2>3, Zenon
  <2> QED BY <2>2, <2>4
<1> QED BY <1>1, <1>2

(* One more sequence comes last. *)
LEMMA FlattenAppend ==
    ASSUME NEW S, NEW s \in Seq(Seq(S)), NEW e \in Seq(S)
    PROVE  FlattenSeq(Append(s, e)) = FlattenSeq(s) \o e
<1> DEFINE n == Len(s)
           t == Append(s, e)
<1>0. /\ n \in Nat /\ t \in Seq(Seq(S)) /\ Len(t) = n + 1 /\ t[n + 1] = e
      /\ \A i \in 1..n : t[i] = s[i]
    BY LenProperties, AppendProperties
<1>n. n \in Nat
    BY <1>0
<1> HIDE DEF n, t
<1>1. PICK g \in [1..n + 1 -> Seq(S)] : PartialSums(t, g, n + 1)
    BY <1>0, PartialSumsExist
<1>2. FlattenSeq(t) = g[n + 1]
  <2>1. Len(t) # 0
    BY <1>0
  <2> QED BY <1>0, <1>1, <2>1, FlattenIsLastSum
<1>3. CASE n = 0
  <2>1. s = <<>>
    BY <1>3, EmptySeq DEF n
  <2>2. g[n + 1] = e
    BY <1>0, <1>1, <1>3 DEF PartialSums
  <2>3. FlattenSeq(s) \o e = e
    BY <2>1, FlattenEmpty, ConcatEmptySeq
  <2> QED BY <1>2, <2>2, <2>3 DEF t
<1>4. CASE n # 0
  <2>1. PartialSums(s, g, n)
    <3> SUFFICES ASSUME NEW i \in 1..n
                 PROVE  g[i] = IF i = 1 THEN s[i] ELSE g[i - 1] \o s[i]
      BY Zenon DEF PartialSums
    <3>1. i \in 1..n + 1
      BY <1>n
    <3>2. g[i] = IF i = 1 THEN t[i] ELSE g[i - 1] \o t[i]
      BY <1>1, <3>1, Zenon DEF PartialSums
    <3>3. t[i] = s[i]
      BY <1>0, Zenon
    <3> QED BY <3>2, <3>3, Zenon
  <2>2. FlattenSeq(s) = g[n]
    BY <1>4, <2>1, FlattenIsLastSum DEF n
  <2>3. g[n + 1] = g[n] \o e
    <3>1. n + 1 \in 1..n + 1 /\ n + 1 # 1 /\ (n + 1) - 1 = n
      BY <1>n, <1>4
    <3>2. g[n + 1] = g[(n + 1) - 1] \o t[n + 1]
      BY <1>1, <3>1, Zenon DEF PartialSums
    <3> QED BY <1>0, <3>1, <3>2
  <2> QED BY <1>2, <2>2, <2>3 DEF t
<1> QED BY <1>3, <1>4

(* The first sequence comes first. *)
LEMMA FlattenHead ==
    ASSUME NEW S, NEW s \in Seq(Seq(S)), s # <<>>
    PROVE  FlattenSeq(s) = Head(s) \o FlattenSeq(Tail(s))
<1> DEFINE n == Len(s)
           t == Tail(s)
           h == Head(s)
<1>0. /\ n \in Nat \ {0} /\ t \in Seq(Seq(S)) /\ Len(t) = n - 1 /\ h \in Seq(S)
      /\ h = s[1] /\ \A i \in 1..n - 1 : t[i] = s[i + 1]
      /\ \A i \in 1..n : s[i] \in Seq(S)
    BY LenProperties, HeadTailProperties, EmptySeq, ElementOfSeq
<1>n. n \in Nat \ {0}
    BY <1>0
<1> HIDE DEF n, t, h
<1>1. PICK f \in [1..n -> Seq(S)] : PartialSums(s, f, n)
  <2>1. n \in 0..Len(s)
    BY <1>0 DEF n
  <2> QED BY <2>1, PartialSumsExist
<1>2. FlattenSeq(s) = f[n] /\ f[1] = h
  <2>1. n # 0 /\ 1 \in 1..n
    BY <1>n
  <2>2. f[1] = h
    BY <1>0, <1>1, <2>1, Zenon DEF PartialSums
  <2> QED BY <1>1, <2>1, <2>2, FlattenIsLastSum DEF n
<1>3. CASE n = 1
  <2>1. t = <<>>
    BY <1>0, <1>3, EmptySeq
  <2>2. h \o FlattenSeq(t) = h
    BY <1>0, <2>1, FlattenEmpty, ConcatEmptySeq
  <2> QED BY <1>2, <1>3, <2>2 DEF t, h
<1>4. CASE n > 1
  <2>1. PICK g \in [1..n - 1 -> Seq(S)] : PartialSums(t, g, n - 1)
    <3>1. n - 1 \in 0..Len(t)
      BY <1>0, <1>n
    <3> QED BY <1>0, <3>1, PartialSumsExist
  <2>2. FlattenSeq(t) = g[n - 1]
    <3>1. Len(t) # 0
      BY <1>0, <1>4
    <3> QED BY <1>0, <2>1, <3>1, FlattenIsLastSum
  <2> DEFINE G == {k \in Nat : k + 1 \in 1..n - 1 => f[k + 2] = h \o g[k + 1]}
  <2>3. 0 \in G
    <3>1. 2 \in 1..n /\ 2 # 1 /\ 2 - 1 = 1 /\ 1 \in 1..n - 1 /\ 1 + 1 = 2
      BY <1>n, <1>4
    <3>2. f[2] = f[2 - 1] \o s[2]
      BY <1>1, <3>1, Zenon DEF PartialSums
    <3>3. g[1] = t[1]
      BY <2>1, <3>1, Zenon DEF PartialSums
    <3>4. t[1] = s[2]
      BY <1>0, <3>1
    <3>5. f[2] = h \o g[1]
      BY <1>2, <3>1, <3>2, <3>3, <3>4
    <3> QED BY <3>5
  <2>4. ASSUME NEW k \in Nat, k \in G PROVE k + 1 \in G
    <3> SUFFICES ASSUME k + 2 \in 1..n - 1 PROVE f[k + 3] = h \o g[k + 2]
      OBVIOUS
    <3>1. /\ k + 1 \in 1..n - 1 /\ k + 2 \in 1..n /\ k + 3 \in 1..n
          /\ k + 3 # 1 /\ k + 2 # 1 /\ (k + 3) - 1 = k + 2 /\ (k + 2) - 1 = k + 1
          /\ (k + 2) + 1 = k + 3
      BY <1>n
    <3>2. f[k + 3] = f[(k + 3) - 1] \o s[k + 3]
      BY <1>1, <3>1, Zenon DEF PartialSums
    <3>3. g[k + 2] = g[(k + 2) - 1] \o t[k + 2]
      BY <2>1, <3>1, Zenon DEF PartialSums
    <3>4. f[k + 2] = h \o g[k + 1]
      BY <2>4, <3>1
    <3>5. t[k + 2] = s[k + 3] /\ s[k + 3] \in Seq(S) /\ g[k + 1] \in Seq(S)
      BY <1>0, <2>1, <3>1
    <3>6. (h \o g[k + 1]) \o s[k + 3] = h \o (g[k + 1] \o s[k + 3])
      <4>1. Associates(S)
        BY ConcatAssociates, Zenon
      <4>2. h \in Seq(S)
        BY <1>0
      <4> QED BY <3>5, <4>1, <4>2, Zenon DEF Associates
    <3>7. f[k + 3] = (h \o g[k + 1]) \o s[k + 3]
      BY <3>1, <3>2, <3>4, Zenon
    <3>8. g[k + 2] = g[k + 1] \o s[k + 3]
      BY <3>1, <3>3, <3>5, Zenon
    <3> QED BY <3>6, <3>7, <3>8, Zenon
  <2>5. \A k \in Nat : k \in G
    <3> HIDE DEF G
    <3> QED BY <2>3, <2>4, InductionOnNaturals
  <2>6. f[n] = h \o g[n - 1]
    <3>1. n - 2 \in Nat /\ (n - 2) + 1 = n - 1 /\ (n - 2) + 2 = n /\ n - 1 \in 1..n - 1
      BY <1>0, <1>4
    <3>2. n - 2 \in G
      BY <2>5, <3>1
    <3> QED BY <3>1, <3>2
  <2> QED BY <1>2, <2>2, <2>6 DEF t, h
<1> QED BY <1>0, <1>3, <1>4


-----------------------------------------------------------------------------
(* RemoveAt. *)

LEMMA RemoveAtShape ==
    ASSUME NEW S, NEW s \in Seq(S), NEW v \in 1..Len(s)
    PROVE  /\ RemoveAt(s, v) \in Seq(S)
           /\ Len(RemoveAt(s, v)) = Len(s) - 1
           /\ \A j \in 1..Len(s) - 1 :
                  RemoveAt(s, v)[j] = IF j < v THEN s[j] ELSE s[j + 1]
<1> DEFINE a == SubSeq(s, 1, v - 1)
           b == SubSeq(s, v + 1, Len(s))
<1>0. Len(s) \in Nat
    BY LenProperties
<1>1. /\ a \in Seq(S) /\ Len(a) = v - 1
      /\ \A i \in 1..v - 1 : a[i] = s[i]
    BY <1>0, SubSeqProperties, ElementOfSeq
<1>2. /\ b \in Seq(S) /\ Len(b) = Len(s) - v
      /\ \A i \in 1..Len(s) - v : b[i] = s[v + i]
    BY <1>0, SubSeqProperties, ElementOfSeq
<1>3. /\ a \o b \in Seq(S)
      /\ Len(a \o b) = Len(a) + Len(b)
      /\ \A i \in 1..Len(a) + Len(b) :
             (a \o b)[i] = IF i <= Len(a) THEN a[i] ELSE b[i - Len(a)]
    BY <1>1, <1>2, ConcatProperties
<1> HIDE DEF a, b
<1>4. RemoveAt(s, v) = a \o b
    BY DEF RemoveAt, a, b
<1>5. ASSUME NEW j \in 1..Len(s) - 1
      PROVE  (a \o b)[j] = IF j < v THEN s[j] ELSE s[j + 1]
  <2>1. CASE j < v
    BY <1>0, <1>1, <1>2, <1>3, <2>1
  <2>2. CASE ~(j < v)
    <3>1. (a \o b)[j] = b[j - (v - 1)]
      BY <1>0, <1>1, <1>2, <1>3, <2>2
    <3>2. j - (v - 1) \in 1..Len(s) - v /\ v + (j - (v - 1)) = j + 1
      BY <1>0, <2>2
    <3>3. b[j - (v - 1)] = s[v + (j - (v - 1))]
      BY <1>2, <3>2
    <3> QED BY <2>2, <3>1, <3>2, <3>3
  <2> QED BY <2>1, <2>2
<1>6. Len(a) + Len(b) = Len(s) - 1
    BY <1>0, <1>1, <1>2
<1>7. Len(a \o b) = Len(s) - 1
    BY <1>3, <1>6, Zenon
<1> QED BY <1>3, <1>4, <1>5, <1>7, Zenon

(* What is removed from a concatenation is removed from one of its parts. *)
LEMMA RemoveFromLeft ==
    ASSUME NEW S, NEW a \in Seq(S), NEW b \in Seq(S), NEW v \in 1..Len(a)
    PROVE  RemoveAt(a \o b, v) = RemoveAt(a, v) \o b
<1>0. Len(a) \in Nat /\ Len(b) \in Nat
    BY LenProperties
<1>1. /\ a \o b \in Seq(S) /\ Len(a \o b) = Len(a) + Len(b)
      /\ \A i \in 1..Len(a) + Len(b) :
             (a \o b)[i] = IF i <= Len(a) THEN a[i] ELSE b[i - Len(a)]
    BY ConcatProperties
<1> DEFINE l == RemoveAt(a \o b, v)
           r == RemoveAt(a, v)
<1>2. /\ l \in Seq(S) /\ Len(l) = Len(a) + Len(b) - 1
      /\ \A j \in 1..Len(a) + Len(b) - 1 :
             l[j] = IF j < v THEN (a \o b)[j] ELSE (a \o b)[j + 1]
  <2> DEFINE ab == a \o b
             i == v
  <2>1. ab \in Seq(S) /\ i \in 1..Len(ab) /\ Len(ab) = Len(a) + Len(b)
    BY <1>0, <1>1
  <2> HIDE DEF ab, i
  <2>2. /\ RemoveAt(ab, i) \in Seq(S) /\ Len(RemoveAt(ab, i)) = Len(ab) - 1
        /\ \A j \in 1..Len(ab) - 1 :
               RemoveAt(ab, i)[j] = IF j < i THEN ab[j] ELSE ab[j + 1]
    BY <2>1, RemoveAtShape
  <2>3. l = RemoveAt(ab, i)
    BY DEF ab, i
  <2> HIDE DEF l
  <2>4. /\ l \in Seq(S) /\ Len(l) = Len(a) + Len(b) - 1
        /\ \A j \in 1..Len(a) + Len(b) - 1 : l[j] = IF j < i THEN ab[j] ELSE ab[j + 1]
    BY <2>1, <2>2, <2>3
  <2> QED BY <2>4 DEF ab, i
<1>3. /\ r \in Seq(S) /\ Len(r) = Len(a) - 1
      /\ \A j \in 1..Len(a) - 1 : r[j] = IF j < v THEN a[j] ELSE a[j + 1]
    BY RemoveAtShape
<1> HIDE DEF l, r
<1>4. /\ r \o b \in Seq(S) /\ Len(r \o b) = Len(r) + Len(b)
      /\ \A i \in 1..Len(r) + Len(b) :
             (r \o b)[i] = IF i <= Len(r) THEN r[i] ELSE b[i - Len(r)]
    BY <1>3, ConcatProperties
<1>5. ASSUME NEW j \in 1..Len(l) PROVE l[j] = (r \o b)[j]
  <2>0. j \in 1..Len(a) + Len(b) - 1 /\ j \in 1..Len(r) + Len(b)
    BY <1>0, <1>2, <1>3
  <2>1. CASE j <= Len(a) - 1
    <3>0. /\ j \in 1..Len(a) + Len(b) /\ j + 1 \in 1..Len(a) + Len(b)
          /\ j <= Len(a) /\ j + 1 <= Len(a) /\ j \in 1..Len(a) - 1
      BY <1>0, <2>0, <2>1
    <3>1. j <= Len(r)
      BY <1>3, <2>1
    <3>2. (a \o b)[j] = a[j] /\ (a \o b)[j + 1] = a[j + 1]
      BY <1>1, <3>0, Zenon
    <3>3. l[j] = IF j < v THEN a[j] ELSE a[j + 1]
      BY <1>2, <2>0, <3>2, Zenon
    <3>4. (r \o b)[j] = r[j]
      BY <1>4, <2>0, <3>1, Zenon
    <3>5. r[j] = IF j < v THEN a[j] ELSE a[j + 1]
      BY <1>3, <3>0, Zenon
    <3> QED BY <3>3, <3>4, <3>5, Zenon
  <2>2. CASE j > Len(a) - 1
    <3>1. l[j] = (a \o b)[j + 1]
      BY <1>0, <1>2, <2>0, <2>2
    <3>2. (a \o b)[j + 1] = b[(j + 1) - Len(a)]
      BY <1>0, <1>1, <2>0, <2>2
    <3>3. (r \o b)[j] = b[j - (Len(a) - 1)]
      BY <1>0, <1>3, <1>4, <2>0, <2>2
    <3>4. (j + 1) - Len(a) = j - (Len(a) - 1)
      BY <1>0, <2>0
    <3> QED BY <3>1, <3>2, <3>3, <3>4
  <2> QED BY <1>0, <2>0, <2>1, <2>2
<1>6. Len(l) = Len(r \o b)
    BY <1>0, <1>2, <1>3, <1>4
<1>7. l = r \o b
    BY <1>2, <1>4, <1>5, <1>6, SeqEqual
<1> QED BY <1>7 DEF l, r

LEMMA RemoveFromRight ==
    ASSUME NEW S, NEW a \in Seq(S), NEW b \in Seq(S), NEW v \in 1..Len(b)
    PROVE  RemoveAt(a \o b, Len(a) + v) = a \o RemoveAt(b, v)
<1>0. Len(a) \in Nat /\ Len(b) \in Nat
    BY LenProperties
<1>1. /\ a \o b \in Seq(S) /\ Len(a \o b) = Len(a) + Len(b)
      /\ \A i \in 1..Len(a) + Len(b) :
             (a \o b)[i] = IF i <= Len(a) THEN a[i] ELSE b[i - Len(a)]
    BY ConcatProperties
<1> DEFINE l == RemoveAt(a \o b, Len(a) + v)
           r == RemoveAt(b, v)
<1>2. /\ l \in Seq(S) /\ Len(l) = Len(a) + Len(b) - 1
      /\ \A j \in 1..Len(a) + Len(b) - 1 :
             l[j] = IF j < Len(a) + v THEN (a \o b)[j] ELSE (a \o b)[j + 1]
  <2> DEFINE ab == a \o b
             i == Len(a) + v
  <2>1. ab \in Seq(S) /\ i \in 1..Len(ab) /\ Len(ab) = Len(a) + Len(b)
    BY <1>0, <1>1
  <2> HIDE DEF ab, i
  <2>2. /\ RemoveAt(ab, i) \in Seq(S) /\ Len(RemoveAt(ab, i)) = Len(ab) - 1
        /\ \A j \in 1..Len(ab) - 1 :
               RemoveAt(ab, i)[j] = IF j < i THEN ab[j] ELSE ab[j + 1]
    BY <2>1, RemoveAtShape
  <2>3. l = RemoveAt(ab, i)
    BY DEF ab, i
  <2> HIDE DEF l
  <2>4. /\ l \in Seq(S) /\ Len(l) = Len(a) + Len(b) - 1
        /\ \A j \in 1..Len(a) + Len(b) - 1 : l[j] = IF j < i THEN ab[j] ELSE ab[j + 1]
    BY <2>1, <2>2, <2>3
  <2> QED BY <2>4 DEF ab, i
<1>3. /\ r \in Seq(S) /\ Len(r) = Len(b) - 1
      /\ \A j \in 1..Len(b) - 1 : r[j] = IF j < v THEN b[j] ELSE b[j + 1]
    BY RemoveAtShape
<1> HIDE DEF l, r
<1>4. /\ a \o r \in Seq(S) /\ Len(a \o r) = Len(a) + Len(r)
      /\ \A i \in 1..Len(a) + Len(r) :
             (a \o r)[i] = IF i <= Len(a) THEN a[i] ELSE r[i - Len(a)]
    BY <1>3, ConcatProperties
<1>5. ASSUME NEW j \in 1..Len(l) PROVE l[j] = (a \o r)[j]
  <2>0. j \in 1..Len(a) + Len(b) - 1 /\ j \in 1..Len(a) + Len(r)
    BY <1>0, <1>2, <1>3
  <2>1. CASE j <= Len(a)
    <3>0. j \in 1..Len(a) + Len(b) /\ j < Len(a) + v
      BY <1>0, <2>0, <2>1
    <3>1. (a \o b)[j] = a[j]
      BY <1>1, <2>1, <3>0, Zenon
    <3>2. l[j] = a[j]
      BY <1>2, <2>0, <3>0, <3>1, Zenon
    <3>3. (a \o r)[j] = a[j]
      BY <1>4, <2>0, <2>1, Zenon
    <3> QED BY <3>2, <3>3
  <2>2. CASE j > Len(a)
    <3>0. j - Len(a) \in 1..Len(b) - 1 /\ (j - Len(a)) + 1 = (j + 1) - Len(a)
      BY <1>0, <2>0, <2>2
    <3>1. (a \o r)[j] = r[j - Len(a)]
      BY <1>0, <1>4, <2>0, <2>2
    <3>2. r[j - Len(a)] = IF j - Len(a) < v THEN b[j - Len(a)] ELSE b[(j + 1) - Len(a)]
      BY <1>3, <3>0
    <3>3. l[j] = IF j < Len(a) + v THEN b[j - Len(a)] ELSE b[(j + 1) - Len(a)]
      <4>1. /\ j \in 1..Len(a) + Len(b) /\ j + 1 \in 1..Len(a) + Len(b)
            /\ ~(j <= Len(a)) /\ ~(j + 1 <= Len(a))
        BY <1>0, <2>0, <2>2
      <4>2. (a \o b)[j] = b[j - Len(a)] /\ (a \o b)[j + 1] = b[(j + 1) - Len(a)]
        BY <1>1, <4>1, Zenon
      <4>3. l[j] = IF j < Len(a) + v THEN (a \o b)[j] ELSE (a \o b)[j + 1]
        BY <1>2, <2>0, Zenon
      <4> QED BY <4>2, <4>3, Zenon
    <3> QED BY <1>0, <2>0, <3>1, <3>2, <3>3
  <2> QED BY <1>0, <2>0, <2>1, <2>2
<1>6. Len(l) = Len(a \o r)
    BY <1>0, <1>2, <1>3, <1>4
<1>7. l = a \o r
    BY <1>2, <1>4, <1>5, <1>6, SeqEqual
<1> QED BY <1>7 DEF l, r

-----------------------------------------------------------------------------
(* ToSet. *)

LEMMA ToSetByIndex ==
    ASSUME NEW S, NEW s \in Seq(S)
    PROVE  /\ ToSet(s) = {s[i] : i \in 1..Len(s)}
           /\ ToSet(s) \subseteq S
           /\ s = <<>> <=> ToSet(s) = {}
<1>1. Len(s) \in Nat /\ DOMAIN s = 1..Len(s) /\ \A i \in 1..Len(s) : s[i] \in S
    BY LenProperties, ElementOfSeq
<1>2. ToSet(s) = {s[i] : i \in 1..Len(s)}
    BY <1>1 DEF ToSet
<1>3. ASSUME s # <<>> PROVE s[1] \in ToSet(s)
  <2>1. 1 \in 1..Len(s)
    BY <1>1, <1>3, EmptySeq
  <2> QED BY <1>2, <2>1
<1>4. ASSUME s = <<>> PROVE ToSet(s) = {}
    BY <1>4 DEF ToSet
<1> QED BY <1>1, <1>2, <1>3, <1>4

LEMMA ToSetSmall ==
    /\ ToSet(<<>>) = {}
    /\ \A a : ToSet(<<a>>) = {a}
    /\ \A a, b : ToSet(<<a, b>>) = {a, b}
    /\ \A a, b, c : ToSet(<<a, b, c>>) = {a, b, c}
BY DEF ToSet

LEMMA ToSetConcat ==
    ASSUME NEW S, NEW s \in Seq(S), NEW t \in Seq(S)
    PROVE  s \o t \in Seq(S) /\ ToSet(s \o t) = ToSet(s) \cup ToSet(t)
<1>1. /\ s \o t \in Seq(S) /\ Len(s \o t) = Len(s) + Len(t)
      /\ \A i \in 1..Len(s) + Len(t) :
             (s \o t)[i] = IF i <= Len(s) THEN s[i] ELSE t[i - Len(s)]
      /\ Len(s) \in Nat /\ Len(t) \in Nat
    BY ConcatProperties, LenProperties
<1>n. Len(s) \in Nat /\ Len(t) \in Nat
    BY <1>1
<1> DEFINE st == s \o t
<1>2. ToSet(st) = {st[i] : i \in 1..Len(s) + Len(t)}
  <2>1. st \in Seq(S) /\ Len(st) = Len(s) + Len(t)
    BY <1>1
  <2> HIDE DEF st
  <2>2. ToSet(st) = {st[i] : i \in 1..Len(st)}
    BY <2>1, ToSetByIndex
  <2> QED BY <2>1, <2>2
<1>3. ToSet(s) = {s[i] : i \in 1..Len(s)} /\ ToSet(t) = {t[i] : i \in 1..Len(t)}
    BY ToSetByIndex
<1>4. ASSUME NEW i \in 1..Len(s) PROVE s[i] \in ToSet(st)
  <2>1. i \in 1..Len(s) + Len(t) /\ i <= Len(s)
    BY <1>n
  <2>2. st[i] = s[i]
    BY <1>1, <2>1, Zenon
  <2> HIDE DEF st
  <2> QED BY <1>2, <2>1, <2>2, Zenon
<1>5. ASSUME NEW i \in 1..Len(t) PROVE t[i] \in ToSet(st)
  <2>1. /\ Len(s) + i \in 1..Len(s) + Len(t) /\ ~(Len(s) + i <= Len(s))
        /\ (Len(s) + i) - Len(s) = i
    BY <1>n
  <2>2. st[Len(s) + i] = t[i]
    BY <1>1, <2>1, Zenon
  <2> HIDE DEF st
  <2> QED BY <1>2, <2>1, <2>2, Zenon
<1>6. ASSUME NEW i \in 1..Len(s) + Len(t) PROVE st[i] \in ToSet(s) \cup ToSet(t)
  <2>1. CASE i <= Len(s)
    <3>1. i \in 1..Len(s)
      BY <1>n, <2>1
    <3>2. st[i] = s[i]
      BY <1>1, <2>1, Zenon
    <3> HIDE DEF st
    <3> QED BY <1>3, <3>1, <3>2, Zenon
  <2>2. CASE ~(i <= Len(s))
    <3>1. i - Len(s) \in 1..Len(t)
      BY <1>n, <2>2
    <3>2. st[i] = t[i - Len(s)]
      BY <1>1, <2>2, Zenon
    <3> HIDE DEF st
    <3> QED BY <1>3, <3>1, <3>2, Zenon
  <2> QED BY <2>1, <2>2
<1> HIDE DEF st
<1>7. ToSet(st) = ToSet(s) \cup ToSet(t)
    BY <1>2, <1>3, <1>4, <1>5, <1>6, Zenon
<1> QED BY <1>1, <1>7 DEF st

Unites(S) == \A s, t \in Seq(S) : ToSet(s \o t) = ToSet(s) \cup ToSet(t)

LEMMA ConcatUnites == ASSUME NEW S PROVE Unites(S)
BY ToSetConcat DEF Unites

LEMMA ToSetHead ==
    ASSUME NEW S, NEW s \in Seq(S), s # <<>>
    PROVE  /\ Head(s) \in S /\ Tail(s) \in Seq(S)
           /\ s = <<Head(s)>> \o Tail(s)
           /\ ToSet(s) = {Head(s)} \cup ToSet(Tail(s))
<1>1. Head(s) \in S /\ Tail(s) \in Seq(S) /\ s = <<Head(s)>> \o Tail(s)
    BY HeadTailProperties, ConcatProperties
<1>2. <<Head(s)>> \in Seq(S)
    BY <1>1
<1>3. ToSet(<<Head(s)>> \o Tail(s)) = ToSet(<<Head(s)>>) \cup ToSet(Tail(s))
  <2>1. Unites(S)
    BY ConcatUnites, Zenon
  <2> QED BY <1>1, <1>2, <2>1, Zenon DEF Unites
<1>4. ToSet(<<Head(s)>>) = {Head(s)}
    BY ToSetSmall, Zenon
<1> QED BY <1>1, <1>3, <1>4, Zenon

-----------------------------------------------------------------------------
(* Any two elements of a sequence are related as they come. *)
Pairwise(R, s) == \A j, k \in 1..Len(s) : j < k => <<s[j], s[k]>> \in R

LEMMA PairwiseConcat ==
    ASSUME NEW S, NEW s \in Seq(S), NEW t \in Seq(S), NEW R
    PROVE  Pairwise(R, s \o t) <=>
               /\ Pairwise(R, s) /\ Pairwise(R, t)
               /\ \A a \in ToSet(s), b \in ToSet(t) : <<a, b>> \in R
<1>1. /\ s \o t \in Seq(S) /\ Len(s \o t) = Len(s) + Len(t)
      /\ \A i \in 1..Len(s) + Len(t) :
             (s \o t)[i] = IF i <= Len(s) THEN s[i] ELSE t[i - Len(s)]
      /\ Len(s) \in Nat /\ Len(t) \in Nat
    BY ConcatProperties, LenProperties
<1>n. Len(s) \in Nat /\ Len(t) \in Nat
    BY <1>1
<1> DEFINE st == s \o t
<1>2. \A i \in 1..Len(s) : i \in 1..Len(s) + Len(t) /\ st[i] = s[i]
  <2> TAKE i \in 1..Len(s)
  <2>1. i \in 1..Len(s) + Len(t) /\ i <= Len(s)
    BY <1>n
  <2> QED BY <1>1, <2>1, Zenon
<1>3. \A i \in 1..Len(t) : Len(s) + i \in 1..Len(s) + Len(t) /\ st[Len(s) + i] = t[i]
  <2> TAKE i \in 1..Len(t)
  <2>1. /\ Len(s) + i \in 1..Len(s) + Len(t) /\ ~(Len(s) + i <= Len(s))
        /\ (Len(s) + i) - Len(s) = i
    BY <1>n
  <2> QED BY <1>1, <2>1, Zenon
<1>4. ToSet(s) = {s[i] : i \in 1..Len(s)} /\ ToSet(t) = {t[i] : i \in 1..Len(t)}
    BY ToSetByIndex
<1>5. Len(st) = Len(s) + Len(t)
    BY <1>1
<1> HIDE DEF st
<1>6. ASSUME Pairwise(R, st)
      PROVE  /\ Pairwise(R, s) /\ Pairwise(R, t)
             /\ \A a \in ToSet(s), b \in ToSet(t) : <<a, b>> \in R
  <2>1. Pairwise(R, s)
    BY <1>2, <1>5, <1>6, Zenon DEF Pairwise
  <2>2. Pairwise(R, t)
    <3> SUFFICES ASSUME NEW j \in 1..Len(t), NEW k \in 1..Len(t), j < k
                 PROVE  <<t[j], t[k]>> \in R
      BY DEF Pairwise
    <3>1. Len(s) + j < Len(s) + k
      BY <1>n
    <3> QED BY <1>3, <1>5, <1>6, <3>1, Zenon DEF Pairwise
  <2>3. \A i \in 1..Len(s), j \in 1..Len(t) : <<s[i], t[j]>> \in R
    <3> TAKE i \in 1..Len(s), j \in 1..Len(t)
    <3>1. i < Len(s) + j
      BY <1>n
    <3> QED BY <1>2, <1>3, <1>5, <1>6, <3>1, Zenon DEF Pairwise
  <2>4. \A a \in ToSet(s), b \in ToSet(t) : <<a, b>> \in R
    BY <1>4, <2>3, Zenon
  <2> QED BY <2>1, <2>2, <2>4
<1>7. ASSUME Pairwise(R, s), Pairwise(R, t),
             \A a \in ToSet(s), b \in ToSet(t) : <<a, b>> \in R
      PROVE  Pairwise(R, st)
  <2> SUFFICES ASSUME NEW j \in 1..Len(s) + Len(t), NEW k \in 1..Len(s) + Len(t), j < k
               PROVE  <<st[j], st[k]>> \in R
    BY <1>5 DEF Pairwise
  <2>1. CASE k <= Len(s)
    <3>1. j \in 1..Len(s) /\ k \in 1..Len(s)
      BY <1>n, <2>1
    <3> QED BY <1>2, <1>7, <3>1, Zenon DEF Pairwise
  <2>2. CASE j > Len(s)
    <3>1. PICK u \in 1..Len(t), v \in 1..Len(t) : u < v /\ Len(s) + u = j /\ Len(s) + v = k
      <4>1. /\ j - Len(s) \in 1..Len(t) /\ k - Len(s) \in 1..Len(t) /\ j - Len(s) < k - Len(s)
            /\ Len(s) + (j - Len(s)) = j /\ Len(s) + (k - Len(s)) = k
        BY <1>n, <2>2
      <4> QED BY <4>1
    <3>2. st[j] = t[u] /\ st[k] = t[v]
      BY <1>3, <3>1, Zenon
    <3> QED BY <1>7, <3>1, <3>2, Zenon DEF Pairwise
  <2>3. CASE j <= Len(s) /\ k > Len(s)
    <3>1. PICK v \in 1..Len(t) : Len(s) + v = k
      <4>1. k - Len(s) \in 1..Len(t) /\ Len(s) + (k - Len(s)) = k
        BY <1>n, <2>3
      <4> QED BY <4>1
    <3>2. j \in 1..Len(s)
      BY <1>n, <2>3
    <3>3. st[j] = s[j] /\ st[k] = t[v]
      BY <1>2, <1>3, <3>1, <3>2, Zenon
    <3> QED BY <1>4, <1>7, <3>2, <3>3, Zenon
  <2> QED BY <1>n, <2>1, <2>2, <2>3
<1> QED BY <1>6, <1>7 DEF st

LEMMA PairwiseSmall ==
    ASSUME NEW R
    PROVE  /\ Pairwise(R, <<>>)
           /\ \A a : Pairwise(R, <<a>>)
           /\ \A a, b : Pairwise(R, <<a, b>>) <=> <<a, b>> \in R
BY DEF Pairwise

(* The rest of a sequence, and what its head has to do with it. *)
LEMMA PairwiseHead ==
    ASSUME NEW S, NEW s \in Seq(S), s # <<>>, NEW R, Pairwise(R, s)
    PROVE  Pairwise(R, Tail(s)) /\ \A b \in ToSet(Tail(s)) : <<Head(s), b>> \in R
<1>1. Head(s) \in S /\ Tail(s) \in Seq(S) /\ s = <<Head(s)>> \o Tail(s)
    BY ToSetHead
<1>2. <<Head(s)>> \in Seq(S)
    BY <1>1
<1>3. Pairwise(R, <<Head(s)>> \o Tail(s))
    BY <1>1
<1>4. Head(s) \in ToSet(<<Head(s)>>)
    BY ToSetSmall
<1>5. /\ Pairwise(R, Tail(s))
      /\ \A a \in ToSet(<<Head(s)>>), b \in ToSet(Tail(s)) : <<a, b>> \in R
    BY <1>1, <1>2, <1>3, PairwiseConcat
<1> QED BY <1>4, <1>5
-----------------------------------------------------------------------------
(* SetToSeqs: the orders of a finite set. *)

LEMMA OrderOfSet ==
    ASSUME NEW S, IsFiniteSet(S), NEW f \in SetToSeqs(S)
    PROVE  /\ f \in Seq(S) /\ ToSet(f) = S
           /\ \A i, j \in 1..Len(f) : i # j => f[i] # f[j]
<1> DEFINE n == Cardinality(S)
<1>0. n \in Nat
    BY FS_CardinalityType
<1>1. f \in [1..n -> S] /\ \A i, j \in 1..n : i # j => f[i] # f[j]
    BY Zenon DEF SetToSeqs
<1>2. IsFiniteSet(1..n) /\ Cardinality(1..n) = n
  <2> HIDE DEF n
  <2> QED BY <1>0, FS_Interval
<1>3. f \in Injection(1..n, S)
    BY <1>1, Zenon DEF Injection, IsInjective
<1>4. f \in Surjection(1..n, S)
  <2>1. IsFiniteSet(1..n) /\ Cardinality(1..n) = Cardinality(S)
    BY <1>2
  <2> HIDE DEF n
  <2> QED BY <1>1, <1>3, <2>1, FS_Injection, Zenon
<1> HIDE DEF n
<1>5. f \in Seq(S) /\ Len(f) = n
    BY <1>0, <1>1
<1>6. ToSet(f) = S
  <2>1. ToSet(f) = {f[i] : i \in 1..n} /\ ToSet(f) \subseteq S
    BY <1>5, ToSetByIndex
  <2>2. \A x \in S : \E i \in 1..n : f[i] = x
    BY <1>4, Zenon DEF Surjection
  <2> QED BY <2>1, <2>2, Zenon
<1> QED BY <1>1, <1>5, <1>6

Ascends(f) == \A i, j \in 1..Len(f) : i < j => f[i] < f[j]

(* Sets of naturals have an ascending order: the greatest comes last. *)
LEMMA AscendingOrder ==
    ASSUME NEW n \in Nat, NEW S \in SUBSET (1..n)
    PROVE  \E f \in SetToSeqs(S) : Ascends(f)
<1> DEFINE G == {k \in Nat : \A T \in SUBSET (1..k) : \E f \in SetToSeqs(T) : Ascends(f)}
<1>1. 0 \in G
  <2> SUFFICES ASSUME NEW T \in SUBSET (1..0) PROVE \E f \in SetToSeqs(T) : Ascends(f)
    OBVIOUS
  <2>0. T = {}
    OBVIOUS
  <2>1. T = {} /\ Cardinality(T) = 0
    BY <2>0, FS_EmptySet, Zenon
  <2>2. <<>> \in SetToSeqs(T)
    BY <2>1 DEF SetToSeqs
  <2>3. Ascends(<<>>)
    BY DEF Ascends
  <2> QED BY <2>2, <2>3
<1>2. ASSUME NEW k \in Nat, k \in G PROVE k + 1 \in G
  <2> SUFFICES ASSUME NEW T \in SUBSET (1..k + 1) PROVE \E f \in SetToSeqs(T) : Ascends(f)
    OBVIOUS
  <2>1. CASE k + 1 \notin T
    <3>1. T \in SUBSET (1..k)
      BY <2>1
    <3> QED BY <1>2, <3>1
  <2>2. CASE k + 1 \in T
    <3> DEFINE U == T \ {k + 1}
    <3>1. U \in SUBSET (1..k) /\ U \subseteq T /\ k + 1 \notin U /\ T = U \cup {k + 1}
      BY <2>2
    <3>2. PICK f \in SetToSeqs(U) : Ascends(f)
      <4> HIDE DEF U
      <4> QED BY <1>2, <3>1
    <3> HIDE DEF U
    <3>3. IsFiniteSet(U)
      <4>1. IsFiniteSet(1..k)
        BY FS_Interval
      <4> QED BY <3>1, <4>1, FS_Subset
    <3>4. PICK m \in Nat : m = Cardinality(U) /\ Cardinality(T) = m + 1
      <4>1. Cardinality(U) \in Nat /\ Cardinality(U \cup {k + 1}) = Cardinality(U) + 1
        BY <3>1, <3>3, FS_CardinalityType, FS_AddElement
      <4> QED BY <3>1, <4>1
    <3>5. f \in [1..m -> U] /\ \A i, j \in 1..m : i # j => f[i] # f[j]
      BY <3>4, Zenon DEF SetToSeqs
    <3>6. Len(f) = m
      BY <3>5
    <3>7. \A i, j \in 1..m : i < j => f[i] < f[j]
      BY <3>2, <3>6 DEF Ascends
    <3> DEFINE g == [i \in 1..m + 1 |-> IF i <= m THEN f[i] ELSE k + 1]
    <3>8. /\ g \in [1..m + 1 -> T] /\ Len(g) = m + 1
          /\ \A i, j \in 1..m + 1 : i < j => g[i] < g[j]
          /\ \A i \in 1..m + 1 : g[i] \in Nat
      <4>1. \A i \in 1..m : f[i] \in U /\ f[i] \in 1..k
        BY <3>1, <3>5
      <4>2. g \in [1..m + 1 -> T]
        BY <3>1, <4>1
      <4>3. ASSUME NEW i \in 1..m + 1, NEW j \in 1..m + 1, i < j PROVE g[i] < g[j]
        <5>1. i \in 1..m
          BY <4>3
        <5>2. CASE j = m + 1
          BY <4>1, <5>1, <5>2
        <5>3. CASE j \in 1..m
          BY <3>7, <4>3, <5>1, <5>3
        <5> QED BY <5>2, <5>3
      <4>4. Len(g) = m + 1
        BY <4>2
      <4>5. \A i \in 1..m + 1 : g[i] \in Nat
        BY <4>1
      <4> QED BY <4>2, <4>3, <4>4, <4>5
    <3> HIDE DEF g
    <3>9. \A i, j \in 1..m + 1 : i # j => g[i] # g[j]
      <4> SUFFICES ASSUME NEW i \in 1..m + 1, NEW j \in 1..m + 1, i # j PROVE g[i] # g[j]
        OBVIOUS
      <4>1. i < j \/ j < i
        OBVIOUS
      <4>2. g[i] < g[j] \/ g[j] < g[i]
        BY <3>8, <4>1
      <4>3. g[i] \in Nat /\ g[j] \in Nat
        BY <3>8
      <4> QED BY <4>2, <4>3
    <3>10. g \in SetToSeqs(T)
      BY <3>4, <3>8, <3>9, Zenon DEF SetToSeqs
    <3>11. Ascends(g)
      BY <3>8, Zenon DEF Ascends
    <3> QED BY <3>10, <3>11
  <2> QED BY <2>1, <2>2
<1>3. \A k \in Nat : k \in G
  <2> HIDE DEF G
  <2> QED BY <1>1, <1>2, InductionOnNaturals
<1> QED BY <1>3

-----------------------------------------------------------------------------
(* FlattenSeq holds what its sequences hold. *)
LEMMA FlattenToSet ==
    ASSUME NEW S, NEW s \in Seq(Seq(S))
    PROVE  ToSet(FlattenSeq(s)) = UNION {ToSet(x) : x \in ToSet(s)}
<1> DEFINE P(u) == ToSet(FlattenSeq(u)) = UNION {ToSet(x) : x \in ToSet(u)}
           G == {n \in Nat : \A u \in Seq(Seq(S)) : Len(u) = n => P(u)}
<1>1. 0 \in G
  <2> SUFFICES ASSUME NEW u \in Seq(Seq(S)), Len(u) = 0 PROVE P(u)
    OBVIOUS
  <2>1. u = <<>>
    BY EmptySeq
  <2>2. ToSet(<<>>) = {}
    BY ToSetSmall
  <2> QED BY <2>1, <2>2, FlattenEmpty, Zenon
<1>2. ASSUME NEW n \in Nat, n \in G PROVE n + 1 \in G
  <2> SUFFICES ASSUME NEW u \in Seq(Seq(S)), Len(u) = n + 1 PROVE P(u)
    OBVIOUS
  <2>1. u # <<>>
    <3>1. Len(u) # 0
      OBVIOUS
    <3> QED BY <3>1, EmptySeq
  <2>2. /\ Head(u) \in Seq(S) /\ Tail(u) \in Seq(Seq(S))
        /\ ToSet(u) = {Head(u)} \cup ToSet(Tail(u))
    BY <2>1, ToSetHead
  <2>3. Len(Tail(u)) = n
    BY <2>1, HeadTailProperties
  <2>4. ToSet(FlattenSeq(Tail(u))) = UNION {ToSet(x) : x \in ToSet(Tail(u))}
    BY <1>2, <2>2, <2>3
  <2>5. FlattenSeq(Tail(u)) \in Seq(S)
    BY <2>2, FlattenType
  <2>6. FlattenSeq(u) = Head(u) \o FlattenSeq(Tail(u))
    BY <2>1, FlattenHead
  <2>7. ToSet(FlattenSeq(u)) = ToSet(Head(u)) \cup ToSet(FlattenSeq(Tail(u)))
    BY <2>2, <2>5, <2>6, ToSetConcat
  <2>8. UNION {ToSet(x) : x \in ToSet(u)}
            = ToSet(Head(u)) \cup UNION {ToSet(x) : x \in ToSet(Tail(u))}
    BY <2>2, Zenon
  <2> QED BY <2>4, <2>7, <2>8, Zenon
<1>3. \A n \in Nat : n \in G
  <2> HIDE DEF G
  <2> QED BY <1>1, <1>2, InductionOnNaturals
<1> QED BY <1>3, LenProperties

=============================================================================
