------------------------------ MODULE ListsProofs ----------------------------
(***************************************************************************)
(* What At and RemoveFirst return, for any list. At is a loop over the     *)
(* list, so that it has the elements at the places, and no others, is      *)
(* shown for the first place at which it would not: that there is one is   *)
(* the lemma Least, which other modules use in the same way.               *)
(***************************************************************************)
EXTENDS Lists, SequenceTheorems, WellFoundedInduction, TLAPS

\* A set of natural numbers that is not empty has a least element.
LEMMA Least ==
    ASSUME NEW T \in SUBSET Nat, T # {}
    PROVE  \E i \in T : \A j \in T : i <= j
<1> DEFINE R == OpToRel(<, Nat)
<1>1. IsWellFoundedOn(R, Nat)
  BY NatLessThanWellFounded
<1>2. \A i, j \in Nat : <<i, j>> \in R <=> i < j
  BY DEF OpToRel
<1> HIDE DEF R
<1>3. PICK i \in T : \A j \in T : ~ (<<j, i>> \in R)
  BY <1>1, WFMin
<1>4. ASSUME NEW j \in T PROVE i <= j
  <2>1. i \in Nat /\ j \in Nat
    OBVIOUS
  <2>2. ~ (<<j, i>> \in R)
    BY <1>3
  <2> QED
    BY <1>2, <2>1, <2>2
<1> QED
  BY <1>4

\* And a set of numbers up to n has a greatest one.
LEMMA Greatest ==
    ASSUME NEW n \in Nat, NEW T \in SUBSET (1 .. n), T # {}
    PROVE  \E i \in T : \A j \in T : j <= i
<1> DEFINE D == {d \in 0 .. n : n - d \in T}
<1>1. D \in SUBSET Nat
  OBVIOUS
<1>2. D # {}
  <2>1. PICK i \in T : TRUE
    OBVIOUS
  <2>2. n - i \in D
    BY <2>1
  <2> QED
    BY <2>2
<1>3. PICK d \in D : \A e \in D : d <= e
  <2> HIDE DEF D
  <2> QED
    BY <1>1, <1>2, Least
<1>4. n - d \in T
  BY <1>3
<1>5. ASSUME NEW j \in T PROVE j <= n - d
  <2>1. n - j \in D /\ j \in Nat /\ d \in Nat
    OBVIOUS
  <2>2. d <= n - j
    BY <1>3, <2>1
  <2> QED
    BY <2>1, <2>2
<1> QED
  BY <1>4, <1>5

\* What At reads off a list up to each place.
Reading(list, places, f, m) ==
    f = [n \in 0 .. m |-> IF n = 0 THEN <<>>
                          ELSE IF n \in places THEN Append(f[n - 1], list[n]) ELSE f[n - 1]]

LEMMA ReadingExists ==
    ASSUME NEW list, NEW places, NEW m \in Nat
    PROVE  \E f : Reading(list, places, f, m)
<1> DEFINE Bad == {k \in Nat : ~ \E f : Reading(list, places, f, k)}
<1> SUFFICES ASSUME Bad # {} PROVE FALSE
  OBVIOUS
<1>1. PICK k \in Bad : \A j \in Bad : k <= j
  BY Least
<1>2. CASE k = 0
  <2> DEFINE g == [n \in 0 .. 0 |-> <<>>]
  <2>1. Reading(list, places, g, 0)
    BY DEF Reading
  <2> QED
    BY <1>1, <1>2, <2>1
<1>3. CASE k # 0
  <2>1. k - 1 \in Nat /\ k - 1 \notin Bad
    BY <1>1, <1>3
  <2>2. PICK f : Reading(list, places, f, k - 1)
    BY <2>1
  <2> DEFINE g == [n \in 0 .. k |-> IF n < k THEN f[n]
                     ELSE IF k \in places THEN Append(f[k - 1], list[k]) ELSE f[k - 1]]
  <2>3. ASSUME NEW n \in 0 .. k
        PROVE  g[n] = IF n = 0 THEN <<>>
                      ELSE IF n \in places THEN Append(g[n - 1], list[n]) ELSE g[n - 1]
    <3>1. CASE n = k
      BY <1>3, <3>1, <2>1
    <3>2. CASE n # k
      <4>1. n \in 0 .. k - 1 /\ g[n] = f[n] /\ (n # 0 => g[n - 1] = f[n - 1])
        BY <3>2, <2>1
      <4>2. f[n] = IF n = 0 THEN <<>>
                   ELSE IF n \in places THEN Append(f[n - 1], list[n]) ELSE f[n - 1]
        BY <2>2, <4>1 DEF Reading
      <4> QED
        BY <4>1, <4>2
    <3> QED
      BY <3>1, <3>2
  <2>4. Reading(list, places, g, k)
    BY <2>3 DEF Reading
  <2> QED
    BY <1>1, <2>4
<1> QED
  BY <1>2, <1>3

\* A reading holds the elements at the places passed, and no others.
LEMMA ReadingHolds ==
    ASSUME NEW S, NEW list \in Seq(S), NEW places, NEW f, Reading(list, places, f, Len(list)),
           NEW m \in 0 .. Len(list)
    PROVE  /\ f[m] \in Seq(S)
           /\ \A k \in 1 .. Len(f[m]) : \E i \in places \cap (1 .. m) : f[m][k] = list[i]
           /\ \A i \in places \cap (1 .. m) : \E k \in 1 .. Len(f[m]) : f[m][k] = list[i]
<1> DEFINE Good(n) ==
             /\ f[n] \in Seq(S)
             /\ \A k \in 1 .. Len(f[n]) : \E i \in places \cap (1 .. n) : f[n][k] = list[i]
             /\ \A i \in places \cap (1 .. n) : \E k \in 1 .. Len(f[n]) : f[n][k] = list[i]
           Bad == {n \in 0 .. Len(list) : ~Good(n)}
<1>0. Len(list) \in Nat
  OBVIOUS
<1> HIDE DEF Good
<1> SUFFICES ASSUME Bad # {} PROVE FALSE
  BY DEF Good
<1>1. PICK n \in Bad : \A j \in Bad : n <= j
  <2>1. Bad \in SUBSET Nat
    BY <1>0
  <2> QED
    BY <2>1, Least
<1>2. n \in 0 .. Len(list)
  OBVIOUS
<1>3. f[n] = IF n = 0 THEN <<>>
             ELSE IF n \in places THEN Append(f[n - 1], list[n]) ELSE f[n - 1]
  BY <1>2 DEF Reading
<1>4. CASE n = 0
  <2>1. f[n] = <<>> /\ 1 .. n = {}
    BY <1>3, <1>4
  <2>2. f[n] \in Seq(S) /\ Len(f[n]) = 0
    BY <2>1
  <2>3. Good(n)
    BY <2>1, <2>2 DEF Good
  <2> QED
    BY <2>3
<1>5. CASE n # 0
  <2>1. n - 1 \in 0 .. Len(list) /\ n \in 1 .. Len(list) /\ n - 1 \notin Bad
    BY <1>0, <1>1, <1>2, <1>5
  <2>2. Good(n - 1)
    BY <2>1
  <2>3. f[n - 1] \in Seq(S)
    BY <2>2 DEF Good
  <2>4. 1 .. n = (1 .. n - 1) \cup {n}
    BY <2>1
  <2>5. CASE n \notin places
    <3>1. places \cap (1 .. n) = places \cap (1 .. n - 1)
      BY <2>4, <2>5
    <3>2. f[n] = f[n - 1]
      BY <1>3, <1>5, <2>5
    <3> QED
      BY ZenonT(60), <1>1, <2>2, <3>1, <3>2 DEF Good
  <2>6. CASE n \in places
    <3>1. f[n] = Append(f[n - 1], list[n])
      BY <1>3, <1>5, <2>6
    <3>2. list[n] \in S
      BY <2>1
    <3>3. /\ f[n] \in Seq(S)
          /\ Len(f[n]) = Len(f[n - 1]) + 1
          /\ Len(f[n - 1]) \in Nat
          /\ \A k \in 1 .. Len(f[n - 1]) : f[n][k] = f[n - 1][k]
          /\ f[n][Len(f[n - 1]) + 1] = list[n]
      BY <2>3, <3>1, <3>2, AppendProperties
    <3>4. ASSUME NEW k \in 1 .. Len(f[n])
          PROVE  \E i \in places \cap (1 .. n) : f[n][k] = list[i]
      <4>1. CASE k = Len(f[n - 1]) + 1
        BY <2>4, <2>6, <3>3, <4>1
      <4>2. CASE k # Len(f[n - 1]) + 1
        <5>1. k \in 1 .. Len(f[n - 1])
          BY <3>3, <4>2
        <5> QED
          BY <2>2, <2>4, <3>3, <5>1 DEF Good
      <4> QED
        BY <4>1, <4>2
    <3>5. ASSUME NEW i \in places \cap (1 .. n)
          PROVE  \E k \in 1 .. Len(f[n]) : f[n][k] = list[i]
      <4>1. CASE i = n
        <5>1. Len(f[n - 1]) + 1 \in 1 .. Len(f[n])
          BY <3>3
        <5> QED
          BY <3>3, <4>1, <5>1
      <4>2. CASE i # n
        <5>1. i \in places \cap (1 .. n - 1)
          BY <2>4, <4>2
        <5>2. PICK k \in 1 .. Len(f[n - 1]) : f[n - 1][k] = list[i]
          BY <2>2, <5>1 DEF Good
        <5> QED
          BY <3>3, <5>2
      <4> QED
        BY <4>1, <4>2
    <3> QED
      BY <1>1, <3>3, <3>4, <3>5 DEF Good
  <2> QED
    BY <2>5, <2>6
<1> QED
  BY <1>4, <1>5

\* At keeps the elements at the places, and no others.
LEMMA AtHolds ==
    ASSUME NEW S, NEW list \in Seq(S), NEW places
    PROVE  /\ At(list, places) \in Seq(S)
           /\ \A k \in 1 .. Len(At(list, places)) :
                \E i \in places \cap (1 .. Len(list)) : At(list, places)[k] = list[i]
           /\ \A i \in places \cap (1 .. Len(list)) :
                \E k \in 1 .. Len(At(list, places)) : At(list, places)[k] = list[i]
<1> DEFINE f == CHOOSE g : Reading(list, places, g, Len(list))
<1>1. Len(list) \in Nat
  OBVIOUS
<1>2. Reading(list, places, f, Len(list))
  BY <1>1, ReadingExists
<1>3. At(list, places) = f[Len(list)]
  BY DEF At, Reading
<1> HIDE DEF f
<1> QED
  BY <1>1, <1>2, <1>3, ReadingHolds

\* What At reads at one place.
LEMMA AtOne ==
    ASSUME NEW S, NEW list \in Seq(S), NEW i \in 1 .. Len(list)
    PROVE  At(list, {i}) = <<list[i]>>
<1> DEFINE f == CHOOSE g : Reading(list, {i}, g, Len(list))
           Good(n) == f[n] = IF n < i THEN <<>> ELSE <<list[i]>>
           Bad == {n \in 0 .. Len(list) : ~Good(n)}
<1>1. Len(list) \in Nat
  OBVIOUS
<1>2. Reading(list, {i}, f, Len(list))
  BY <1>1, ReadingExists
<1>3. At(list, {i}) = f[Len(list)]
  BY DEF At, Reading
<1> HIDE DEF f
<1>4. Bad = {}
  <2> SUFFICES ASSUME Bad # {} PROVE FALSE
    OBVIOUS
  <2>1. PICK n \in Bad : \A j \in Bad : n <= j
    <3>1. Bad \in SUBSET Nat
      BY <1>1
    <3> HIDE DEF Bad
    <3> QED
      BY <3>1, Least
  <2>2. f[n] = IF n = 0 THEN <<>> ELSE IF n \in {i} THEN Append(f[n - 1], list[n]) ELSE f[n - 1]
    BY <1>2 DEF Reading
  <2>3. CASE n = 0
    BY <2>2, <2>3
  <2>4. CASE n # 0
    <3>1. n - 1 \in 0 .. Len(list) /\ n - 1 \notin Bad
      BY <1>1, <2>1, <2>4
    <3>2. f[n - 1] = IF n - 1 < i THEN <<>> ELSE <<list[i]>>
      BY <3>1
    <3>3. CASE n = i
      <4>1. f[n] = Append(<<>>, list[i])
        BY <2>2, <2>4, <3>2, <3>3
      <4>2. Append(<<>>, list[i]) = <<list[i]>>
        OBVIOUS
      <4> QED
        BY <3>3, <4>1, <4>2
    <3>4. CASE n # i
      BY <1>1, <2>2, <2>4, <3>2, <3>4
    <3> QED
      BY <3>3, <3>4
  <2> QED
    BY <2>3, <2>4
<1>5. Good(Len(list))
  BY <1>1, <1>4
<1> QED
  BY <1>1, <1>3, <1>5

\* RemoveFirst cuts a list at the first place that has the element.
LEMMA RemoveFirstCuts ==
    ASSUME NEW S, NEW list \in Seq(S), NEW x, Contains(list, x)
    PROVE  \E i \in 1 .. Len(list) :
             /\ list[i] = x
             /\ \A j \in 1 .. i - 1 : list[j] # x
             /\ RemoveFirst(list, x) = SubSeq(list, 1, i - 1) \o SubSeq(list, i + 1, Len(list))
<1> DEFINE I == {i \in 1 .. Len(list) : list[i] = x}
           n == Min(I)
<1>1. I # {} /\ I \in SUBSET Nat
  BY DEF Contains
<1>2. PICK i \in I : \A j \in I : i <= j
  <2> HIDE DEF I
  <2> QED
    BY <1>1, Least
<1>3. n \in I /\ \A j \in I : n <= j
  <2> HIDE DEF I
  <2> QED
    BY <1>2 DEF Min
<1>4. SelectInSeq(list, LAMBDA v : v = x) = n
  BY <1>1 DEF SelectInSeq
<1>5. RemoveFirst(list, x) = RemoveAt(list, n)
  BY <1>1, <1>4 DEF RemoveFirst
<1>6. n \in 1 .. Len(list) /\ list[n] = x
  <2> HIDE DEF n
  <2> QED
    BY <1>3
<1>7. ASSUME NEW j \in 1 .. n - 1 PROVE list[j] # x
  <2> HIDE DEF n
  <2>1. j \in 1 .. Len(list) /\ ~ (n <= j)
    BY <1>6
  <2> QED
    BY <1>3, <2>1
<1> HIDE DEF n, I
<1> QED
  BY <1>5, <1>6, <1>7 DEF RemoveAt

\* A list without one of its elements: what comes before its first occurrence
\* stays in place, what comes after moves up by one.
LEMMA RemoveFirstHolds ==
    ASSUME NEW S, NEW list \in Seq(S), NEW x, Contains(list, x)
    PROVE  /\ RemoveFirst(list, x) \in Seq(S)
           /\ Len(RemoveFirst(list, x)) = Len(list) - 1
           /\ \E i \in 1 .. Len(list) :
                /\ list[i] = x
                /\ \A j \in 1 .. i - 1 : list[j] # x
                /\ \A k \in 1 .. Len(list) - 1 :
                     RemoveFirst(list, x)[k] = IF k < i THEN list[k] ELSE list[k + 1]
<1>1. PICK i \in 1 .. Len(list) :
        /\ list[i] = x
        /\ \A j \in 1 .. i - 1 : list[j] # x
        /\ RemoveFirst(list, x) = SubSeq(list, 1, i - 1) \o SubSeq(list, i + 1, Len(list))
  BY RemoveFirstCuts
<1> DEFINE front == SubSeq(list, 1, i - 1)
           back == SubSeq(list, i + 1, Len(list))
<1>2. Len(list) \in Nat /\ i \in Nat
  OBVIOUS
<1>3. front \in Seq(S) /\ Len(front) = i - 1 /\ \A k \in 1 .. i - 1 : front[k] = list[k]
  BY <1>2, SubSeqProperties
<1>4. back \in Seq(S) /\ Len(back) = Len(list) - i /\ \A k \in 1 .. Len(list) - i : back[k] = list[i + k]
  <2>1. i + 1 \in Int /\ i + 1 <= Len(list) + 1
    BY <1>2
  <2>2. CASE i < Len(list)
    BY <1>2, <2>1, <2>2, SubSeqProperties
  <2>3. CASE i = Len(list)
    <3>1. back = <<>>
      BY <1>2, <2>3, SubSeqProperties
    <3> QED
      BY <1>2, <2>3, <3>1
  <2> QED
    BY <1>2, <2>2, <2>3
<1> HIDE DEF front, back
<1>5. RemoveFirst(list, x) = front \o back
  BY <1>1 DEF front, back
<1>6. /\ front \o back \in Seq(S)
      /\ Len(front \o back) = Len(list) - 1
      /\ \A k \in 1 .. Len(list) - 1 : (front \o back)[k] = IF k < i THEN list[k] ELSE list[k + 1]
  <2>1. /\ front \o back \in Seq(S)
        /\ Len(front \o back) = Len(front) + Len(back)
        /\ \A k \in 1 .. Len(front) + Len(back) :
             (front \o back)[k] = IF k <= Len(front) THEN front[k] ELSE back[k - Len(front)]
    BY <1>3, <1>4, ConcatProperties
  <2>2. ASSUME NEW k \in 1 .. Len(list) - 1
        PROVE  (front \o back)[k] = IF k < i THEN list[k] ELSE list[k + 1]
    <3>1. CASE k < i
      BY <1>2, <1>3, <1>4, <2>1, <3>1
    <3>2. CASE ~(k < i)
      <4>1. k - (i - 1) \in 1 .. Len(list) - i /\ i + (k - (i - 1)) = k + 1
        BY <1>2, <3>2
      <4>2. back[k - (i - 1)] = list[k + 1]
        BY <1>4, <4>1
      <4>3. k \in 1 .. Len(front) + Len(back) /\ ~(k <= Len(front)) /\ k - Len(front) = k - (i - 1)
        BY <1>2, <1>3, <1>4, <3>2
      <4>4. (front \o back)[k] = back[k - (i - 1)]
        BY <2>1, <4>3
      <4> QED
        BY <3>2, <4>2, <4>4
    <3> QED
      BY <3>1, <3>2
  <2> QED
    BY <1>2, <1>3, <1>4, <2>1, <2>2
<1> QED
  BY <1>1, <1>5, <1>6

\* Whatever is removed or not, the other elements stay, and none is new.
LEMMA RemoveFirstKeeps ==
    ASSUME NEW S, NEW list \in Seq(S), NEW x
    PROVE  /\ RemoveFirst(list, x) \in Seq(S)
           /\ \A k \in 1 .. Len(RemoveFirst(list, x)) : Contains(list, RemoveFirst(list, x)[k])
           /\ \A k \in 1 .. Len(list) : list[k] # x => Contains(RemoveFirst(list, x), list[k])
<1>1. CASE ~Contains(list, x)
  <2>1. RemoveFirst(list, x) = list
    BY <1>1 DEF RemoveFirst, Contains
  <2> QED
    BY <2>1 DEF Contains
<1>2. CASE Contains(list, x)
  <2> DEFINE rest == RemoveFirst(list, x)
  <2>0. rest \in Seq(S) /\ Len(rest) = Len(list) - 1
    BY <1>2, RemoveFirstHolds
  <2>1. PICK i \in 1 .. Len(list) :
          list[i] = x /\ \A k \in 1 .. Len(list) - 1 : rest[k] = IF k < i THEN list[k] ELSE list[k + 1]
    BY <1>2, RemoveFirstHolds
  <2> HIDE DEF rest
  <2>2. ASSUME NEW k \in 1 .. Len(rest) PROVE Contains(list, rest[k])
    <3>1. k \in 1 .. Len(list) /\ k + 1 \in 1 .. Len(list)
      BY <2>0
    <3> QED
      BY <2>0, <2>1, <3>1 DEF Contains
  <2>3. ASSUME NEW k \in 1 .. Len(list), list[k] # x PROVE Contains(rest, list[k])
    <3>1. k # i
      BY <2>1, <2>3
    <3>2. CASE k < i
      <4>1. k \in 1 .. Len(rest) /\ rest[k] = list[k]
        BY <2>0, <2>1, <3>2
      <4> QED
        BY <4>1 DEF Contains
    <3>3. CASE k > i
      <4>1. k - 1 \in 1 .. Len(rest) /\ rest[k - 1] = list[k]
        <5>1. k - 1 \in 1 .. Len(list) - 1 /\ ~(k - 1 < i) /\ (k - 1) + 1 = k
          BY <3>3
        <5> QED
          BY <2>0, <2>1, <5>1
      <4> QED
        BY <4>1 DEF Contains
    <3> QED
      BY <3>1, <3>2, <3>3
  <2> QED
    BY <2>0, <2>2, <2>3 DEF rest
<1> QED
  BY <1>1, <1>2

=============================================================================
