----------------------------- MODULE DataLemmas -----------------------------
(***************************************************************************)
(* What the proofs about queues and histories need of numbers, sequences   *)
(* and finite sets: induction, with a set in the place of a predicate, and *)
(* how many elements of a sequence are in a set.                           *)
(***************************************************************************)
EXTENDS Integers, FiniteSets, Sequences, SequencesExt, FiniteSetTheorems, SequenceTheorems,
        WellFoundedInduction, TLAPS

-----------------------------------------------------------------------------
(* Induction                                                               *)

\* A set of numbers has a least one.
LEMMA LeastOf ==
  ASSUME NEW T, T \subseteq Nat, T # {}
  PROVE  \E x \in T : \A y \in T : x <= y
<1>1. IsWellFoundedOn(OpToRel(<, Nat), Nat)
  BY NatLessThanWellFounded
<1>2. PICK x \in T : \A y \in T : ~ (<<y, x>> \in OpToRel(<, Nat))
  BY <1>1, WFMin
<1>3. \A y \in T : ~ (y < x)
  BY <1>2 DEF OpToRel
<1> QED BY <1>3

\* Induction over the numbers.
LEMMA SetInduction ==
  ASSUME NEW S, 0 \in S, \A n \in Nat : n \in S => n + 1 \in S
  PROVE  Nat \subseteq S
<1> SUFFICES ASSUME Nat \ S # {} PROVE FALSE
  OBVIOUS
<1>1. PICK x \in Nat \ S : \A y \in Nat \ S : x <= y
  BY LeastOf
<1>2. x - 1 \in Nat /\ x - 1 \in S
  BY <1>1
<1> QED BY <1>1, <1>2

-----------------------------------------------------------------------------
(* Counting                                                                *)

\* The places of s at which there is an element of C.
Places(s, C) == {i \in DOMAIN s : s[i] \in C}

CountIn(s, C) == Cardinality(Places(s, C))

LEMMA FirstNumbers ==
  ASSUME NEW n \in Nat
  PROVE  IsFiniteSet(1..n) /\ Cardinality(1..n) = n
<1>1. IsFiniteSet(1..n) /\ Cardinality(1..n) = IF 1 > n THEN 0 ELSE n - 1 + 1
  BY FS_Interval
<1> QED BY <1>1

LEMMA PlacesAreFinite ==
  ASSUME NEW S, NEW s \in Seq(S), NEW C
  PROVE  /\ IsFiniteSet(Places(s, C)) /\ Places(s, C) \subseteq 1..Len(s)
         /\ CountIn(s, C) \in 0..Len(s)
<1>1. Places(s, C) \in SUBSET (1..Len(s)) /\ Len(s) \in Nat
  BY DEF Places
<1>2. IsFiniteSet(1..Len(s)) /\ Cardinality(1..Len(s)) = Len(s)
  BY <1>1, FirstNumbers
<1>3. IsFiniteSet(Places(s, C)) /\ CountIn(s, C) <= Len(s)
  BY <1>1, <1>2, FS_Subset DEF CountIn
<1>4. CountIn(s, C) \in Nat
  BY <1>3, FS_CardinalityType DEF CountIn
<1> QED BY <1>1, <1>3, <1>4

LEMMA CountEmpty == ASSUME NEW C PROVE CountIn(<<>>, C) = 0
  BY FS_EmptySet DEF CountIn, Places

LEMMA CountAppend ==
  ASSUME NEW S, NEW s \in Seq(S), NEW e \in S, NEW C
  PROVE  CountIn(Append(s, e), C) = CountIn(s, C) + (IF e \in C THEN 1 ELSE 0)
<1> DEFINE n == Len(s) + 1
<1>1. /\ Append(s, e) \in Seq(S) /\ Len(Append(s, e)) = n /\ Len(s) \in Nat
      /\ \A i \in 1..Len(s) : Append(s, e)[i] = s[i]
      /\ Append(s, e)[n] = e
  BY AppendProperties
<1>2. DOMAIN Append(s, e) = 1..n /\ DOMAIN s = 1..Len(s)
  BY <1>1
<1>3. Places(Append(s, e), C) = IF e \in C THEN Places(s, C) \cup {n} ELSE Places(s, C)
  BY <1>1, <1>2 DEF Places
<1>4. n \notin Places(s, C) /\ IsFiniteSet(Places(s, C)) /\ CountIn(s, C) \in Nat
  BY <1>1, PlacesAreFinite
<1>5. Cardinality(Places(s, C) \cup {n}) = CountIn(s, C) + 1
  <2> HIDE DEF n
  <2> QED BY <1>4, FS_AddElement DEF CountIn
<1>6. CASE e \in C
  BY <1>3, <1>5, <1>6 DEF CountIn
<1>7. CASE e \notin C
  BY <1>3, <1>4, <1>7 DEF CountIn
<1> QED BY <1>6, <1>7

\* One element takes the place of another.
LEMMA CountExcept ==
  ASSUME NEW S, NEW s \in Seq(S), NEW i \in 1..Len(s), NEW e \in S, NEW C
  PROVE  CountIn([s EXCEPT ![i] = e], C)
           = CountIn(s, C) - (IF s[i] \in C THEN 1 ELSE 0) + (IF e \in C THEN 1 ELSE 0)
<1> DEFINE r == [s EXCEPT ![i] = e]
           rest == Places(s, C) \ {i}
<1>1. DOMAIN r = DOMAIN s /\ i \in DOMAIN s /\ r[i] = e /\ \A j \in DOMAIN s : j # i => r[j] = s[j]
  OBVIOUS
<1>2. IsFiniteSet(Places(s, C)) /\ CountIn(s, C) \in Nat
  BY PlacesAreFinite
<1>3. /\ IsFiniteSet(rest)
      /\ Cardinality(rest) = CountIn(s, C) - (IF s[i] \in C THEN 1 ELSE 0)
  <2>1. /\ IsFiniteSet(rest)
        /\ Cardinality(rest) = IF i \in Places(s, C) THEN Cardinality(Places(s, C)) - 1
                              ELSE Cardinality(Places(s, C))
    BY <1>2, FS_RemoveElement
  <2>2. i \in Places(s, C) <=> s[i] \in C
    BY <1>1 DEF Places
  <2> QED BY <1>2, <2>1, <2>2 DEF CountIn
<1>4. Places(r, C) = IF e \in C THEN rest \cup {i} ELSE rest
  BY <1>1 DEF Places
<1>5. i \notin rest
  OBVIOUS
<1>6. CountIn(r, C) = Cardinality(rest) + (IF e \in C THEN 1 ELSE 0)
  <2> HIDE DEF rest, r
  <2>1. CASE e \in C
    BY <1>3, <1>4, <1>5, <2>1, FS_AddElement DEF CountIn
  <2>2. CASE e \notin C
    <3>1. Places(r, C) = rest /\ Cardinality(rest) \in Nat
      BY <1>3, <1>4, <2>2, FS_CardinalityType
    <3> QED BY <2>2, <3>1 DEF CountIn
  <2> QED BY <2>1, <2>2
<1> QED BY <1>3, <1>6

LEMMA CountConcat ==
  ASSUME NEW S, NEW s \in Seq(S), NEW t \in Seq(S), NEW C
  PROVE  CountIn(s \o t, C) = CountIn(s, C) + CountIn(t, C)
<1> DEFINE m == Len(s)
           moved == {m + i : i \in Places(t, C)}
           f == [i \in Places(t, C) |-> m + i]
<1>1. /\ m \in Nat /\ Len(t) \in Nat /\ DOMAIN s = 1..m /\ DOMAIN t = 1..Len(t)
      /\ DOMAIN (s \o t) = 1..m + Len(t)
      /\ \A i \in 1..m : (s \o t)[i] = s[i]
      /\ \A i \in 1..Len(t) : (s \o t)[m + i] = t[i]
  <2>1. s \o t \in Seq(S) /\ Len(s \o t) = m + Len(t)
    BY ConcatProperties
  <2>2. \A i \in 1..m + Len(t) : (s \o t)[i] = IF i <= m THEN s[i] ELSE t[i - m]
    BY ConcatProperties
  <2> QED BY <2>1, <2>2
<1>2. Places(t, C) \subseteq 1..Len(t) /\ Places(s, C) \subseteq 1..m
  BY PlacesAreFinite
<1>3. Places(s \o t, C) = Places(s, C) \cup moved
  <2>1. ASSUME NEW i \in Places(s \o t, C) PROVE i \in Places(s, C) \cup moved
    <3>1. i \in 1..m + Len(t) /\ (s \o t)[i] \in C
      BY <1>1, <2>1 DEF Places
    <3>2. CASE i <= m
      BY <1>1, <3>1, <3>2 DEF Places
    <3>3. CASE i > m
      <4>1. i - m \in 1..Len(t) /\ i = m + (i - m)
        BY <1>1, <3>1, <3>3
      <4>2. i - m \in Places(t, C)
        BY <1>1, <3>1, <4>1 DEF Places
      <4> QED BY <4>1, <4>2
    <3> QED BY <1>1, <3>1, <3>2, <3>3
  <2>2. Places(s, C) \subseteq Places(s \o t, C)
    BY <1>1 DEF Places
  <2>3. moved \subseteq Places(s \o t, C)
    BY <1>1 DEF Places
  <2> QED BY <2>1, <2>2, <2>3
<1>4. IsFiniteSet(moved) /\ Cardinality(moved) = CountIn(t, C)
  <2>1. f \in [Places(t, C) -> moved]
    OBVIOUS
  <2>2. \A i, j \in Places(t, C) : f[i] = f[j] => i = j
    BY <1>1, <1>2
  <2>3. \A x \in moved : \E i \in Places(t, C) : f[i] = x
    OBVIOUS
  <2>4. f \in Bijection(Places(t, C), moved)
    BY <2>1, <2>2, <2>3 DEF Bijection, Injection, Surjection, IsInjective
  <2>5. ExistsBijection(Places(t, C), moved)
    BY <2>4 DEF ExistsBijection
  <2> HIDE DEF moved
  <2> QED BY <2>5, PlacesAreFinite, FS_Bijection DEF CountIn
<1>5. Places(s, C) \cap moved = {}
  BY <1>1, <1>2
<1>6. CountIn(s, C) \in Nat /\ CountIn(t, C) \in Nat /\ IsFiniteSet(Places(s, C))
  BY PlacesAreFinite
<1> HIDE DEF moved
<1>7. Cardinality(Places(s, C) \cup moved) = CountIn(s, C) + CountIn(t, C) - Cardinality({})
  BY <1>4, <1>5, <1>6, FS_Union DEF CountIn
<1> QED BY <1>3, <1>6, <1>7, FS_EmptySet DEF CountIn

\* Cut in two.
LEMMA CountSplit ==
  ASSUME NEW S, NEW s \in Seq(S), NEW m \in 0..Len(s), NEW C
  PROVE  /\ SubSeq(s, 1, m) \in Seq(S) /\ SubSeq(s, m + 1, Len(s)) \in Seq(S)
         /\ Len(SubSeq(s, 1, m)) = m /\ Len(SubSeq(s, m + 1, Len(s))) = Len(s) - m
         /\ SubSeq(s, 1, m) \o SubSeq(s, m + 1, Len(s)) = s
         /\ CountIn(s, C) = CountIn(SubSeq(s, 1, m), C) + CountIn(SubSeq(s, m + 1, Len(s)), C)
<1>1. Len(s) \in Nat /\ m \in Nat /\ \A i \in 1..Len(s) : s[i] \in S
  BY ElementOfSeq
<1>2. SubSeq(s, 1, m) \in Seq(S) /\ Len(SubSeq(s, 1, m)) = m
  BY <1>1, SubSeqProperties
<1>3. SubSeq(s, m + 1, Len(s)) \in Seq(S) /\ Len(SubSeq(s, m + 1, Len(s))) = Len(s) - m
  BY <1>1, SubSeqProperties
<1>4. SubSeq(s, 1, m) \o SubSeq(s, m + 1, Len(s)) = s
  <2>1. SubSeq(s, 1, m) \o SubSeq(s, m + 1, Len(s)) = SubSeq(s, 1, Len(s))
    <3>1. 1 \in 1..Len(s) + 1 /\ m \in 1 - 1..Len(s) /\ Len(s) \in m..Len(s)
      BY <1>1
    <3> QED BY <3>1, ConcatAdjacentSubSeq
  <2> QED BY <2>1, SubSeqFull
<1>5. CountIn(SubSeq(s, 1, m) \o SubSeq(s, m + 1, Len(s)), C)
        = CountIn(SubSeq(s, 1, m), C) + CountIn(SubSeq(s, m + 1, Len(s)), C)
  BY <1>2, <1>3, CountConcat
<1> QED BY <1>2, <1>3, <1>4, <1>5

LEMMA CountSingle ==
  ASSUME NEW e, NEW C
  PROVE  CountIn(<<e>>, C) = IF e \in C THEN 1 ELSE 0
<1>1. <<>> \in Seq({e}) /\ Append(<<>>, e) = <<e>>
  OBVIOUS
<1>2. e \in {e}
  OBVIOUS
<1>3. CountIn(Append(<<>>, e), C) = CountIn(<<>>, C) + (IF e \in C THEN 1 ELSE 0)
  BY <1>1, <1>2, CountAppend
<1>4. CountIn(<<>>, C) = 0
  BY CountEmpty
<1> QED BY <1>1, <1>3, <1>4

LEMMA CountHeadTail ==
  ASSUME NEW S, NEW s \in Seq(S), s # <<>>, NEW C
  PROVE  /\ Head(s) \in S /\ Tail(s) \in Seq(S) /\ s = <<Head(s)>> \o Tail(s)
         /\ CountIn(s, C) = (IF Head(s) \in C THEN 1 ELSE 0) + CountIn(Tail(s), C)
<1>1. Head(s) \in S /\ Tail(s) \in Seq(S) /\ s = <<Head(s)>> \o Tail(s) /\ <<Head(s)>> \in Seq(S)
  OBVIOUS
<1>2. CountIn(<<Head(s)>> \o Tail(s), C) = CountIn(<<Head(s)>>, C) + CountIn(Tail(s), C)
  BY <1>1, CountConcat
<1>3. CountIn(<<Head(s)>>, C) = IF Head(s) \in C THEN 1 ELSE 0
  BY CountSingle
<1> QED BY <1>1, <1>2, <1>3

\* What a sequence holds from place i to place j.
Stretch(h, i, j) == {h[m] : m \in i..j}

\* The end of a sequence is without repetitions: the elements there are as many as its places.
LEMMA DistinctStretch ==
  ASSUME NEW S, NEW h \in Seq(S), NEW s \in Seq(S), NEW a \in Nat, NEW i \in 1..a,
         Len(h) = a + Len(s), \A m \in 1..Len(s) : h[a + m] = s[m],
         \A m, n \in DOMAIN s : s[m] = s[n] => m = n
  PROVE  Cardinality(Stretch(h, i + 1, Len(h))) >= Len(s)
<1> DEFINE between == Stretch(h, i + 1, Len(h))
           all == {s[m] : m \in 1..Len(s)}
<1>1. Len(s) \in Nat /\ Len(h) \in Nat /\ s \in [1..Len(s) -> S]
  OBVIOUS
<1>2. IsFiniteSet(1..Len(s)) /\ Cardinality(1..Len(s)) = Len(s)
  BY <1>1, FirstNumbers
<1>3. [m \in 1..Len(s) |-> s[m]] \in Bijection(1..Len(s), all)
  BY <1>1 DEF Bijection, Injection, Surjection, IsInjective
<1>4. IsFiniteSet(all) /\ Cardinality(all) = Len(s)
  <2>1. ExistsBijection(1..Len(s), all)
    BY <1>3 DEF ExistsBijection
  <2> HIDE DEF all
  <2> QED BY <1>2, <2>1, FS_Bijection
<1>5. all \subseteq between
  <2> SUFFICES ASSUME NEW m \in 1..Len(s) PROVE s[m] \in between
    OBVIOUS
  <2>1. a + m \in i + 1..Len(h) /\ h[a + m] = s[m]
    BY <1>1
  <2> QED BY <2>1 DEF Stretch
<1>6. IsFiniteSet(between)
  <2>1. IsFiniteSet(i + 1..Len(h))
    BY <1>1, FS_Interval
  <2>2. [m \in i + 1..Len(h) |-> h[m]] \in Surjection(i + 1..Len(h), between)
    BY DEF Surjection, Stretch
  <2> HIDE DEF between
  <2> QED BY <2>1, <2>2, FS_Surjection
<1> HIDE DEF all, between
<1>7. Cardinality(all) <= Cardinality(between)
  BY <1>5, <1>6, FS_Subset
<1>8. Cardinality(between) \in Nat
  BY <1>6, FS_CardinalityType
<1> QED BY <1>1, <1>4, <1>7, <1>8 DEF between

-----------------------------------------------------------------------------
(* Order                                                                   *)

\* A bounded set of numbers has a greatest one.
LEMMA GreatestOf ==
  ASSUME NEW T, T \subseteq Nat, T # {}, NEW b \in Nat, \A x \in T : x <= b
  PROVE  \E x \in T : \A y \in T : y <= x
<1> DEFINE below == {b - x : x \in T}
<1>1. below \subseteq Nat /\ below # {}
  <2>1. \A x \in T : b - x \in Nat
    OBVIOUS
  <2> QED BY <2>1
<1>2. PICK z \in below : \A y \in below : z <= y
  <2> HIDE DEF below
  <2> QED BY <1>1, LeastOf
<1>3. PICK x \in T : z = b - x
  BY <1>2
<1>4. \A y \in T : b - x <= b - y
  BY <1>2, <1>3
<1> QED BY <1>4

\* R orders S: of two members one comes before the other.
Orders(R, S) ==
  /\ \A x, y \in S : x # y => <<x, y>> \in R \/ <<y, x>> \in R
  /\ \A x, y, z \in S : <<x, y>> \in R /\ <<y, z>> \in R => <<x, z>> \in R

LEMMA FirstInOrder ==
  ASSUME NEW R, NEW S, Orders(R, S), NEW U \in SUBSET S, IsFiniteSet(U), U # {}
  PROVE  \E x \in U : \A y \in U \ {x} : <<x, y>> \in R
<1> DEFINE Fine(n) == \A T \in SUBSET S : IsFiniteSet(T) /\ Cardinality(T) = n + 1 =>
                        \E x \in T : \A y \in T \ {x} : <<x, y>> \in R
           F == {n \in Nat : Fine(n)}
<1>1. 0 \in F
  <2> SUFFICES ASSUME NEW T \in SUBSET S, IsFiniteSet(T), Cardinality(T) = 1
               PROVE  \E x \in T : \A y \in T \ {x} : <<x, y>> \in R
    OBVIOUS
  <2>1. PICK x : T = {x}
    BY FS_Singleton
  <2> QED BY <2>1
<1>2. ASSUME NEW n \in Nat, n \in F PROVE n + 1 \in F
  <2> SUFFICES ASSUME NEW T \in SUBSET S, IsFiniteSet(T), Cardinality(T) = n + 2
               PROVE  \E x \in T : \A y \in T \ {x} : <<x, y>> \in R
    <3>1. n + 1 \in Nat /\ (n + 1) + 1 = n + 2
      OBVIOUS
    <3> QED BY <3>1
  <2>1. PICK z : z \in T
    <3>1. T # {}
      BY FS_EmptySet
    <3> QED BY <3>1
  <2>2. IsFiniteSet(T \ {z}) /\ Cardinality(T \ {z}) = n + 1
    <3>1. Cardinality(T \ {z}) = Cardinality(T) - 1 /\ IsFiniteSet(T \ {z})
      BY <2>1, FS_RemoveElement
    <3> QED BY <3>1
  <2>3. PICK x \in T \ {z} : \A y \in (T \ {z}) \ {x} : <<x, y>> \in R
    BY <1>2, <2>2
  <2>4. CASE <<x, z>> \in R
    BY <2>3, <2>4
  <2>5. CASE <<z, x>> \in R
    <3>1. \A y \in T \ {z} : <<z, y>> \in R
      BY <2>1, <2>3, <2>5 DEF Orders
    <3> QED BY <2>1, <3>1
  <2> QED BY <2>1, <2>3, <2>4, <2>5 DEF Orders
<1>3. Nat \subseteq F
  <2> HIDE DEF F
  <2> QED BY <1>1, <1>2, SetInduction
<1>4. Cardinality(U) \in Nat /\ Cardinality(U) # 0
  BY FS_CardinalityType, FS_EmptySet
<1>5. Cardinality(U) - 1 \in Nat /\ Cardinality(U) = (Cardinality(U) - 1) + 1
  BY <1>4
<1>6. Fine(Cardinality(U) - 1)
  BY <1>3, <1>5
<1> QED BY <1>5, <1>6

\* A finite set can be written down in any order of its members.
LEMMA SortedSequence ==
  ASSUME NEW R, NEW S, Orders(R, S), IsFiniteSet(S)
  PROVE  \E s \in [1..Cardinality(S) -> S] :
           \A i, j \in 1..Cardinality(S) : i < j => <<s[i], s[j]>> \in R
<1> DEFINE Sorted(T, n, s) == \A i, j \in 1..n : i < j => <<s[i], s[j]>> \in R /\ s[i] # s[j]
           Fine(n) == \A T \in SUBSET S : IsFiniteSet(T) /\ Cardinality(T) = n =>
                        \E s \in [1..n -> T] : Sorted(T, n, s)
           F == {n \in Nat : Fine(n)}
<1>1. 0 \in F
  <2> SUFFICES ASSUME NEW T \in SUBSET S PROVE \E s \in [1..0 -> T] : Sorted(T, 0, s)
    OBVIOUS
  <2>1. [i \in 1..0 |-> i] \in [1..0 -> T]
    OBVIOUS
  <2>2. Sorted(T, 0, [i \in 1..0 |-> i])
    OBVIOUS
  <2> HIDE DEF Sorted
  <2> QED BY <2>1, <2>2
<1>2. ASSUME NEW n \in Nat, n \in F PROVE n + 1 \in F
  <2> SUFFICES ASSUME NEW T \in SUBSET S, IsFiniteSet(T), Cardinality(T) = n + 1
               PROVE  \E s \in [1..n + 1 -> T] : Sorted(T, n + 1, s)
    OBVIOUS
  <2>1. PICK x \in T : \A y \in T \ {x} : <<x, y>> \in R
    <3>1. T # {}
      BY FS_EmptySet
    <3> QED BY <3>1, FirstInOrder
  <2>2. IsFiniteSet(T \ {x}) /\ Cardinality(T \ {x}) = n
    <3>1. Cardinality(T \ {x}) = Cardinality(T) - 1 /\ IsFiniteSet(T \ {x})
      BY <2>1, FS_RemoveElement
    <3> QED BY <3>1
  <2>3. PICK r \in [1..n -> T \ {x}] : Sorted(T \ {x}, n, r)
    BY <1>2, <2>2
  <2> DEFINE s == [i \in 1..n + 1 |-> IF i = 1 THEN x ELSE r[i - 1]]
  <2>4. \A i \in 1..n + 1 : i # 1 => i - 1 \in 1..n /\ s[i] = r[i - 1] /\ s[i] \in T \ {x}
    OBVIOUS
  <2>5. s[1] = x /\ s \in [1..n + 1 -> T]
    BY <2>1, <2>4
  <2>6. Sorted(T, n + 1, s)
    <3> SUFFICES ASSUME NEW i \in 1..n + 1, NEW j \in 1..n + 1, i < j
                 PROVE  <<s[i], s[j]>> \in R /\ s[i] # s[j]
      OBVIOUS
    <3> HIDE DEF s
    <3>1. j # 1 /\ s[j] \in T \ {x} /\ j - 1 \in 1..n /\ s[j] = r[j - 1]
      BY <2>4
    <3>2. CASE i = 1
      BY <2>1, <2>5, <3>1, <3>2
    <3>3. CASE i # 1
      <4>1. i - 1 \in 1..n /\ s[i] = r[i - 1] /\ i - 1 < j - 1
        BY <2>4, <3>3
      <4> QED BY <2>3, <3>1, <4>1
    <3> QED BY <3>2, <3>3
  <2> QED BY <2>5, <2>6
<1>3. Nat \subseteq F
  <2> HIDE DEF F
  <2> QED BY <1>1, <1>2, SetInduction
<1>4. Cardinality(S) \in Nat
  BY FS_CardinalityType
<1>5. Fine(Cardinality(S))
  BY <1>3, <1>4
<1> QED BY <1>5
=============================================================================
