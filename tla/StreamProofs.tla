---------------------------- MODULE StreamProofs ----------------------------
(***************************************************************************)
(* Proofs about the event stream and the output of turns.  The stream's    *)
(* invariant is about what a consumer has read and will read as one        *)
(* sequence, and is kept by each of the four steps of #enqueue on its own. *)
(* That of the output relates what the chat shows to what the calls under  *)
(* way are about to show.                                                  *)
(***************************************************************************)
EXTENDS EventNormalizer, TurnOutput, DataLemmas

Ev == [type : EventType, turn : Turn \cup {NoTurn}, n : Nat]

Deltas == {e \in Ev : IsDelta(e)}
Reals == {e \in Ev : IsReal(e)}
IsGap(e) == e.type = "overflow_delta"
Gaps == {e \in Ev : IsGap(e)}
Ends(t) == {e \in Ev : e.turn = t /\ e.type \in {"turn_terminal", "turn_lost"}}

-----------------------------------------------------------------------------
(* Order of arrival                                                        *)

Rising(s) ==
  \A i, j \in DOMAIN s : i < j /\ IsReal(s[i]) /\ IsReal(s[j]) => s[i].n < s[j].n

Below(s, r) ==
  \A i \in DOMAIN s, j \in DOMAIN r : IsReal(s[i]) /\ IsReal(r[j]) => s[i].n < r[j].n

UpTo(s, k) == \A i \in DOMAIN s : IsReal(s[i]) => s[i].n <= k

LEMMA ConcatPlaces ==
  ASSUME NEW S, NEW s \in Seq(S), NEW r \in Seq(S)
  PROVE  /\ s \o r \in Seq(S) /\ Len(s \o r) = Len(s) + Len(r)
         /\ Len(s) \in Nat /\ Len(r) \in Nat /\ Len(s \o r) \in Nat
         /\ DOMAIN s = 1..Len(s) /\ DOMAIN r = 1..Len(r) /\ DOMAIN (s \o r) = 1..Len(s) + Len(r)
         /\ \A i \in 1..Len(s) : (s \o r)[i] = s[i]
         /\ \A i \in 1..Len(r) : (s \o r)[Len(s) + i] = r[i]
         /\ \A i \in 1..Len(s) + Len(r) : i > Len(s) =>
              i - Len(s) \in 1..Len(r) /\ (s \o r)[i] = r[i - Len(s)]
<1>1. s \o r \in Seq(S) /\ Len(s \o r) = Len(s) + Len(r)
  BY ConcatProperties
<1>2. \A i \in 1..Len(s) + Len(r) : (s \o r)[i] = IF i <= Len(s) THEN s[i] ELSE r[i - Len(s)]
  BY ConcatProperties
<1> QED BY <1>1, <1>2

LEMMA RisingConcat ==
  ASSUME NEW s \in Seq(Ev), NEW r \in Seq(Ev)
  PROVE  Rising(s \o r) <=> Rising(s) /\ Rising(r) /\ Below(s, r)
<1> DEFINE u == s \o r
           a == Len(s)
           c == Len(r)
<1>1. /\ a \in Nat /\ c \in Nat /\ DOMAIN s = 1..a /\ DOMAIN r = 1..c /\ DOMAIN u = 1..a + c
      /\ \A i \in 1..a : u[i] = s[i]
      /\ \A i \in 1..c : u[a + i] = r[i]
      /\ \A i \in 1..a + c : i > a => i - a \in 1..c /\ u[i] = r[i - a]
  BY ConcatPlaces
<1> HIDE DEF u, a, c
<1>2. ASSUME Rising(u) PROVE Rising(s) /\ Rising(r) /\ Below(s, r)
  <2>1. Rising(s)
    BY <1>1, <1>2 DEF Rising
  <2>2. ASSUME NEW i \in 1..c, NEW j \in 1..c, i < j, IsReal(r[i]), IsReal(r[j])
        PROVE  r[i].n < r[j].n
    <3>1. a + i \in DOMAIN u /\ a + j \in DOMAIN u /\ a + i < a + j /\ u[a + i] = r[i] /\ u[a + j] = r[j]
      BY <1>1, <2>2
    <3> QED BY <1>2, <2>2, <3>1 DEF Rising
  <2>3. ASSUME NEW i \in 1..a, NEW j \in 1..c, IsReal(s[i]), IsReal(r[j])
        PROVE  s[i].n < r[j].n
    <3>1. i \in DOMAIN u /\ a + j \in DOMAIN u /\ i < a + j /\ u[i] = s[i] /\ u[a + j] = r[j]
      BY <1>1, <2>3
    <3> QED BY <1>2, <2>3, <3>1 DEF Rising
  <2> QED BY <1>1, <2>1, <2>2, <2>3 DEF Rising, Below
<1>3. ASSUME Rising(s), Rising(r), Below(s, r) PROVE Rising(u)
  <2> SUFFICES ASSUME NEW i \in 1..a + c, NEW j \in 1..a + c, i < j, IsReal(u[i]), IsReal(u[j])
               PROVE  u[i].n < u[j].n
    BY <1>1 DEF Rising
  <2>1. CASE j <= a
    <3>1. i \in DOMAIN s /\ j \in DOMAIN s /\ u[i] = s[i] /\ u[j] = s[j]
      BY <1>1, <2>1
    <3> QED BY <1>3, <3>1 DEF Rising
  <2>2. CASE i > a
    <3>1. i - a \in DOMAIN r /\ j - a \in DOMAIN r /\ u[i] = r[i - a] /\ u[j] = r[j - a] /\ i - a < j - a
      BY <1>1, <2>2
    <3> QED BY <1>3, <3>1 DEF Rising
  <2>3. CASE i <= a /\ j > a
    <3>1. i \in DOMAIN s /\ j - a \in DOMAIN r /\ u[i] = s[i] /\ u[j] = r[j - a]
      BY <1>1, <2>3
    <3> QED BY <1>3, <3>1 DEF Below
  <2> QED BY <1>1, <2>1, <2>2, <2>3
<1> QED BY <1>2, <1>3 DEF u

LEMMA BelowConcat ==
  ASSUME NEW s \in Seq(Ev), NEW r \in Seq(Ev), NEW q \in Seq(Ev)
  PROVE  Below(q, s \o r) <=> Below(q, s) /\ Below(q, r)
<1> DEFINE u == s \o r
           a == Len(s)
           c == Len(r)
<1>1. /\ a \in Nat /\ c \in Nat /\ DOMAIN s = 1..a /\ DOMAIN r = 1..c /\ DOMAIN u = 1..a + c
      /\ \A i \in 1..a : u[i] = s[i]
      /\ \A i \in 1..c : u[a + i] = r[i]
      /\ \A i \in 1..a + c : i > a => i - a \in 1..c /\ u[i] = r[i - a]
  BY ConcatPlaces
<1> HIDE DEF u, a, c
<1>2. ASSUME Below(q, u) PROVE Below(q, s) /\ Below(q, r)
  <2>1. \A i \in 1..a : i \in DOMAIN u
    BY <1>1
  <2>2. \A i \in 1..c : a + i \in DOMAIN u
    BY <1>1
  <2> QED BY <1>1, <1>2, <2>1, <2>2 DEF Below
<1>3. ASSUME Below(q, s), Below(q, r) PROVE Below(q, u)
  <2> SUFFICES ASSUME NEW i \in DOMAIN q, NEW j \in 1..a + c, IsReal(q[i]), IsReal(u[j])
               PROVE  q[i].n < u[j].n
    BY <1>1 DEF Below
  <2>1. CASE j <= a
    BY <1>1, <1>3, <2>1 DEF Below
  <2>2. CASE j > a
    BY <1>1, <1>3, <2>2 DEF Below
  <2> QED BY <1>1, <2>1, <2>2
<1> QED BY <1>2, <1>3 DEF u

LEMMA UpToConcat ==
  ASSUME NEW s \in Seq(Ev), NEW r \in Seq(Ev), NEW k \in Nat
  PROVE  UpTo(s \o r, k) <=> UpTo(s, k) /\ UpTo(r, k)
<1> DEFINE u == s \o r
           a == Len(s)
           c == Len(r)
<1>1. /\ a \in Nat /\ c \in Nat /\ DOMAIN s = 1..a /\ DOMAIN r = 1..c /\ DOMAIN u = 1..a + c
      /\ \A i \in 1..a : u[i] = s[i]
      /\ \A i \in 1..c : u[a + i] = r[i]
      /\ \A i \in 1..a + c : i > a => i - a \in 1..c /\ u[i] = r[i - a]
  BY ConcatPlaces
<1> HIDE DEF u, a, c
<1>2. ASSUME UpTo(u, k) PROVE UpTo(s, k) /\ UpTo(r, k)
  <2>1. \A i \in 1..a : i \in DOMAIN u
    BY <1>1
  <2>2. \A i \in 1..c : a + i \in DOMAIN u
    BY <1>1
  <2> QED BY <1>1, <1>2, <2>1, <2>2 DEF UpTo
<1>3. ASSUME UpTo(s, k), UpTo(r, k) PROVE UpTo(u, k)
  <2> SUFFICES ASSUME NEW j \in 1..a + c, IsReal(u[j]) PROVE u[j].n <= k
    BY <1>1 DEF UpTo
  <2>1. CASE j <= a
    BY <1>1, <1>3, <2>1 DEF UpTo
  <2>2. CASE j > a
    BY <1>1, <1>3, <2>2 DEF UpTo
  <2> QED BY <1>1, <2>1, <2>2
<1> QED BY <1>2, <1>3 DEF u

-----------------------------------------------------------------------------
(* What #enqueue keeps                                                     *)

GapsUpTo(s, i) == Cardinality({j \in DOMAIN s : j <= i /\ IsGap(s[j])})

\* Nothing but deltas was replaced, by markers with a running count; the last k
\* entries on are the queue, in which a marker never follows a delta.
InPlace(s, k, acc, lost) ==
  Len(s) = Len(acc) =>
    /\ \A i \in DOMAIN acc :
         \/ s[i] = acc[i]
         \/ IsGap(s[i]) /\ IsDelta(acc[i]) /\ s[i].n = GapsUpTo(s, i)
    /\ CountIn(s, Gaps) = lost
    /\ \A i, j \in DOMAIN s : IsGap(s[i]) /\ IsDelta(s[j]) /\ j > k => i < j

SameEnds(s, acc) == \A t \in Turn : CountIn(s, Ends(t)) = CountIn(acc, Ends(t))

\* What is read (d) and what is still to be read (q), of what was accepted.
Faithful(q, d, acc, lostDeltas, lostAny) ==
  /\ Rising(d \o q)
  /\ UpTo(d \o q, Len(acc))
  /\ CountIn(d \o q, Reals) + lostDeltas + lostAny = Len(acc)
  /\ lostAny = 0 =>
       /\ Len(d \o q) <= Len(acc)
       /\ InPlace(d \o q, Len(d), acc, lostDeltas)
       /\ SameEnds(d \o q, acc)

LEMMA BufferParts ==
  ASSUME NEW b, b \in Buffer
  PROVE  /\ b.queue \in Seq(Ev) /\ b.deltas \in Nat /\ b.lostDeltas \in Nat /\ b.lostAny \in Nat
         /\ b.pending \in Seq(Turn)
         /\ b = [queue |-> b.queue, deltas |-> b.deltas, lostDeltas |-> b.lostDeltas,
                 lostAny |-> b.lostAny, pending |-> b.pending]
  BY DEF Buffer, Ev

LEMMA MarkerKinds ==
  ASSUME NEW n \in Nat, NEW g, g = Event("overflow_delta", NoTurn, n) \/ g = Event("overflow_lifecycle", NoTurn, n)
  PROVE  /\ g \in Ev /\ ~IsReal(g) /\ ~IsDelta(g) /\ g.n = n
         /\ g \notin Reals /\ g \notin Deltas /\ \A t \in Turn : g \notin Ends(t)
         /\ g \in Gaps <=> IsGap(g)
         /\ IsGap(Event("overflow_delta", NoTurn, n)) /\ ~IsGap(Event("overflow_lifecycle", NoTurn, n))
<1>1. g \in [type : EventType, turn : Turn \cup {NoTurn}, n : Nat] /\ g.n = n
      /\ g.type \in Marker /\ g.type # "delta" /\ g.type \notin {"turn_terminal", "turn_lost"}
  BY DEF Event, EventType, Marker
<1>2. g \in Ev /\ ~IsReal(g) /\ ~IsDelta(g)
  BY <1>1 DEF Ev, IsReal, IsDelta
<1>3. g \notin Reals /\ g \notin Deltas /\ \A t \in Turn : g \notin Ends(t)
  BY <1>1, <1>2 DEF Reals, Deltas, Ends
<1>4. g \in Gaps <=> IsGap(g)
  BY <1>2 DEF Gaps
<1>5. IsGap(Event("overflow_delta", NoTurn, n)) /\ ~IsGap(Event("overflow_lifecycle", NoTurn, n))
  BY DEF Event, IsGap
<1> QED BY <1>1, <1>2, <1>3, <1>4, <1>5

LEMMA EventKinds ==
  ASSUME NEW e \in Ev
  PROVE  /\ IsDelta(e) => IsReal(e) /\ ~IsGap(e) /\ \A t \in Turn : e \notin Ends(t)
         /\ IsReal(e) => ~IsGap(e)
         /\ e \in Deltas <=> IsDelta(e)
         /\ e \in Reals <=> IsReal(e)
         /\ e \in Gaps <=> IsGap(e)
         /\ \A t \in Turn : e \in Ends(t) => IsReal(e)
  BY DEF IsReal, IsDelta, IsGap, Deltas, Reals, Gaps, Ends, Marker

\* The oldest delta of a queue that has one.
Oldest(q, i) == IsDelta(q[i]) /\ \A j \in 1..Len(q) : IsDelta(q[j]) => i <= j

LEMMA OldestDelta ==
  ASSUME NEW q \in Seq(Ev), CountIn(q, Deltas) > 0
  PROVE  \E i \in 1..Len(q) : SelectInSeq(q, IsDelta) = i /\ i # 0 /\ Oldest(q, i)
<1> DEFINE I == {i \in 1..Len(q) : IsDelta(q[i])}
<1>1. Places(q, Deltas) # {}
  BY FS_EmptySet DEF CountIn
<1>2. \A i \in 1..Len(q) : q[i] \in Ev
  OBVIOUS
<1>3. I # {} /\ I \subseteq Nat
  <2>1. PICK i \in Places(q, Deltas) : TRUE
    BY <1>1
  <2>2. i \in 1..Len(q) /\ IsDelta(q[i])
    BY <2>1 DEF Places, Deltas
  <2> QED BY <2>2
<1>4. \E x \in I : \A y \in I : x <= y
  <2> HIDE DEF I
  <2> QED BY <1>3, LeastOf
<1>5. SelectInSeq(q, IsDelta) = CHOOSE x \in I : \A y \in I : x <= y
  BY <1>3 DEF SelectInSeq, Min
<1> DEFINE m == CHOOSE x \in I : \A y \in I : x <= y
<1>6. m \in I /\ \A y \in I : m <= y
  <2> HIDE DEF I
  <2> QED BY <1>4
<1> HIDE DEF m
<1>7. SelectInSeq(q, IsDelta) = m
  BY <1>5 DEF m
<1> QED BY <1>6, <1>7 DEF Oldest

LEMMA NoDeltaToDrop ==
  ASSUME NEW q \in Seq(Ev), SelectInSeq(q, IsDelta) = 0
  PROVE  CountIn(q, Deltas) = 0
<1>1. CountIn(q, Deltas) \in Nat
  BY PlacesAreFinite
<1>2. ~ (CountIn(q, Deltas) > 0)
  BY OldestDelta
<1> QED BY <1>1, <1>2

LEMMA ConcatExcept ==
  ASSUME NEW S, NEW d \in Seq(S), NEW q \in Seq(S), NEW i \in 1..Len(q), NEW g \in S
  PROVE  /\ [q EXCEPT ![i] = g] \in Seq(S) /\ Len([q EXCEPT ![i] = g]) = Len(q)
         /\ d \o [q EXCEPT ![i] = g] = [d \o q EXCEPT ![Len(d) + i] = g]
<1>1. PICK r : r = [q EXCEPT ![i] = g]
  OBVIOUS
<1>2. r \in Seq(S) /\ Len(r) = Len(q) /\ r[i] = g /\ \A j \in 1..Len(q) : j # i => r[j] = q[j]
  BY <1>1
<1>3. PICK k : k = Len(d)
  OBVIOUS
<1>4. PICK u, v : u = d \o q /\ v = d \o r
  OBVIOUS
<1>9. r \in Seq(S)
  BY <1>2
<1>5. /\ k \in Nat /\ Len(q) \in Nat /\ DOMAIN u = 1..k + Len(q) /\ u \in Seq(S)
      /\ \A j \in 1..k : u[j] = d[j]
      /\ \A j \in 1..k + Len(q) : j > k => j - k \in 1..Len(q) /\ u[j] = q[j - k]
  BY <1>3, <1>4, ConcatPlaces
<1>6. /\ DOMAIN v = 1..k + Len(r) /\ v \in Seq(S)
      /\ \A j \in 1..k : v[j] = d[j]
      /\ \A j \in 1..k + Len(r) : j > k => j - k \in 1..Len(r) /\ v[j] = r[j - k]
  BY <1>9, <1>3, <1>4, ConcatPlaces
<1>7. ASSUME NEW j \in 1..k + Len(q) PROVE v[j] = IF j = k + i THEN g ELSE u[j]
  <2>1. CASE j <= k
    BY <1>5, <1>6, <2>1
  <2>2. CASE j > k
    <3>1. j - k \in 1..Len(q) /\ v[j] = r[j - k] /\ u[j] = q[j - k]
      BY <1>2, <1>5, <1>6, <2>2
    <3>2. j - k = i <=> j = k + i
      BY <1>5
    <3> QED BY <1>2, <3>1, <3>2
  <2> QED BY <1>5, <2>1, <2>2
<1>8. v = [u EXCEPT ![k + i] = g]
  <2>1. DOMAIN v = DOMAIN u /\ \A j \in DOMAIN u : v[j] = IF j = k + i THEN g ELSE u[j]
    BY <1>2, <1>5, <1>6, <1>7
  <2>2. v = [j \in DOMAIN v |-> v[j]]
    BY <1>6
  <2> QED BY <2>1, <2>2
<1> QED BY <1>1, <1>2, <1>3, <1>4, <1>8

\* At the soft limit a marker takes the place of the oldest delta: the stream.
LEMMA ReplaceInPlace ==
  ASSUME NEW s \in Seq(Ev), NEW k \in Nat, NEW acc \in Seq(Ev), NEW lost \in Nat,
         NEW p \in 1..Len(s), p > k, IsDelta(s[p]),
         \A j \in 1..Len(s) : j > k /\ IsDelta(s[j]) => p <= j,
         NEW g \in Ev, IsGap(g), g.n = lost + 1,
         NEW s2 \in Seq(Ev), Len(s2) = Len(s), s2[p] = g,
         \A j \in 1..Len(s) : j # p => s2[j] = s[j],
         CountIn(s2, Gaps) = CountIn(s, Gaps) + 1,
         InPlace(s, k, acc, lost)
  PROVE  InPlace(s2, k, acc, lost + 1)
<1> SUFFICES ASSUME Len(s) = Len(acc) PROVE InPlace(s2, k, acc, lost + 1)
  BY DEF InPlace
<1>1. /\ DOMAIN s = 1..Len(s) /\ DOMAIN s2 = 1..Len(s) /\ DOMAIN acc = 1..Len(s) /\ Len(s) \in Nat
      /\ ~IsGap(s[p]) /\ ~IsDelta(g)
  BY DEF IsDelta, IsGap
<1>2. /\ \A j \in DOMAIN acc : s[j] = acc[j] \/ (IsGap(s[j]) /\ IsDelta(acc[j]) /\ s[j].n = GapsUpTo(s, j))
      /\ CountIn(s, Gaps) = lost
      /\ \A l, j \in DOMAIN s : IsGap(s[l]) /\ IsDelta(s[j]) /\ j > k => l < j
  BY DEF InPlace
<1>3. CountIn(s2, Gaps) = lost + 1
  BY <1>2
<1>4. ASSUME NEW l \in DOMAIN s, IsGap(s[l]) PROVE l < p
  BY <1>1, <1>2, <1>4
<1>5. ASSUME NEW l \in DOMAIN s2, NEW j \in DOMAIN s2, IsGap(s2[l]), IsDelta(s2[j]), j > k
      PROVE  l < j
  <2>1. j # p /\ IsDelta(s[j]) /\ p <= j
    BY <1>1, <1>5
  <2>2. CASE l = p
    BY <1>1, <2>1, <2>2
  <2>3. CASE l # p
    <3>1. IsGap(s[l])
      BY <1>1, <1>5, <2>3
    <3> QED BY <1>1, <1>2, <1>5, <2>1, <3>1
  <2> QED BY <2>2, <2>3
<1>6. ASSUME NEW j \in DOMAIN acc
      PROVE  s2[j] = acc[j] \/ (IsGap(s2[j]) /\ IsDelta(acc[j]) /\ s2[j].n = GapsUpTo(s2, j))
  <2>1. CASE j = p
    <3>1. s2[j] = g /\ acc[j] = s[p]
      BY <1>1, <1>2, <1>6, <2>1
    <3>2. {l \in DOMAIN s2 : l <= j /\ IsGap(s2[l])} = Places(s2, Gaps)
      <4>1. \A l \in DOMAIN s2 : s2[l] \in Ev
        OBVIOUS
      <4>2. \A l \in DOMAIN s2 : s2[l] \in Gaps <=> IsGap(s2[l])
        BY <4>1 DEF Gaps
      <4>3. \A l \in DOMAIN s2 : IsGap(s2[l]) => l <= j
        BY <1>1, <1>4, <2>1
      <4> QED BY <4>2, <4>3 DEF Places
    <3>3. GapsUpTo(s2, j) = CountIn(s2, Gaps)
      BY <3>2, Zenon DEF GapsUpTo, CountIn
    <3> QED BY <1>3, <3>1, <3>3
  <2>2. CASE j # p
    <3>1. s2[j] = s[j]
      BY <1>1, <1>6, <2>2
    <3>2. CASE IsGap(s[j])
      <4>1. j < p
        BY <1>1, <1>4, <1>6, <3>2
      <4>2. \A l \in 1..Len(s) : l <= j => s2[l] = s[l]
        BY <1>1, <1>6, <4>1
      <4>3. {l \in DOMAIN s2 : l <= j /\ IsGap(s2[l])} = {l \in DOMAIN s : l <= j /\ IsGap(s[l])}
        BY <1>1, <4>2
      <4>4. GapsUpTo(s2, j) = GapsUpTo(s, j)
        BY <4>3, Zenon DEF GapsUpTo
      <4> QED BY <1>2, <1>6, <3>1, <4>4
    <3>3. CASE ~IsGap(s[j])
      BY <1>2, <1>6, <3>1, <3>3
    <3> QED BY <3>2, <3>3
  <2> QED BY <2>1, <2>2
<1> QED BY <1>3, <1>5, <1>6 DEF InPlace

LEMMA CountIsNat ==
  ASSUME NEW s \in Seq(Ev), NEW C PROVE CountIn(s, C) \in Nat
<1>1. CountIn(s, C) \in 0..Len(s)
  BY PlacesAreFinite
<1> QED BY <1>1

\* At the soft limit a marker takes the place of the oldest delta.
LEMMA ReplaceKeeps ==
  ASSUME NEW q \in Seq(Ev), NEW d \in Seq(Ev), NEW acc \in Seq(Ev), NEW lost \in Nat, NEW any \in Nat,
         Faithful(q, d, acc, lost, any),
         NEW i \in 1..Len(q), Oldest(q, i),
         NEW g \in Ev, IsGap(g), g.n = lost + 1
  PROVE  /\ [q EXCEPT ![i] = g] \in Seq(Ev)
         /\ Faithful([q EXCEPT ![i] = g], d, acc, lost + 1, any)
         /\ CountIn([q EXCEPT ![i] = g], Deltas) = CountIn(q, Deltas) - 1
<1>1. PICK r : r = [q EXCEPT ![i] = g]
  OBVIOUS
<1>2. PICK k, s, u, p : k = Len(d) /\ s = d \o q /\ u = d \o r /\ p = k + i
  OBVIOUS
<1>3. q[i] \in Ev /\ IsDelta(q[i]) /\ \A j \in 1..Len(q) : IsDelta(q[j]) => i <= j
  BY DEF Oldest
<1>4. /\ ~IsReal(g) /\ ~IsDelta(g) /\ g \notin Reals /\ g \notin Deltas /\ g \in Gaps
      /\ \A t \in Turn : g \notin Ends(t)
  BY DEF IsGap, IsReal, IsDelta, Marker, Reals, Deltas, Gaps, Ends
<1>5. /\ IsReal(q[i]) /\ ~IsGap(q[i]) /\ q[i] \in Deltas /\ q[i] \in Reals /\ q[i] \notin Gaps
      /\ \A t \in Turn : q[i] \notin Ends(t)
  BY <1>3, EventKinds
<1>6. r \in Seq(Ev) /\ Len(r) = Len(q) /\ u = [s EXCEPT ![p] = g]
  <2>1. /\ [q EXCEPT ![i] = g] \in Seq(Ev) /\ Len([q EXCEPT ![i] = g]) = Len(q)
        /\ d \o [q EXCEPT ![i] = g] = [d \o q EXCEPT ![Len(d) + i] = g]
    BY ConcatExcept
  <2> QED BY <1>1, <1>2, <2>1
<1>7. /\ k \in Nat /\ Len(q) \in Nat /\ Len(s) = k + Len(q) /\ s \in Seq(Ev)
      /\ \A j \in 1..Len(q) : s[k + j] = q[j]
      /\ \A j \in 1..k + Len(q) : j > k => j - k \in 1..Len(q) /\ s[j] = q[j - k]
  <2>1. /\ d \o q \in Seq(Ev) /\ Len(d \o q) = Len(d) + Len(q) /\ Len(d) \in Nat /\ Len(q) \in Nat
        /\ \A j \in 1..Len(q) : (d \o q)[Len(d) + j] = q[j]
        /\ \A j \in 1..Len(d) + Len(q) : j > Len(d) => j - Len(d) \in 1..Len(q) /\ (d \o q)[j] = q[j - Len(d)]
    BY ConcatPlaces
  <2> QED BY <1>2, <2>1
<1>8. p \in 1..Len(s) /\ p > k /\ s[p] = q[i]
  BY <1>2, <1>7
<1>9. /\ u \in Seq(Ev) /\ Len(u) = Len(s) /\ u[p] = g
      /\ \A j \in 1..Len(s) : j # p => u[j] = s[j]
  BY <1>6, <1>7, <1>8
<1>10. \A j \in 1..Len(s) : j > k /\ IsDelta(s[j]) => p <= j
  <2> SUFFICES ASSUME NEW j \in 1..Len(s), j > k, IsDelta(s[j]) PROVE p <= j
    OBVIOUS
  <2>1. j - k \in 1..Len(q) /\ IsDelta(q[j - k])
    BY <1>7
  <2>2. i <= j - k
    BY <1>3, <2>1
  <2> QED BY <1>2, <1>7, <2>2
<1>11. ASSUME NEW C
       PROVE  /\ CountIn(u, C) = CountIn(s, C) - (IF q[i] \in C THEN 1 ELSE 0) + (IF g \in C THEN 1 ELSE 0)
              /\ CountIn(s, C) \in Nat
  <2>1. CountIn([s EXCEPT ![p] = g], C)
          = CountIn(s, C) - (IF s[p] \in C THEN 1 ELSE 0) + (IF g \in C THEN 1 ELSE 0)
    <3>1. s \in Seq(Ev) /\ p \in 1..Len(s)
      BY <1>7, <1>8
    <3> QED BY <3>1, CountExcept
  <2>2. CountIn(s, C) \in Nat
    BY <1>7, CountIsNat
  <2> QED BY <1>6, <1>8, <2>1, <2>2
<1>12. CountIn(r, Deltas) = CountIn(q, Deltas) - 1
  <2>1. CountIn([q EXCEPT ![i] = g], Deltas)
          = CountIn(q, Deltas) - (IF q[i] \in Deltas THEN 1 ELSE 0) + (IF g \in Deltas THEN 1 ELSE 0)
    BY CountExcept
  <2>2. CountIn(q, Deltas) \in Nat
    BY CountIsNat
  <2> QED BY <1>1, <1>4, <1>5, <2>1, <2>2
<1>13. /\ Rising(s) /\ UpTo(s, Len(acc)) /\ CountIn(s, Reals) + lost + any = Len(acc)
       /\ any = 0 => Len(s) <= Len(acc) /\ InPlace(s, k, acc, lost) /\ SameEnds(s, acc)
  BY <1>2 DEF Faithful
<1>14. Rising(u)
  <2>1. DOMAIN u = 1..Len(s) /\ DOMAIN s = 1..Len(s)
    BY <1>7, <1>9
  <2> SUFFICES ASSUME NEW j \in 1..Len(s), NEW l \in 1..Len(s), j < l, IsReal(u[j]), IsReal(u[l])
               PROVE  u[j].n < u[l].n
    BY <2>1 DEF Rising
  <2>2. u[j] = s[j] /\ u[l] = s[l]
    BY <1>4, <1>9
  <2> QED BY <1>13, <2>1, <2>2 DEF Rising
<1>15. UpTo(u, Len(acc))
  <2>1. DOMAIN u = 1..Len(s) /\ DOMAIN s = 1..Len(s)
    BY <1>7, <1>9
  <2> SUFFICES ASSUME NEW j \in 1..Len(s), IsReal(u[j]) PROVE u[j].n <= Len(acc)
    BY <2>1 DEF UpTo
  <2>2. u[j] = s[j]
    BY <1>4, <1>9
  <2> QED BY <1>13, <2>1, <2>2 DEF UpTo
<1>16. CountIn(u, Reals) + (lost + 1) + any = Len(acc)
  <2>1. CountIn(u, Reals) = CountIn(s, Reals) - 1 + 0 /\ CountIn(s, Reals) \in Nat
    BY <1>4, <1>5, <1>11
  <2> QED BY <1>13, <2>1
<1>17. ASSUME any = 0
       PROVE  Len(u) <= Len(acc) /\ InPlace(u, k, acc, lost + 1) /\ SameEnds(u, acc)
  <2>1. Len(s) <= Len(acc) /\ InPlace(s, k, acc, lost) /\ SameEnds(s, acc)
    BY <1>13, <1>17
  <2>2. SameEnds(u, acc)
    <3> SUFFICES ASSUME NEW t \in Turn PROVE CountIn(u, Ends(t)) = CountIn(s, Ends(t))
      BY <2>1 DEF SameEnds
    <3>1. CountIn(u, Ends(t)) = CountIn(s, Ends(t)) - 0 + 0 /\ CountIn(s, Ends(t)) \in Nat
      BY <1>4, <1>5, <1>11
    <3> QED BY <3>1
  <2>3. CountIn(u, Gaps) = CountIn(s, Gaps) + 1
    <3>1. CountIn(u, Gaps) = CountIn(s, Gaps) - 0 + 1 /\ CountIn(s, Gaps) \in Nat
      BY <1>4, <1>5, <1>11
    <3> QED BY <3>1
  <2>4. InPlace(u, k, acc, lost + 1)
    <3>1. IsDelta(s[p])
      BY <1>3, <1>8
    <3> QED BY <1>7, <1>8, <1>9, <1>10, <2>1, <2>3, <3>1, ReplaceInPlace
  <2> QED BY <1>9, <2>1, <2>2, <2>4
<1>18. Faithful(r, d, acc, lost + 1, any)
  BY <1>2, <1>14, <1>15, <1>16, <1>17 DEF Faithful
<1> QED BY <1>1, <1>6, <1>12, <1>18

LEMMA ConcatAppend ==
  ASSUME NEW S, NEW d \in Seq(S), NEW q \in Seq(S), NEW e \in S
  PROVE  d \o Append(q, e) = Append(d \o q, e)
<1>1. <<e>> \in Seq(S) /\ d \o q \in Seq(S)
  OBVIOUS
<1>2. Append(q, e) = q \o <<e>> /\ Append(d \o q, e) = (d \o q) \o <<e>>
  BY <1>1, AppendIsConcat
<1>3. (d \o q) \o <<e>> = d \o (q \o <<e>>)
  BY <1>1, ConcatAssociative
<1> QED BY <1>2, <1>3

\* An event takes its place at the end.
LEMMA PushKeeps ==
  ASSUME NEW q \in Seq(Ev), NEW d \in Seq(Ev), NEW acc \in Seq(Ev), NEW lost \in Nat, NEW any \in Nat,
         Faithful(q, d, acc, lost, any), NEW e \in Ev, IsReal(e), e.n = Len(acc) + 1
  PROVE  /\ Append(q, e) \in Seq(Ev)
         /\ Faithful(Append(q, e), d, Append(acc, e), lost, any)
         /\ CountIn(Append(q, e), Deltas) = CountIn(q, Deltas) + (IF IsDelta(e) THEN 1 ELSE 0)
<1>1. PICK k, s, u, a : k = Len(d) /\ s = d \o q /\ u = Append(s, e) /\ a = Append(acc, e)
  OBVIOUS
<1>2. d \o Append(q, e) = u
  BY <1>1, ConcatAppend
<1>3. s \in Seq(Ev) /\ k \in Nat
  BY <1>1
<1>4. /\ u \in Seq(Ev) /\ Len(u) = Len(s) + 1 /\ Len(s) \in Nat /\ u[Len(s) + 1] = e
      /\ \A j \in 1..Len(s) : u[j] = s[j]
  BY <1>1, <1>3
<1>5. /\ a \in Seq(Ev) /\ Len(a) = Len(acc) + 1 /\ Len(acc) \in Nat /\ a[Len(acc) + 1] = e
      /\ \A j \in 1..Len(acc) : a[j] = acc[j]
  BY <1>1
<1>6. DOMAIN u = 1..Len(s) + 1 /\ DOMAIN s = 1..Len(s) /\ DOMAIN a = 1..Len(acc) + 1 /\ DOMAIN acc = 1..Len(acc)
  BY <1>3, <1>4, <1>5
<1>7. /\ Rising(s) /\ UpTo(s, Len(acc)) /\ CountIn(s, Reals) + lost + any = Len(acc)
      /\ any = 0 => Len(s) <= Len(acc) /\ InPlace(s, k, acc, lost) /\ SameEnds(s, acc)
  BY <1>1 DEF Faithful
<1>8. ~IsGap(e) /\ e \in Reals /\ e \notin Gaps /\ (e \in Deltas <=> IsDelta(e))
  BY EventKinds
<1>9. ASSUME NEW C
      PROVE  /\ CountIn(u, C) = CountIn(s, C) + (IF e \in C THEN 1 ELSE 0)
             /\ CountIn(a, C) = CountIn(acc, C) + (IF e \in C THEN 1 ELSE 0)
             /\ CountIn(s, C) \in Nat
  <2>1. CountIn(Append(s, e), C) = CountIn(s, C) + (IF e \in C THEN 1 ELSE 0)
    BY <1>3, CountAppend
  <2>2. CountIn(Append(acc, e), C) = CountIn(acc, C) + (IF e \in C THEN 1 ELSE 0)
    BY CountAppend
  <2> QED BY <1>1, <1>3, <2>1, <2>2, CountIsNat
<1>10. Rising(u)
  <2> SUFFICES ASSUME NEW i \in 1..Len(s) + 1, NEW j \in 1..Len(s) + 1, i < j, IsReal(u[i]), IsReal(u[j])
               PROVE  u[i].n < u[j].n
    BY <1>6 DEF Rising
  <2>1. i \in 1..Len(s) /\ u[i] = s[i] /\ s[i] \in Ev
    BY <1>3, <1>4
  <2>2. CASE j = Len(s) + 1
    <3>1. s[i].n <= Len(acc) /\ s[i].n \in Nat
      BY <1>6, <1>7, <2>1 DEF UpTo, Ev
    <3> QED BY <1>4, <1>5, <2>1, <2>2, <3>1
  <2>3. CASE j # Len(s) + 1
    <3>1. j \in 1..Len(s) /\ u[j] = s[j]
      BY <1>4, <2>3
    <3> QED BY <1>6, <1>7, <2>1, <3>1 DEF Rising
  <2> QED BY <2>2, <2>3
<1>11. UpTo(u, Len(a))
  <2> SUFFICES ASSUME NEW i \in 1..Len(s) + 1, IsReal(u[i]) PROVE u[i].n <= Len(a)
    BY <1>6 DEF UpTo
  <2>1. CASE i = Len(s) + 1
    BY <1>4, <1>5, <2>1
  <2>2. CASE i # Len(s) + 1
    <3>1. i \in 1..Len(s) /\ u[i] = s[i] /\ s[i] \in Ev
      BY <1>3, <1>4, <2>2
    <3>2. s[i].n <= Len(acc) /\ s[i].n \in Nat
      BY <1>6, <1>7, <3>1 DEF UpTo, Ev
    <3> QED BY <1>5, <3>1, <3>2
  <2> QED BY <2>1, <2>2
<1>12. CountIn(u, Reals) + lost + any = Len(a)
  <2>1. CountIn(u, Reals) = CountIn(s, Reals) + 1 /\ CountIn(s, Reals) \in Nat
    BY <1>8, <1>9
  <2> QED BY <1>5, <1>7, <2>1
<1>13. ASSUME any = 0
       PROVE  Len(u) <= Len(a) /\ InPlace(u, k, a, lost) /\ SameEnds(u, a)
  <2>1. Len(s) <= Len(acc) /\ InPlace(s, k, acc, lost) /\ SameEnds(s, acc)
    BY <1>7, <1>13
  <2>2. SameEnds(u, a)
    <3> SUFFICES ASSUME NEW t \in Turn PROVE CountIn(u, Ends(t)) = CountIn(a, Ends(t))
      BY DEF SameEnds
    <3>1. CountIn(s, Ends(t)) = CountIn(acc, Ends(t))
      BY <2>1 DEF SameEnds
    <3> QED BY <1>9, <3>1
  <2>3. ASSUME Len(u) = Len(a) PROVE InPlace(u, k, a, lost)
    <3>1. Len(s) = Len(acc)
      BY <1>4, <1>5, <2>3
    <3>2. /\ \A j \in DOMAIN acc : s[j] = acc[j] \/ (IsGap(s[j]) /\ IsDelta(acc[j]) /\ s[j].n = GapsUpTo(s, j))
          /\ CountIn(s, Gaps) = lost
          /\ \A l, j \in DOMAIN s : IsGap(s[l]) /\ IsDelta(s[j]) /\ j > k => l < j
      BY <2>1, <3>1 DEF InPlace
    <3>3. CountIn(u, Gaps) = lost
      BY <1>8, <1>9, <3>2
    <3>4. ASSUME NEW l \in DOMAIN u, NEW j \in DOMAIN u, IsGap(u[l]), IsDelta(u[j]), j > k
          PROVE  l < j
      <4>1. l \in 1..Len(s) /\ u[l] = s[l]
        BY <1>4, <1>6, <1>8, <3>4
      <4>2. CASE j = Len(s) + 1
        BY <1>4, <4>1, <4>2
      <4>3. CASE j # Len(s) + 1
        <5>1. j \in 1..Len(s) /\ u[j] = s[j]
          BY <1>4, <1>6, <3>4, <4>3
        <5> QED BY <1>6, <3>2, <3>4, <4>1, <5>1
      <4> QED BY <4>2, <4>3
    <3>5. ASSUME NEW j \in DOMAIN a
          PROVE  u[j] = a[j] \/ (IsGap(u[j]) /\ IsDelta(a[j]) /\ u[j].n = GapsUpTo(u, j))
      <4>1. CASE j = Len(s) + 1
        BY <1>4, <1>5, <3>1, <4>1
      <4>2. CASE j # Len(s) + 1
        <5>1. j \in 1..Len(s) /\ u[j] = s[j] /\ a[j] = acc[j]
          BY <1>4, <1>5, <1>6, <3>1, <3>5, <4>2
        <5>2. {l \in DOMAIN u : l <= j /\ IsGap(u[l])} = {l \in DOMAIN s : l <= j /\ IsGap(s[l])}
          <6>1. \A l \in 1..Len(s) + 1 : l <= j => l \in 1..Len(s) /\ u[l] = s[l]
            BY <1>4, <5>1
          <6> QED BY <1>4, <1>6, <6>1
        <5>3. GapsUpTo(u, j) = GapsUpTo(s, j)
          BY <5>2, Zenon DEF GapsUpTo
        <5> QED BY <1>6, <3>1, <3>2, <5>1, <5>3
      <4> QED BY <4>1, <4>2
    <3> QED BY <3>3, <3>4, <3>5 DEF InPlace
  <2> QED BY <1>4, <1>5, <2>1, <2>2, <2>3 DEF InPlace
<1>14. Faithful(Append(q, e), d, a, lost, any)
  BY <1>1, <1>2, <1>10, <1>11, <1>12, <1>13 DEF Faithful
<1>15. CountIn(Append(q, e), Deltas) = CountIn(q, Deltas) + (IF e \in Deltas THEN 1 ELSE 0)
  BY CountAppend
<1> QED BY <1>1, <1>8, <1>14, <1>15

\* What is counted among few is counted among many.
LEMMA CountLess ==
  ASSUME NEW s \in Seq(Ev), NEW C, NEW D, C \subseteq D, CountIn(s, D) = 0
  PROVE  CountIn(s, C) = 0
<1>1. IsFiniteSet(Places(s, D)) /\ Places(s, C) \subseteq Places(s, D)
  BY PlacesAreFinite DEF Places
<1>2. Places(s, D) = {}
  BY <1>1, FS_EmptySet DEF CountIn
<1> QED BY <1>1, <1>2, FS_EmptySet DEF CountIn

LEMMA EvConcat ==
  \A s, r \in Seq(Ev) :
    /\ s \o r \in Seq(Ev) /\ Len(s \o r) = Len(s) + Len(r) /\ Len(s) \in Nat /\ Len(r) \in Nat
    /\ \A C : CountIn(s \o r, C) = CountIn(s, C) + CountIn(r, C)
<1> SUFFICES ASSUME NEW s \in Seq(Ev), NEW r \in Seq(Ev), NEW C
             PROVE  /\ s \o r \in Seq(Ev) /\ Len(s \o r) = Len(s) + Len(r) /\ Len(s) \in Nat /\ Len(r) \in Nat
                    /\ CountIn(s \o r, C) = CountIn(s, C) + CountIn(r, C)
  OBVIOUS
<1>1. s \o r \in Seq(Ev) /\ Len(s \o r) = Len(s) + Len(r) /\ Len(s) \in Nat /\ Len(r) \in Nat
  BY ConcatProperties
<1>2. CountIn(s \o r, C) = CountIn(s, C) + CountIn(r, C)
  BY CountConcat
<1> QED BY <1>1, <1>2

LEMMA EvAssoc == \A s, r, u \in Seq(Ev) : (s \o r) \o u = s \o (r \o u)
  BY ConcatAssociative

LEMMA EvSplit ==
  \A q \in Seq(Ev) : \A m \in 0..Len(q) :
    /\ SubSeq(q, 1, m) \in Seq(Ev) /\ SubSeq(q, m + 1, Len(q)) \in Seq(Ev)
    /\ Len(SubSeq(q, 1, m)) = m /\ Len(SubSeq(q, m + 1, Len(q))) = Len(q) - m
    /\ SubSeq(q, 1, m) \o SubSeq(q, m + 1, Len(q)) = q
    /\ \A C : CountIn(q, C) = CountIn(SubSeq(q, 1, m), C) + CountIn(SubSeq(q, m + 1, Len(q)), C)
<1> SUFFICES ASSUME NEW q \in Seq(Ev), NEW m \in 0..Len(q), NEW C
             PROVE  /\ SubSeq(q, 1, m) \in Seq(Ev) /\ SubSeq(q, m + 1, Len(q)) \in Seq(Ev)
                    /\ Len(SubSeq(q, 1, m)) = m /\ Len(SubSeq(q, m + 1, Len(q))) = Len(q) - m
                    /\ SubSeq(q, 1, m) \o SubSeq(q, m + 1, Len(q)) = q
                    /\ CountIn(q, C) = CountIn(SubSeq(q, 1, m), C) + CountIn(SubSeq(q, m + 1, Len(q)), C)
  OBVIOUS
<1>1. SubSeq(q, 1, m) \in Seq(Ev) /\ Len(SubSeq(q, 1, m)) = m
  BY CountSplit
<1>2. SubSeq(q, m + 1, Len(q)) \in Seq(Ev) /\ Len(SubSeq(q, m + 1, Len(q))) = Len(q) - m
  BY CountSplit
<1>3. SubSeq(q, 1, m) \o SubSeq(q, m + 1, Len(q)) = q
  BY CountSplit
<1>4. CountIn(SubSeq(q, 1, m) \o SubSeq(q, m + 1, Len(q)), C)
        = CountIn(SubSeq(q, 1, m), C) + CountIn(SubSeq(q, m + 1, Len(q)), C)
  BY <1>1, <1>2, EvConcat, Zenon
<1> QED BY <1>1, <1>2, <1>3, <1>4

LEMMA NoMarkerRises ==
  ASSUME NEW g \in Ev, ~IsReal(g), NEW s \in Seq(Ev), NEW k
  PROVE  /\ <<g>> \in Seq(Ev) /\ Len(<<g>>) = 1
         /\ Rising(<<g>>) /\ UpTo(<<g>>, k) /\ Below(<<g>>, s) /\ Below(s, <<g>>)
         /\ CountIn(<<g>>, Reals) = 0 /\ CountIn(<<g>>, Deltas) = 0
<1>1. g \notin Reals /\ g \notin Deltas
  BY EventKinds
<1>2. CountIn(<<g>>, Reals) = 0 /\ CountIn(<<g>>, Deltas) = 0
  BY <1>1, CountSingle
<1>3. DOMAIN <<g>> = {1} /\ <<g>>[1] = g /\ <<g>> \in Seq(Ev) /\ Len(<<g>>) = 1
  OBVIOUS
<1> QED BY <1>2, <1>3 DEF Rising, UpTo, Below

\* The oldest entries are gone: what they were is counted once.
LEMMA CutKeeps ==
  ASSUME NEW q \in Seq(Ev), NEW d \in Seq(Ev), NEW acc \in Seq(Ev), NEW lost \in Nat, NEW any \in Nat,
         Faithful(q, d, acc, lost, any), NEW m \in 1..Len(q), NEW g \in Ev, ~IsReal(g)
  PROVE  LET out == SubSeq(q, 1, m)
             rest == SubSeq(q, m + 1, Len(q))
             c == CountIn(out, Reals)
         IN /\ rest \in Seq(Ev) /\ <<g>> \o rest \in Seq(Ev) /\ c \in Nat
            /\ Len(rest) = Len(q) - m /\ Len(<<g>> \o rest) = Len(q) - m + 1
            /\ CountIn(rest, Deltas) = CountIn(q, Deltas) - CountIn(out, Deltas)
            /\ CountIn(<<g>> \o rest, Deltas) = CountIn(q, Deltas) - CountIn(out, Deltas)
            /\ c = 0 => Faithful(rest, d, acc, lost, any)
            /\ c > 0 => Faithful(<<g>> \o rest, d, acc, lost, any + c)
<1>1. PICK out, rest, c : /\ out = SubSeq(q, 1, m) /\ rest = SubSeq(q, m + 1, Len(q))
                          /\ c = CountIn(out, Reals)
  OBVIOUS
<1>2. /\ out \in Seq(Ev) /\ rest \in Seq(Ev) /\ Len(rest) = Len(q) - m /\ Len(out) = m
      /\ out \o rest = q /\ Len(q) \in Nat /\ m \in Nat /\ m > 0
      /\ \A C : CountIn(q, C) = CountIn(out, C) + CountIn(rest, C)
  <2>1. m \in 0..Len(q) /\ Len(q) \in Nat /\ m \in Nat /\ m > 0
    OBVIOUS
  <2>2. /\ out \in Seq(Ev) /\ rest \in Seq(Ev) /\ Len(out) = m /\ Len(rest) = Len(q) - m
        /\ out \o rest = q
        /\ \A C : CountIn(q, C) = CountIn(out, C) + CountIn(rest, C)
    BY <1>1, <2>1, EvSplit, Zenon
  <2> QED BY <2>1, <2>2
<1>3. PICK h : h = <<g>> \o rest
  OBVIOUS
<1>4. /\ <<g>> \in Seq(Ev) /\ Len(<<g>>) = 1 /\ Rising(<<g>>) /\ UpTo(<<g>>, Len(acc))
      /\ Below(<<g>>, rest) /\ Below(d, <<g>>)
      /\ CountIn(<<g>>, Reals) = 0 /\ CountIn(<<g>>, Deltas) = 0
  <2>1. ASSUME NEW s \in Seq(Ev)
        PROVE  /\ <<g>> \in Seq(Ev) /\ Len(<<g>>) = 1
               /\ Rising(<<g>>) /\ UpTo(<<g>>, Len(acc)) /\ Below(<<g>>, s) /\ Below(s, <<g>>)
               /\ CountIn(<<g>>, Reals) = 0 /\ CountIn(<<g>>, Deltas) = 0
    BY NoMarkerRises
  <2> QED BY <1>2, <2>1
<1>5. /\ h \in Seq(Ev) /\ Len(h) = Len(q) - m + 1
      /\ CountIn(h, Reals) = CountIn(rest, Reals) /\ CountIn(h, Deltas) = CountIn(rest, Deltas)
  <2>1. <<g>> \o rest \in Seq(Ev) /\ Len(<<g>> \o rest) = Len(<<g>>) + Len(rest)
    BY <1>2, <1>4, EvConcat
  <2>2. \A C : CountIn(<<g>> \o rest, C) = CountIn(<<g>>, C) + CountIn(rest, C)
    BY <1>2, <1>4, EvConcat
  <2>3. CountIn(rest, Reals) \in Nat /\ CountIn(rest, Deltas) \in Nat
    BY <1>2, CountIsNat
  <2> QED BY <1>2, <1>3, <1>4, <2>1, <2>2, <2>3
<1>6. /\ Rising(d) /\ Rising(rest) /\ Below(d, rest)
      /\ UpTo(d, Len(acc)) /\ UpTo(rest, Len(acc))
  <2>1. Rising(d \o q) /\ UpTo(d \o q, Len(acc)) /\ Len(acc) \in Nat
    BY DEF Faithful
  <2>2. Rising(d) /\ Rising(q) /\ Below(d, q) /\ UpTo(d, Len(acc)) /\ UpTo(q, Len(acc))
    BY <2>1, RisingConcat, UpToConcat
  <2>3. Rising(out \o rest) /\ Below(d, out \o rest) /\ UpTo(out \o rest, Len(acc))
    BY <1>2, <2>2
  <2> QED BY <1>2, <2>1, <2>3, RisingConcat, UpToConcat, BelowConcat
<1>7. Rising(d \o rest) /\ UpTo(d \o rest, Len(acc))
  <2>1. Len(acc) \in Nat
    OBVIOUS
  <2> QED BY <1>2, <1>6, <2>1, RisingConcat, UpToConcat
<1>8. Rising(d \o h) /\ UpTo(d \o h, Len(acc))
  <2>1. Len(acc) \in Nat
    OBVIOUS
  <2>2. Rising(<<g>> \o rest) /\ UpTo(<<g>> \o rest, Len(acc)) /\ Below(d, <<g>> \o rest)
    BY <1>2, <1>4, <1>6, <2>1, RisingConcat, UpToConcat, BelowConcat
  <2>3. Rising(h) /\ UpTo(h, Len(acc)) /\ Below(d, h)
    BY <1>3, <2>2
  <2> QED BY <1>5, <1>6, <2>1, <2>3, RisingConcat, UpToConcat
<1>9. ASSUME NEW C, NEW r \in Seq(Ev)
      PROVE  CountIn(d \o r, C) = CountIn(d, C) + CountIn(r, C) /\ CountIn(d, C) \in Nat /\ CountIn(r, C) \in Nat
  BY CountConcat, CountIsNat
<1>10. /\ CountIn(d \o q, Reals) = CountIn(d, Reals) + c + CountIn(rest, Reals)
       /\ CountIn(d \o rest, Reals) = CountIn(d, Reals) + CountIn(rest, Reals)
       /\ CountIn(d \o h, Reals) = CountIn(d, Reals) + CountIn(rest, Reals)
       /\ c \in Nat /\ CountIn(d, Reals) \in Nat /\ CountIn(rest, Reals) \in Nat
  <2>1. CountIn(d \o q, Reals) = CountIn(d, Reals) + CountIn(q, Reals)
    BY <1>9
  <2>2. CountIn(d \o rest, Reals) = CountIn(d, Reals) + CountIn(rest, Reals)
    BY <1>2, <1>9
  <2>3. CountIn(d \o h, Reals) = CountIn(d, Reals) + CountIn(h, Reals)
    BY <1>5, <1>9
  <2>4. c \in Nat /\ CountIn(d, Reals) \in Nat /\ CountIn(rest, Reals) \in Nat
    BY <1>1, <1>2, CountIsNat
  <2> QED BY <1>1, <1>2, <1>5, <2>1, <2>2, <2>3, <2>4
<1>11. CountIn(d \o q, Reals) + lost + any = Len(acc)
  BY DEF Faithful
<1>12. ASSUME c = 0 PROVE Faithful(rest, d, acc, lost, any)
  <2>1. CountIn(d \o rest, Reals) + lost + any = Len(acc)
    BY <1>10, <1>11, <1>12
  <2>2. ASSUME any = 0
        PROVE  /\ Len(d \o rest) <= Len(acc) /\ InPlace(d \o rest, Len(d), acc, lost)
               /\ SameEnds(d \o rest, acc)
    <3>1. Len(d \o q) <= Len(acc) /\ SameEnds(d \o q, acc)
      BY <2>2 DEF Faithful
    <3>2. Len(d \o q) = Len(d) + Len(q) /\ Len(d \o rest) = Len(d) + Len(rest) /\ Len(d) \in Nat
      BY <1>2, EvConcat
    <3>3. Len(d \o rest) < Len(acc)
      BY <1>2, <3>1, <3>2
    <3>4. InPlace(d \o rest, Len(d), acc, lost)
      BY <3>2, <3>3 DEF InPlace
    <3>5. SameEnds(d \o rest, acc)
      <4> SUFFICES ASSUME NEW t \in Turn PROVE CountIn(d \o rest, Ends(t)) = CountIn(acc, Ends(t))
        BY DEF SameEnds
      <4>1. Ends(t) \subseteq Reals
        BY DEF Ends, Reals, IsReal, Marker
      <4>2. CountIn(out, Ends(t)) = 0
        BY <1>1, <1>2, <1>12, <4>1, CountLess
      <4>3. CountIn(d \o q, Ends(t)) = CountIn(d, Ends(t)) + CountIn(q, Ends(t))
        BY <1>9
      <4>4. CountIn(d \o rest, Ends(t)) = CountIn(d, Ends(t)) + CountIn(rest, Ends(t))
            /\ CountIn(rest, Ends(t)) \in Nat
        BY <1>2, <1>9
      <4>5. CountIn(q, Ends(t)) = CountIn(rest, Ends(t))
        BY <1>2, <4>2, <4>4
      <4>6. CountIn(d \o q, Ends(t)) = CountIn(acc, Ends(t))
        BY <3>1 DEF SameEnds
      <4> QED BY <4>3, <4>4, <4>5, <4>6
    <3> QED BY <3>2, <3>3, <3>4, <3>5
  <2> QED BY <1>7, <2>1, <2>2 DEF Faithful
<1>13. ASSUME c > 0 PROVE Faithful(h, d, acc, lost, any + c)
  <2>1. CountIn(d \o h, Reals) + lost + (any + c) = Len(acc)
    BY <1>10, <1>11
  <2>2. any + c # 0
    BY <1>10, <1>13
  <2> QED BY <1>8, <2>1, <2>2 DEF Faithful
<1>14. CountIn(rest, Deltas) = CountIn(q, Deltas) - CountIn(out, Deltas)
  <2>1. CountIn(rest, Deltas) \in Nat /\ CountIn(out, Deltas) \in Nat
    BY <1>2, CountIsNat
  <2> QED BY <1>2, <2>1
<1> QED BY <1>1, <1>2, <1>3, <1>5, <1>10, <1>12, <1>13, <1>14

-----------------------------------------------------------------------------
(* The four steps of #enqueue                                              *)

Distinct(s) == \A i, j \in DOMAIN s : s[i] = s[j] => i = j

LEMMA TailShape ==
  ASSUME NEW S, NEW s \in Seq(S), NEW i \in 0..Len(s)
  PROVE  /\ SubSeq(s, i + 1, Len(s)) \in Seq(S) /\ Len(SubSeq(s, i + 1, Len(s))) = Len(s) - i
         /\ \A j \in 1..Len(s) - i : SubSeq(s, i + 1, Len(s))[j] = s[i + j]
<1>1. Len(s) \in Nat /\ i \in Nat /\ \A j \in 1..Len(s) : s[j] \in S
  BY ElementOfSeq
<1>2. PICK m, n : m = i + 1 /\ n = Len(s)
  OBVIOUS
<1>3. m \in Int /\ n \in Int /\ \A j \in m..n : s[j] \in S
  BY <1>1, <1>2
<1>4. /\ SubSeq(s, m, n) \in Seq(S) /\ Len(SubSeq(s, m, n)) = IF m <= n THEN n - m + 1 ELSE 0
      /\ \A j \in 1..n - m + 1 : SubSeq(s, m, n)[j] = s[m + j - 1]
  BY <1>3, SubSeqProperties
<1>5. n - m + 1 = Len(s) - i /\ \A j \in Nat : m + j - 1 = i + j
  BY <1>1, <1>2
<1>6. \A j \in 1..Len(s) - i : SubSeq(s, m, n)[j] = s[i + j]
  BY <1>4, <1>5
<1>7. Len(SubSeq(s, m, n)) = Len(s) - i
  BY <1>1, <1>2, <1>4
<1> QED BY <1>2, <1>4, <1>6, <1>7

LEMMA FrontShape ==
  ASSUME NEW S, NEW s \in Seq(S), NEW i \in 0..Len(s)
  PROVE  /\ SubSeq(s, 1, i) \in Seq(S) /\ Len(SubSeq(s, 1, i)) = i
         /\ \A j \in 1..i : SubSeq(s, 1, i)[j] = s[j]
<1>1. Len(s) \in Nat /\ i \in Nat /\ \A j \in 1..Len(s) : s[j] \in S
  BY ElementOfSeq
<1>2. 1 \in Int /\ i \in Int /\ \A j \in 1..i : s[j] \in S
  BY <1>1
<1>3. /\ SubSeq(s, 1, i) \in Seq(S) /\ Len(SubSeq(s, 1, i)) = IF 1 <= i THEN i - 1 + 1 ELSE 0
      /\ \A j \in 1..i - 1 + 1 : SubSeq(s, 1, i)[j] = s[1 + j - 1]
  BY <1>2, SubSeqProperties
<1>4. i - 1 + 1 = i /\ \A j \in Nat : 1 + j - 1 = j
  BY <1>1
<1> QED BY <1>1, <1>3, <1>4

LEMMA RemoveAtShape ==
  ASSUME NEW S, NEW s \in Seq(S), NEW i \in 1..Len(s)
  PROVE  /\ RemoveAt(s, i) \in Seq(S) /\ Len(RemoveAt(s, i)) = Len(s) - 1
         /\ \A j \in 1..Len(s) - 1 : RemoveAt(s, i)[j] = IF j < i THEN s[j] ELSE s[j + 1]
<1>1. i - 1 \in 0..Len(s) /\ i \in 0..Len(s) /\ Len(s) \in Nat /\ i \in Nat
  OBVIOUS
<1>2. PICK h : h = i - 1
  OBVIOUS
<1>3. PICK a, b : a = SubSeq(s, 1, h) /\ b = SubSeq(s, i + 1, Len(s))
  OBVIOUS
<1>4. a \in Seq(S) /\ Len(a) = h /\ \A j \in 1..h : a[j] = s[j]
  <2>1. h \in 0..Len(s)
    BY <1>1, <1>2
  <2>2. /\ SubSeq(s, 1, h) \in Seq(S) /\ Len(SubSeq(s, 1, h)) = h
        /\ \A j \in 1..h : SubSeq(s, 1, h)[j] = s[j]
    BY <2>1, FrontShape
  <2> QED BY <1>3, <2>2
<1>5. b \in Seq(S) /\ Len(b) = Len(s) - i /\ \A j \in 1..Len(s) - i : b[j] = s[i + j]
  <2>1. /\ SubSeq(s, i + 1, Len(s)) \in Seq(S) /\ Len(SubSeq(s, i + 1, Len(s))) = Len(s) - i
        /\ \A j \in 1..Len(s) - i : SubSeq(s, i + 1, Len(s))[j] = s[i + j]
    BY <1>1, TailShape
  <2> QED BY <1>3, <2>1
<1>6. /\ a \o b \in Seq(S) /\ Len(a \o b) = Len(a) + Len(b)
      /\ \A j \in 1..Len(a) + Len(b) : (a \o b)[j] = IF j <= Len(a) THEN a[j] ELSE b[j - Len(a)]
  <2>1. a \in Seq(S) /\ b \in Seq(S)
    BY <1>4, <1>5
  <2> QED BY <2>1, ConcatProperties
<1>7. Len(a) + Len(b) = Len(s) - 1
  BY <1>1, <1>2, <1>4, <1>5
<1>8. ASSUME NEW j \in 1..Len(s) - 1 PROVE (a \o b)[j] = IF j < i THEN s[j] ELSE s[j + 1]
  <2>1. CASE j < i
    BY <1>1, <1>2, <1>4, <1>6, <1>7, <2>1
  <2>2. CASE ~ (j < i)
    <3>1. (a \o b)[j] = b[j - h]
      BY <1>1, <1>2, <1>4, <1>6, <1>7, <2>2
    <3>2. j - h \in 1..Len(s) - i /\ i + (j - h) = j + 1
      BY <1>1, <1>2, <2>2
    <3> QED BY <1>5, <2>2, <3>1, <3>2
  <2> QED BY <2>1, <2>2
<1>9. RemoveAt(s, i) = a \o b
  BY <1>2, <1>3 DEF RemoveAt
<1> QED BY <1>6, <1>7, <1>8, <1>9

LEMMA RemoveFirstShape ==
  ASSUME NEW s \in Seq(Turn), Distinct(s), NEW e
  PROVE  /\ RemoveFirst(s, e) \in Seq(Turn) /\ Distinct(RemoveFirst(s, e))
         /\ ToSet(RemoveFirst(s, e)) = ToSet(s) \ {e}
<1>1. CASE ~ \E i \in 1..Len(s) : s[i] = e
  <2>1. RemoveFirst(s, e) = s
    BY <1>1 DEF RemoveFirst
  <2>2. e \notin ToSet(s)
    BY <1>1 DEF ToSet
  <2> QED BY <2>1, <2>2
<1>2. CASE \E i \in 1..Len(s) : s[i] = e
  <2>1. PICK i \in 1..Len(s) : s[i] = e
    BY <1>2
  <2>2. Len(s) \in Nat /\ DOMAIN s = 1..Len(s)
    OBVIOUS
  <2>3. {j \in 1..Len(s) : s[j] = e} = {i}
    BY <2>1, <2>2 DEF Distinct
  <2>4. Min({i}) = i
    BY DEF Min
  <2>5. RemoveFirst(s, e) = RemoveAt(s, i)
    BY <1>2, <2>3, <2>4 DEF RemoveFirst, SelectInSeq
  <2>6. PICK r : r = RemoveAt(s, i)
    OBVIOUS
  <2>7. /\ r \in Seq(Turn) /\ Len(r) = Len(s) - 1 /\ DOMAIN r = 1..Len(s) - 1
        /\ \A j \in 1..Len(s) - 1 : r[j] = IF j < i THEN s[j] ELSE s[j + 1]
    <3>1. /\ RemoveAt(s, i) \in Seq(Turn) /\ Len(RemoveAt(s, i)) = Len(s) - 1
          /\ \A j \in 1..Len(s) - 1 : RemoveAt(s, i)[j] = IF j < i THEN s[j] ELSE s[j + 1]
      BY RemoveAtShape
    <3> QED BY <2>6, <3>1
  <2>8. Distinct(r)
    <3> SUFFICES ASSUME NEW j \in 1..Len(s) - 1, NEW k \in 1..Len(s) - 1, r[j] = r[k] PROVE j = k
      BY <2>7 DEF Distinct
    <3>1. PICK x \in 1..Len(s) : r[j] = s[x] /\ x = IF j < i THEN j ELSE j + 1
      <4>1. (IF j < i THEN j ELSE j + 1) \in 1..Len(s)
        BY <2>2
      <4> QED BY <2>7, <4>1
    <3>2. PICK y \in 1..Len(s) : r[k] = s[y] /\ y = IF k < i THEN k ELSE k + 1
      <4>1. (IF k < i THEN k ELSE k + 1) \in 1..Len(s)
        BY <2>2
      <4> QED BY <2>7, <4>1
    <3>3. x = y
      BY <2>2, <3>1, <3>2 DEF Distinct
    <3> QED BY <3>1, <3>2, <3>3
  <2>9. ToSet(r) = ToSet(s) \ {e}
    <3>1. ASSUME NEW j \in DOMAIN r PROVE r[j] \in ToSet(s) \ {e}
      <4>1. (IF j < i THEN j ELSE j + 1) \in 1..Len(s) /\ (IF j < i THEN j ELSE j + 1) # i
        BY <2>2, <2>7
      <4>2. PICK m \in DOMAIN s : r[j] = s[m] /\ m # i
        BY <2>2, <2>7, <4>1
      <4> QED BY <2>1, <2>2, <4>2 DEF ToSet, Distinct
    <3>2. ASSUME NEW m \in DOMAIN s, s[m] # e PROVE s[m] \in ToSet(r)
      <4>1. CASE m < i
        <5>1. m \in 1..Len(s) - 1 /\ r[m] = s[m]
          BY <2>2, <2>7, <4>1
        <5> QED BY <2>7, <5>1 DEF ToSet
      <4>2. CASE m > i
        <5>1. m - 1 \in 1..Len(s) - 1 /\ ~ (m - 1 < i) /\ (m - 1) + 1 = m
          BY <2>2, <4>2
        <5>2. r[m - 1] = s[m]
          BY <2>7, <5>1
        <5> QED BY <2>7, <5>1, <5>2 DEF ToSet
      <4> QED BY <2>1, <2>2, <3>2, <4>1, <4>2
    <3> QED BY <3>1, <3>2 DEF ToSet
  <2> QED BY <2>5, <2>6, <2>7, <2>8, <2>9
<1> QED BY <1>1, <1>2

Intact(b, d, acc) ==
  /\ b \in Buffer /\ d \in Seq(Ev) /\ acc \in Seq(Ev)
  /\ b.deltas = CountIn(b.queue, Deltas) /\ b.deltas <= DeltaSoftCap
  /\ Faithful(b.queue, d, acc, b.lostDeltas, b.lostAny)

LEMMA TrackShape ==
  ASSUME NEW b \in Buffer, NEW e \in Ev, Distinct(b.pending), e.type = "turn_started" => e.turn \in Turn
  PROVE  LET p == TrackTurnState(b, e).pending IN
         /\ TrackTurnState(b, e) = [b EXCEPT !.pending = p]
         /\ p \in Seq(Turn) /\ Distinct(p)
         /\ ToSet(p) = CASE e.type = "turn_started" -> ToSet(b.pending) \cup {e.turn}
                         [] e.type \in {"turn_terminal", "turn_lost"} -> ToSet(b.pending) \ {e.turn}
                         [] OTHER -> ToSet(b.pending)
<1>1. PICK p0 : p0 = b.pending
  OBVIOUS
<1>2. p0 \in Seq(Turn) /\ Distinct(p0)
  BY <1>1 DEF Buffer
<1>3. PICK p : p = CASE e.type = "turn_started" /\ e.turn \notin ToSet(p0) -> Append(p0, e.turn)
                     [] e.type \in {"turn_terminal", "turn_lost"} -> RemoveFirst(p0, e.turn)
                     [] OTHER -> p0
  OBVIOUS
<1>4. TrackTurnState(b, e) = [b EXCEPT !.pending = p] /\ [b EXCEPT !.pending = p].pending = p
  BY <1>1, <1>3 DEF TrackTurnState, Buffer
<1>5. /\ p \in Seq(Turn) /\ Distinct(p)
      /\ ToSet(p) = CASE e.type = "turn_started" -> ToSet(p0) \cup {e.turn}
                      [] e.type \in {"turn_terminal", "turn_lost"} -> ToSet(p0) \ {e.turn}
                      [] OTHER -> ToSet(p0)
  <2>1. CASE e.type = "turn_started" /\ e.turn \notin ToSet(p0)
    <3>1. p = Append(p0, e.turn) /\ e.turn \in Turn
      BY <1>3, <2>1
    <3>2. /\ p \in Seq(Turn) /\ Len(p) = Len(p0) + 1 /\ Len(p0) \in Nat
          /\ p[Len(p0) + 1] = e.turn /\ \A j \in 1..Len(p0) : p[j] = p0[j]
          /\ DOMAIN p = 1..Len(p0) + 1 /\ DOMAIN p0 = 1..Len(p0)
      BY <1>2, <3>1
    <3>3. \A j \in 1..Len(p0) : p0[j] # e.turn
      BY <2>1, <3>2 DEF ToSet
    <3>4. Distinct(p)
      <4> SUFFICES ASSUME NEW i \in 1..Len(p0) + 1, NEW j \in 1..Len(p0) + 1, p[i] = p[j] PROVE i = j
        BY <3>2 DEF Distinct
      <4>1. CASE i \in 1..Len(p0) /\ j \in 1..Len(p0)
        BY <1>2, <3>2, <4>1 DEF Distinct
      <4>2. CASE i = Len(p0) + 1 /\ j \in 1..Len(p0)
        BY <3>2, <3>3, <4>2
      <4>3. CASE i \in 1..Len(p0) /\ j = Len(p0) + 1
        BY <3>2, <3>3, <4>3
      <4>4. \A k \in 1..Len(p0) + 1 : k \in 1..Len(p0) \/ k = Len(p0) + 1
        BY <3>2
      <4> QED BY <4>1, <4>2, <4>3, <4>4
    <3>5. ToSet(p) = ToSet(p0) \cup {e.turn}
      <4>1. ASSUME NEW j \in DOMAIN p PROVE p[j] \in ToSet(p0) \cup {e.turn}
        <5>1. CASE j = Len(p0) + 1
          BY <3>2, <5>1
        <5>2. CASE j # Len(p0) + 1
          <6>1. j \in DOMAIN p0 /\ p[j] = p0[j]
            BY <3>2, <5>2
          <6> QED BY <6>1 DEF ToSet
        <5> QED BY <5>1, <5>2
      <4>2. e.turn \in ToSet(p)
        <5>1. Len(p0) + 1 \in DOMAIN p
          BY <3>2
        <5> QED BY <3>2, <5>1 DEF ToSet
      <4>3. ASSUME NEW j \in DOMAIN p0 PROVE p0[j] \in ToSet(p)
        <5>1. j \in DOMAIN p /\ p[j] = p0[j]
          BY <3>2
        <5> QED BY <5>1 DEF ToSet
      <4> QED BY <4>1, <4>2, <4>3 DEF ToSet
    <3> QED BY <2>1, <3>2, <3>4, <3>5
  <2>2. CASE e.type \in {"turn_terminal", "turn_lost"}
    <3>1. p = RemoveFirst(p0, e.turn)
      BY <1>3, <2>2
    <3>2. /\ RemoveFirst(p0, e.turn) \in Seq(Turn) /\ Distinct(RemoveFirst(p0, e.turn))
          /\ ToSet(RemoveFirst(p0, e.turn)) = ToSet(p0) \ {e.turn}
      BY <1>2, RemoveFirstShape
    <3> QED BY <2>2, <3>1, <3>2
  <2>3. CASE e.type = "turn_started" /\ e.turn \in ToSet(p0)
    BY <1>2, <1>3, <2>3
  <2>4. CASE e.type # "turn_started" /\ e.type \notin {"turn_terminal", "turn_lost"}
    BY <1>2, <1>3, <2>4
  <2> QED BY <2>1, <2>2, <2>3, <2>4
<1> QED BY <1>1, <1>4, <1>5

LEMMA TrackKeeps ==
  ASSUME NEW b, NEW d, NEW acc, Intact(b, d, acc), NEW p \in Seq(Turn)
  PROVE  Intact([b EXCEPT !.pending = p], d, acc)
<1>1. PICK w : w = [b EXCEPT !.pending = p]
  OBVIOUS
<1>2. b \in Buffer
  BY DEF Intact
<1>3. w \in Buffer /\ w.queue = b.queue /\ w.deltas = b.deltas /\ w.lostDeltas = b.lostDeltas /\ w.lostAny = b.lostAny
  BY <1>1, <1>2 DEF Buffer
<1> QED BY <1>1, <1>3 DEF Intact

LEMMA WalkKeeps ==
  ASSUME NEW b, NEW d, NEW acc, Intact(b, d, acc), NEW e \in Ev
  PROVE  /\ Intact(WalkAndDrop(b, e), d, acc)
         /\ WalkAndDrop(b, e).pending = b.pending
         /\ IsDelta(e) => WalkAndDrop(b, e).deltas < DeltaSoftCap
<1>1. PICK q, lost : q = b.queue /\ lost = b.lostDeltas
  OBVIOUS
<1>2. /\ b \in Buffer /\ d \in Seq(Ev) /\ acc \in Seq(Ev) /\ q \in Seq(Ev) /\ lost \in Nat /\ b.lostAny \in Nat
      /\ b.deltas = CountIn(q, Deltas) /\ b.deltas \in Nat /\ b.deltas <= DeltaSoftCap
      /\ Faithful(q, d, acc, lost, b.lostAny) /\ DeltaSoftCap \in Nat /\ DeltaSoftCap > 0
  BY <1>1, BufferParts, CapAssumption DEF Intact
<1>3. CASE ~(IsDelta(e) /\ b.deltas >= DeltaSoftCap)
  <2>1. WalkAndDrop(b, e) = b
    BY <1>3 DEF WalkAndDrop
  <2> QED BY <1>2, <1>3, <2>1
<1>4. CASE IsDelta(e) /\ b.deltas >= DeltaSoftCap
  <2>1. CountIn(q, Deltas) > 0
    BY <1>2, <1>4
  <2>2. PICK i \in 1..Len(q) : SelectInSeq(q, IsDelta) = i /\ i # 0 /\ Oldest(q, i)
    BY <1>2, <2>1, OldestDelta
  <2>3. PICK g : g = Event("overflow_delta", NoTurn, lost + 1)
    OBVIOUS
  <2>4. g \in Ev /\ IsGap(g) /\ g.n = lost + 1
    <3>1. lost + 1 \in Nat
      BY <1>2
    <3> QED BY <2>3, <3>1, MarkerKinds
  <2>5. PICK r : r = [q EXCEPT ![i] = g]
    OBVIOUS
  <2>6. /\ r \in Seq(Ev) /\ Faithful(r, d, acc, lost + 1, b.lostAny)
        /\ CountIn(r, Deltas) = CountIn(q, Deltas) - 1
    <3>1. /\ [q EXCEPT ![i] = g] \in Seq(Ev)
          /\ Faithful([q EXCEPT ![i] = g], d, acc, lost + 1, b.lostAny)
          /\ CountIn([q EXCEPT ![i] = g], Deltas) = CountIn(q, Deltas) - 1
      BY <1>2, <2>2, <2>4, ReplaceKeeps
    <3> QED BY <2>5, <3>1
  <2>7. PICK w : w = [b EXCEPT !.queue = r, !.lostDeltas = lost + 1, !.deltas = b.deltas - 1]
    OBVIOUS
  <2>8. WalkAndDrop(b, e) = w
    <3>1. SelectInSeq(b.queue, IsDelta) = i
      BY <1>1, <2>2
    <3>2. WalkAndDrop(b, e)
            = [b EXCEPT !.queue = ReplaceAt(b.queue, i, Event("overflow_delta", NoTurn, b.lostDeltas + 1)),
                        !.lostDeltas = b.lostDeltas + 1, !.deltas = b.deltas - 1]
      BY <1>4, <2>2, <3>1 DEF WalkAndDrop
    <3>3. ReplaceAt(b.queue, i, Event("overflow_delta", NoTurn, b.lostDeltas + 1)) = r
      BY <1>1, <2>3, <2>5 DEF ReplaceAt
    <3> QED BY <1>1, <2>7, <3>2, <3>3
  <2>9. b.deltas - 1 \in Nat /\ lost + 1 \in Nat
    BY <1>2, <2>1
  <2>10. /\ w \in Buffer /\ w.queue = r /\ w.deltas = b.deltas - 1 /\ w.lostDeltas = lost + 1
         /\ w.lostAny = b.lostAny /\ w.pending = b.pending
    BY <1>2, <2>6, <2>7, <2>9 DEF Buffer, Ev
  <2>11. Intact(w, d, acc)
    BY <1>2, <2>6, <2>10 DEF Intact
  <2> QED BY <1>2, <2>8, <2>10, <2>11
<1> QED BY <1>3, <1>4

LEMMA PushedKeeps ==
  ASSUME NEW b, NEW d, NEW acc, Intact(b, d, acc), NEW e \in Ev, IsReal(e), e.n = Len(acc) + 1,
         IsDelta(e) => b.deltas < DeltaSoftCap
  PROVE  Intact(Push(b, e), d, Append(acc, e)) /\ Push(b, e).pending = b.pending
<1>1. PICK q, w : q = b.queue /\ w = Push(b, e)
  OBVIOUS
<1>2. /\ b \in Buffer /\ d \in Seq(Ev) /\ acc \in Seq(Ev) /\ q \in Seq(Ev)
      /\ b.lostDeltas \in Nat /\ b.lostAny \in Nat
      /\ b.deltas = CountIn(q, Deltas) /\ b.deltas \in Nat /\ b.deltas <= DeltaSoftCap
      /\ Faithful(q, d, acc, b.lostDeltas, b.lostAny) /\ DeltaSoftCap \in Nat
  BY <1>1, BufferParts, CapAssumption DEF Intact
<1>3. /\ Append(q, e) \in Seq(Ev)
      /\ Faithful(Append(q, e), d, Append(acc, e), b.lostDeltas, b.lostAny)
      /\ CountIn(Append(q, e), Deltas) = CountIn(q, Deltas) + (IF IsDelta(e) THEN 1 ELSE 0)
  BY <1>2, PushKeeps
<1>4. PICK r, n : r = Append(q, e) /\ n = IF IsDelta(e) THEN b.deltas + 1 ELSE b.deltas
  OBVIOUS
<1>5. w = [b EXCEPT !.queue = r, !.deltas = n]
  BY <1>1, <1>4 DEF Push
<1>6. n \in Nat /\ n <= DeltaSoftCap /\ n = CountIn(r, Deltas)
  BY <1>2, <1>3, <1>4
<1>7. /\ w \in Buffer /\ w.queue = r /\ w.deltas = n /\ w.lostDeltas = b.lostDeltas
      /\ w.lostAny = b.lostAny /\ w.pending = b.pending
  BY <1>2, <1>3, <1>4, <1>5, <1>6 DEF Buffer, Ev
<1>8. Append(acc, e) \in Seq(Ev)
  BY <1>2
<1>9. Intact(w, d, Append(acc, e))
  BY <1>2, <1>3, <1>4, <1>6, <1>7, <1>8 DEF Intact
<1> QED BY <1>1, <1>7, <1>9

LEMMA CountsAreCounts ==
  ASSUME NEW s \in Seq(Ev)
  PROVE  /\ DeltasIn(s) = CountIn(s, Deltas)
         /\ Cardinality({i \in DOMAIN s : IsReal(s[i])}) = CountIn(s, Reals)
<1>1. \A i \in DOMAIN s : s[i] \in Ev
  OBVIOUS
<1>2. {i \in DOMAIN s : IsDelta(s[i])} = Places(s, Deltas)
  BY <1>1 DEF Places, Deltas
<1>3. {i \in DOMAIN s : IsReal(s[i])} = Places(s, Reals)
  BY <1>1 DEF Places, Reals
<1> QED BY <1>2, <1>3, Zenon DEF DeltasIn, CountIn

LEMMA CapKeeps ==
  ASSUME NEW b, NEW d, NEW acc, Intact(b, d, acc)
  PROVE  /\ Intact(HardCap(b), d, acc) /\ HardCap(b).pending = b.pending
         /\ Len(HardCap(b).queue) <= TotalHardCap + 1
<1>1. PICK q, m, lost, any : q = b.queue /\ m = Len(b.queue) - TotalHardCap /\ lost = b.lostDeltas /\ any = b.lostAny
  OBVIOUS
<1>2. /\ b \in Buffer /\ d \in Seq(Ev) /\ acc \in Seq(Ev) /\ q \in Seq(Ev)
      /\ lost \in Nat /\ any \in Nat
      /\ b.deltas = CountIn(q, Deltas) /\ b.deltas \in Nat /\ b.deltas <= DeltaSoftCap
      /\ Faithful(q, d, acc, lost, any) /\ TotalHardCap \in Nat /\ TotalHardCap > 0 /\ DeltaSoftCap \in Nat
      /\ Len(q) \in Nat
  BY <1>1, BufferParts, CapAssumption DEF Intact
<1>3. CASE m <= 0
  <2>1. HardCap(b) = b
    BY <1>1, <1>3 DEF HardCap
  <2> QED BY <1>1, <1>2, <1>3, <2>1
<1>4. CASE ~ (m <= 0)
  <2>1. m \in 1..Len(q) /\ m \in 0..Len(q)
    BY <1>1, <1>2, <1>4
  <2>2. PICK out, rest, c : /\ out = SubSeq(q, 1, m) /\ rest = SubSeq(q, m + 1, Len(q))
                            /\ c = CountIn(out, Reals)
    OBVIOUS
  <2>3. out \in Seq(Ev)
    BY <1>2, <2>1, <2>2, EvSplit
  <2>4. c \in Nat /\ CountIn(out, Deltas) \in Nat
    BY <2>2, <2>3, CountIsNat
  <2>5. PICK g : g = Event("overflow_lifecycle", NoTurn, any + c)
    OBVIOUS
  <2>6. g \in Ev /\ ~IsReal(g)
    <3>1. any + c \in Nat
      BY <1>2, <2>4
    <3> QED BY <2>5, <3>1, MarkerKinds
  <2>7. /\ rest \in Seq(Ev) /\ <<g>> \o rest \in Seq(Ev)
        /\ Len(rest) = Len(q) - m /\ Len(<<g>> \o rest) = Len(q) - m + 1
        /\ CountIn(rest, Deltas) = CountIn(q, Deltas) - CountIn(out, Deltas)
        /\ CountIn(<<g>> \o rest, Deltas) = CountIn(q, Deltas) - CountIn(out, Deltas)
        /\ c = 0 => Faithful(rest, d, acc, lost, any)
        /\ c > 0 => Faithful(<<g>> \o rest, d, acc, lost, any + c)
    BY <1>2, <2>1, <2>2, <2>6, CutKeeps
  <2>8. DeltasIn(out) = CountIn(out, Deltas) /\ Cardinality({i \in DOMAIN out : IsReal(out[i])}) = c
    BY <2>2, <2>3, CountsAreCounts
  <2>9. PICK h, n : h = (IF c > 0 THEN <<g>> \o rest ELSE rest) /\ n = b.deltas - CountIn(out, Deltas)
    OBVIOUS
  <2>10. HardCap(b) = [b EXCEPT !.queue = h, !.deltas = n, !.lostAny = any + c]
    BY <1>1, <1>4, <2>2, <2>5, <2>8, <2>9 DEF HardCap
  <2>11. h \in Seq(Ev) /\ Faithful(h, d, acc, lost, any + c) /\ Len(h) <= TotalHardCap + 1 /\ n = CountIn(h, Deltas)
    <3>1. CASE c > 0
      BY <1>1, <1>2, <2>1, <2>7, <2>9, <3>1
    <3>2. CASE c = 0
      BY <1>1, <1>2, <2>1, <2>7, <2>9, <3>2
    <3> QED BY <2>4, <3>1, <3>2
  <2>12. n \in Nat /\ n <= DeltaSoftCap /\ any + c \in Nat
    <3>1. n \in Nat
      BY <2>11, CountIsNat
    <3> QED BY <1>2, <2>4, <2>9, <3>1
  <2>13. PICK w : w = [b EXCEPT !.queue = h, !.deltas = n, !.lostAny = any + c]
    OBVIOUS
  <2>14. /\ w \in Buffer /\ w.queue = h /\ w.deltas = n /\ w.lostDeltas = b.lostDeltas
         /\ w.lostAny = any + c /\ w.pending = b.pending
    BY <1>2, <2>11, <2>12, <2>13 DEF Buffer, Ev
  <2>15. Intact(w, d, acc)
    BY <1>1, <1>2, <2>11, <2>12, <2>14 DEF Intact
  <2> QED BY <2>10, <2>11, <2>13, <2>14, <2>15
<1> QED BY <1>3, <1>4

LEMMA EnqueueKeeps ==
  ASSUME NEW b, NEW d, NEW acc, Intact(b, d, acc), Distinct(b.pending),
         NEW e \in Ev, IsReal(e), e.n = Len(acc) + 1, e.type = "turn_started" => e.turn \in Turn
  PROVE  /\ Intact(Enqueue(b, e), d, Append(acc, e))
         /\ Len(Enqueue(b, e).queue) <= TotalHardCap + 1
         /\ Distinct(Enqueue(b, e).pending)
         /\ ToSet(Enqueue(b, e).pending)
              = CASE e.type = "turn_started" -> ToSet(b.pending) \cup {e.turn}
                  [] e.type \in {"turn_terminal", "turn_lost"} -> ToSet(b.pending) \ {e.turn}
                  [] OTHER -> ToSet(b.pending)
<1>1. PICK b1, b2, b3, b4 : /\ b1 = TrackTurnState(b, e) /\ b2 = WalkAndDrop(b1, e)
                            /\ b3 = Push(b2, e) /\ b4 = HardCap(b3)
  OBVIOUS
<1>2. PICK p : p = b1.pending
  OBVIOUS
<1>3. b \in Buffer
  BY DEF Intact
<1>4. /\ b1 = [b EXCEPT !.pending = p] /\ p \in Seq(Turn) /\ Distinct(p)
      /\ ToSet(p) = CASE e.type = "turn_started" -> ToSet(b.pending) \cup {e.turn}
                      [] e.type \in {"turn_terminal", "turn_lost"} -> ToSet(b.pending) \ {e.turn}
                      [] OTHER -> ToSet(b.pending)
  <2>1. LET p1 == TrackTurnState(b, e).pending IN
        /\ TrackTurnState(b, e) = [b EXCEPT !.pending = p1]
        /\ p1 \in Seq(Turn) /\ Distinct(p1)
        /\ ToSet(p1) = CASE e.type = "turn_started" -> ToSet(b.pending) \cup {e.turn}
                         [] e.type \in {"turn_terminal", "turn_lost"} -> ToSet(b.pending) \ {e.turn}
                         [] OTHER -> ToSet(b.pending)
    BY <1>3, TrackShape
  <2> QED BY <1>1, <1>2, <2>1
<1>5. Intact(b1, d, acc)
  BY <1>4, TrackKeeps
<1>6. Intact(b2, d, acc) /\ b2.pending = p /\ (IsDelta(e) => b2.deltas < DeltaSoftCap)
  BY <1>1, <1>2, <1>5, WalkKeeps
<1>7. Intact(b3, d, Append(acc, e)) /\ b3.pending = p
  BY <1>1, <1>6, PushedKeeps
<1>8. Intact(b4, d, Append(acc, e)) /\ b4.pending = p /\ Len(b4.queue) <= TotalHardCap + 1
  BY <1>1, <1>7, CapKeeps
<1>9. Enqueue(b, e) = b4
  BY <1>1 DEF Enqueue
<1> QED BY <1>4, <1>8, <1>9

-----------------------------------------------------------------------------
(* Many events at once                                                     *)

\* after[k] is the buffer after k of the events.
Stepwise(b, es, n, after) ==
  /\ after[0] = b
  /\ \A k \in 1..n : after[k] = Enqueue(after[k - 1], es[k])
  /\ EnqueueAll(b, es) = after[n]

LEMMA EnqueueAllIsStepwise ==
  ASSUME NEW b, NEW es, NEW n \in Nat, Len(es) = n
  PROVE  \E after : Stepwise(b, es, n, after)
<1> DEFINE Runs(m, f) == f = [k \in 0..m |-> IF k = 0 THEN b ELSE Enqueue(f[k - 1], es[k])]
           F == {m \in Nat : \E f : Runs(m, f)}
<1>1. 0 \in F
  <2>1. PICK f : f = [k \in 0..0 |-> b]
    OBVIOUS
  <2>2. f = [k \in 0..0 |-> IF k = 0 THEN b ELSE Enqueue(f[k - 1], es[k])]
    BY <2>1
  <2> QED BY <2>2
<1>2. ASSUME NEW m \in Nat, m \in F PROVE m + 1 \in F
  <2>1. PICK f : Runs(m, f)
    BY <1>2
  <2>2. PICK v : v = Enqueue(f[m], es[m + 1])
    OBVIOUS
  <2>3. PICK g : g = [k \in 0..m + 1 |-> IF k <= m THEN f[k] ELSE v]
    OBVIOUS
  <2>4. ASSUME NEW k \in 0..m + 1
        PROVE  g[k] = IF k = 0 THEN b ELSE Enqueue(g[k - 1], es[k])
    <3>1. CASE k = 0
      BY <2>1, <2>3, <3>1
    <3>2. CASE k # 0 /\ k <= m
      <4>1. k - 1 \in 0..m + 1 /\ k - 1 <= m /\ k \in 0..m
        BY <3>2
      <4>2. g[k] = f[k] /\ g[k - 1] = f[k - 1]
        BY <2>3, <3>2, <4>1
      <4>3. f[k] = Enqueue(f[k - 1], es[k])
        BY <2>1, <3>2, <4>1
      <4> QED BY <3>2, <4>2, <4>3
    <3>3. CASE k = m + 1
      <4>1. k - 1 = m /\ m \in 0..m + 1 /\ ~ (k <= m) /\ k # 0
        BY <3>3
      <4>2. g[k] = v /\ g[k - 1] = f[m]
        BY <2>3, <4>1
      <4> QED BY <2>2, <3>3, <4>1, <4>2
    <3> QED BY <3>1, <3>2, <3>3
  <2>5. g = [k \in 0..m + 1 |-> g[k]]
    BY <2>3
  <2>6. Runs(m + 1, g)
    BY <2>4, <2>5
  <2> QED BY <2>6
<1>3. Nat \subseteq F
  <2> HIDE DEF F
  <2> QED BY <1>1, <1>2, SetInduction
<1>4. \E f : Runs(n, f)
  BY <1>3
<1> DEFINE a == CHOOSE f : Runs(n, f)
<1>5. Runs(n, a)
  <2> HIDE DEF Runs
  <2> QED BY <1>4
<1>6. EnqueueAll(b, es) = a[n]
  BY DEF EnqueueAll
<1> HIDE DEF a
<1>7. a[0] = b /\ \A k \in 1..n : a[k] = Enqueue(a[k - 1], es[k])
  BY <1>5
<1> QED BY <1>6, <1>7 DEF Stepwise

-----------------------------------------------------------------------------
(* Turns                                                                   *)

Started(acc, t) == \E i \in DOMAIN acc : acc[i].type = "turn_started" /\ acc[i].turn = t

\* P are the turns in flight: they have started, and every other turn that has
\* started has exactly one end.
Turns(acc, P) ==
  \A t \in Turn :
    /\ t \in P => Started(acc, t)
    /\ CountIn(acc, Ends(t)) = IF Started(acc, t) /\ t \notin P THEN 1 ELSE 0

\* What codex, or the end of the connection, may add.
Fits(e, acc, P) ==
  /\ e.type = "turn_started" => e.turn \in Turn /\ ~Started(acc, e.turn)
  /\ e.type \in {"turn_terminal", "turn_lost"} => e.turn \in P

LEMMA TurnsKeep ==
  ASSUME NEW acc \in Seq(Ev), NEW P \in SUBSET Turn, Turns(acc, P), NEW e \in Ev, Fits(e, acc, P),
         NEW Q, Q = CASE e.type = "turn_started" -> P \cup {e.turn}
                      [] e.type \in {"turn_terminal", "turn_lost"} -> P \ {e.turn}
                      [] OTHER -> P
  PROVE  Turns(Append(acc, e), Q)
<1>1. PICK a : a = Append(acc, e)
  OBVIOUS
<1>2. /\ a \in Seq(Ev) /\ DOMAIN a = 1..Len(acc) + 1 /\ DOMAIN acc = 1..Len(acc) /\ Len(acc) \in Nat
      /\ a[Len(acc) + 1] = e /\ \A j \in 1..Len(acc) : a[j] = acc[j]
  BY <1>1
<1>3. ASSUME NEW t \in Turn
      PROVE  Started(a, t) <=> Started(acc, t) \/ (e.type = "turn_started" /\ e.turn = t)
  <2>1. ASSUME Started(acc, t) PROVE Started(a, t)
    <3>1. PICK i \in 1..Len(acc) : acc[i].type = "turn_started" /\ acc[i].turn = t
      BY <1>2, <2>1 DEF Started
    <3>2. i \in DOMAIN a /\ a[i] = acc[i]
      BY <1>2
    <3> QED BY <3>1, <3>2 DEF Started
  <2>2. ASSUME e.type = "turn_started", e.turn = t PROVE Started(a, t)
    <3>1. Len(acc) + 1 \in DOMAIN a
      BY <1>2
    <3> QED BY <1>2, <2>2, <3>1 DEF Started
  <2>3. ASSUME Started(a, t) PROVE Started(acc, t) \/ (e.type = "turn_started" /\ e.turn = t)
    <3>1. PICK i \in 1..Len(acc) + 1 : a[i].type = "turn_started" /\ a[i].turn = t
      BY <1>2, <2>3 DEF Started
    <3>2. CASE i = Len(acc) + 1
      BY <1>2, <3>1, <3>2
    <3>3. CASE i # Len(acc) + 1
      <4>1. i \in 1..Len(acc) /\ a[i] = acc[i]
        BY <1>2, <3>3
      <4> QED BY <1>2, <3>1, <4>1 DEF Started
    <3> QED BY <3>2, <3>3
  <2> QED BY <2>1, <2>2, <2>3
<1>4. ASSUME NEW t \in Turn
      PROVE  /\ CountIn(a, Ends(t)) = CountIn(acc, Ends(t)) + (IF e \in Ends(t) THEN 1 ELSE 0)
             /\ (e \in Ends(t) <=> e.turn = t /\ e.type \in {"turn_terminal", "turn_lost"})
  BY <1>1, CountAppend DEF Ends
<1>5. ASSUME NEW t \in Turn
      PROVE  /\ t \in Q => Started(a, t)
             /\ CountIn(a, Ends(t)) = IF Started(a, t) /\ t \notin Q THEN 1 ELSE 0
  <2>1. /\ t \in P => Started(acc, t)
        /\ CountIn(acc, Ends(t)) = IF Started(acc, t) /\ t \notin P THEN 1 ELSE 0
    BY DEF Turns
  <2>2. CASE e.type = "turn_started"
    <3>1. Q = P \cup {e.turn} /\ ~Started(acc, e.turn) /\ e.type \notin {"turn_terminal", "turn_lost"}
      BY <2>2 DEF Fits
    <3>2. CountIn(a, Ends(t)) = CountIn(acc, Ends(t)) + 0
      BY <1>4, <3>1
    <3>3. Started(a, t) <=> Started(acc, t) \/ e.turn = t
      BY <1>3, <2>2
    <3>4. CASE e.turn = t
      BY <2>1, <3>1, <3>2, <3>3, <3>4
    <3>5. CASE e.turn # t
      BY <2>1, <3>1, <3>2, <3>3, <3>5
    <3> QED BY <3>4, <3>5
  <2>3. CASE e.type \in {"turn_terminal", "turn_lost"}
    <3>1. Q = P \ {e.turn} /\ e.turn \in P /\ e.type # "turn_started"
      BY <2>3 DEF Fits
    <3>2. CountIn(a, Ends(t)) = CountIn(acc, Ends(t)) + (IF e.turn = t THEN 1 ELSE 0)
      BY <1>4, <2>3
    <3>3. Started(a, t) <=> Started(acc, t)
      BY <1>3, <3>1
    <3>4. CASE e.turn = t
      BY <2>1, <3>1, <3>2, <3>3, <3>4
    <3>5. CASE e.turn # t
      BY <2>1, <3>1, <3>2, <3>3, <3>5
    <3> QED BY <3>4, <3>5
  <2>4. CASE e.type # "turn_started" /\ e.type \notin {"turn_terminal", "turn_lost"}
    <3>1. Q = P
      BY <2>4
    <3>2. CountIn(a, Ends(t)) = CountIn(acc, Ends(t)) + 0
      BY <1>4, <2>4
    <3>3. Started(a, t) <=> Started(acc, t)
      BY <1>3, <2>4
    <3> QED BY <2>1, <3>1, <3>2, <3>3
  <2> QED BY <2>2, <2>3, <2>4
<1> QED BY <1>1, <1>5 DEF Turns

\* The synthetic failures after n events.
Failures(p, n) == [i \in DOMAIN p |-> Event("turn_lost", p[i], n + i)]

\* They take every turn in flight off the list.
LEMMA EndKeeps ==
  ASSUME NEW b, NEW d, NEW acc, Intact(b, d, acc), Distinct(b.pending), Turns(acc, ToSet(b.pending)),
         Len(b.queue) <= TotalHardCap + 1,
         NEW es, es = Failures(b.pending, Len(acc))
  PROVE  LET c == EnqueueAll(b, es) IN
         /\ Intact(c, d, acc \o es) /\ Distinct(c.pending) /\ ToSet(c.pending) = {}
         /\ Len(c.queue) <= TotalHardCap + 1
         /\ Turns(acc \o es, {})
<1>1. PICK p, n : p = b.pending /\ n = Len(p)
  OBVIOUS
<1>2. /\ p \in Seq(Turn) /\ n \in Nat /\ DOMAIN p = 1..n /\ acc \in Seq(Ev) /\ Len(acc) \in Nat
      /\ Distinct(p) /\ Turns(acc, ToSet(p)) /\ \A i \in 1..n : p[i] \in Turn
  BY <1>1, BufferParts DEF Intact
<1>3. /\ Len(es) = n /\ es \in Seq(Ev)
      /\ \A i \in 1..n : /\ es[i] \in Ev /\ IsReal(es[i]) /\ es[i].n = Len(acc) + i
                         /\ es[i].type = "turn_lost" /\ es[i].turn = p[i]
  <2>1. es = [i \in 1..n |-> Event("turn_lost", p[i], Len(acc) + i)]
    BY <1>1, <1>2 DEF Failures
  <2>2. ASSUME NEW i \in 1..n
        PROVE  /\ es[i] \in Ev /\ IsReal(es[i]) /\ es[i].n = Len(acc) + i
               /\ es[i].type = "turn_lost" /\ es[i].turn = p[i]
    <3>1. p[i] \in Turn /\ Len(acc) + i \in Nat
      BY <1>2
    <3>2. es[i] = [type |-> "turn_lost", turn |-> p[i], n |-> Len(acc) + i]
      BY <2>1 DEF Event
    <3>3. es[i] \in [type : EventType, turn : Turn \cup {NoTurn}, n : Nat]
      BY <3>1, <3>2 DEF EventType
    <3> QED BY <3>2, <3>3 DEF Ev, IsReal, Marker
  <2>3. DOMAIN es = 1..n
    BY <2>1
  <2>4. es \in [1..n -> Ev]
    BY <2>1, <2>2, <2>3
  <2> QED BY <1>2, <2>2, <2>4
<1>4. PICK after : /\ after[0] = b
                   /\ \A k \in 1..n : after[k] = Enqueue(after[k - 1], es[k])
                   /\ EnqueueAll(b, es) = after[n]
  <2>1. \E after : Stepwise(b, es, n, after)
    BY <1>2, <1>3, EnqueueAllIsStepwise
  <2> QED BY <2>1 DEF Stepwise
<1> DEFINE Left(k) == {p[j] : j \in k + 1..n}
           A(k) == acc \o SubSeq(es, 1, k)
           Good(k) == /\ Intact(after[k], d, A(k)) /\ Distinct(after[k].pending)
                      /\ ToSet(after[k].pending) = Left(k)
                      /\ Len(after[k].queue) <= TotalHardCap + 1
                      /\ Turns(A(k), Left(k))
           F == {k \in Nat : k <= n => Good(k)}
<1>5. 0 \in F
  <2>1. SubSeq(es, 1, 0) = <<>>
    BY SubSeqEmpty
  <2>2. A(0) = acc
    BY <1>2, <2>1, ConcatEmptySeq
  <2>3. Left(0) = ToSet(p)
    BY <1>2 DEF ToSet
  <2> HIDE DEF A, Left
  <2> QED BY <1>1, <1>2, <1>4, <2>2, <2>3
<1>6. ASSUME NEW k \in Nat, k \in F PROVE k + 1 \in F
  <2> SUFFICES ASSUME k + 1 <= n PROVE Good(k + 1)
    OBVIOUS
  <2>1. PICK e, c, a, L : e = es[k + 1] /\ c = after[k] /\ a = A(k) /\ L = Left(k)
    OBVIOUS
  <2>2. k + 1 \in 1..n /\ k \in 0..n /\ k + 1 \in 0..n
    BY <1>2
  <2>3. e \in Ev /\ IsReal(e) /\ e.n = Len(acc) + (k + 1) /\ e.type = "turn_lost" /\ e.turn = p[k + 1]
    BY <1>3, <2>1, <2>2
  <2>4. /\ Intact(c, d, a) /\ Distinct(c.pending) /\ ToSet(c.pending) = L
        /\ Len(c.queue) <= TotalHardCap + 1 /\ Turns(a, L)
    <3> HIDE DEF A, Left
    <3> QED BY <1>2, <1>6, <2>1, <2>2
  <2>5. after[k + 1] = Enqueue(c, e)
    <3>1. (k + 1) - 1 = k
      OBVIOUS
    <3> QED BY <1>4, <2>1, <2>2, <3>1
  <2>6. SubSeq(es, 1, k) \in Seq(Ev) /\ Len(SubSeq(es, 1, k)) = k
    <3>1. es \in Seq(Ev) /\ k \in 0..Len(es)
      BY <1>3, <2>2
    <3> QED BY <3>1, FrontShape
  <2>7. a \in Seq(Ev) /\ Len(a) = Len(acc) + k
    <3>1. /\ acc \o SubSeq(es, 1, k) \in Seq(Ev)
          /\ Len(acc \o SubSeq(es, 1, k)) = Len(acc) + Len(SubSeq(es, 1, k))
      BY <1>2, <2>6, EvConcat
    <3> QED BY <2>1, <2>6, <3>1
  <2>8. A(k + 1) = Append(a, e)
    <3>1. SubSeq(es, 1, k + 1) = Append(SubSeq(es, 1, k), e)
      <4>1. es \in Seq(Ev) /\ 1 \in 1..Len(es) /\ k + 1 \in 1..Len(es)
        BY <1>2, <1>3, <2>2
      <4>2. SubSeq(es, 1, k + 1) = SubSeq(es, 1, (k + 1) - 1) \o <<es[k + 1]>>
        BY <4>1, SubSeqRecursiveSecond
      <4>3. (k + 1) - 1 = k
        OBVIOUS
      <4>4. Append(SubSeq(es, 1, k), e) = SubSeq(es, 1, k) \o <<e>>
        BY <2>3, <2>6, AppendIsConcat
      <4> QED BY <2>1, <4>2, <4>3, <4>4
    <3>2. acc \o Append(SubSeq(es, 1, k), e) = Append(acc \o SubSeq(es, 1, k), e)
      BY <1>2, <2>3, <2>6, ConcatAppend
    <3> QED BY <2>1, <3>1, <3>2
  <2>9. Left(k + 1) = L \ {p[k + 1]} /\ p[k + 1] \in L /\ L \in SUBSET Turn
    <3>1. ASSUME NEW j \in k + 1..n PROVE j \in DOMAIN p /\ p[j] \in Turn
      BY <1>2
    <3>2. k + 1 \in k + 1..n
      BY <1>2
    <3>3. \A j \in k + 1..n : j # k + 1 <=> j \in (k + 1) + 1..n
      BY <1>2
    <3>4. \A j \in k + 1..n : p[j] = p[k + 1] => j = k + 1
      BY <1>2, <3>1, <3>2 DEF Distinct
    <3>5. Left(k + 1) \subseteq L \ {p[k + 1]}
      <4> SUFFICES ASSUME NEW j \in (k + 1) + 1..n PROVE p[j] \in L /\ p[j] # p[k + 1]
        OBVIOUS
      <4>1. j \in k + 1..n /\ j # k + 1
        BY <1>2
      <4> QED BY <2>1, <3>4, <4>1
    <3>6. L \ {p[k + 1]} \subseteq Left(k + 1)
      <4> SUFFICES ASSUME NEW j \in k + 1..n, p[j] # p[k + 1] PROVE p[j] \in Left(k + 1)
        BY <2>1
      <4> QED BY <3>3
    <3> QED BY <2>1, <3>1, <3>2, <3>5, <3>6
  <2>10. /\ Intact(Enqueue(c, e), d, Append(a, e)) /\ Len(Enqueue(c, e).queue) <= TotalHardCap + 1
         /\ Distinct(Enqueue(c, e).pending)
         /\ ToSet(Enqueue(c, e).pending) = ToSet(c.pending) \ {e.turn}
    <3>1. e.n = Len(a) + 1 /\ e.type # "turn_started"
      BY <1>2, <2>3, <2>7
    <3> QED BY <2>3, <2>4, <3>1, EnqueueKeeps
  <2>11. Turns(Append(a, e), L \ {e.turn})
    <3>1. Fits(e, a, L)
      BY <2>3, <2>9 DEF Fits
    <3>2. L \ {e.turn} = CASE e.type = "turn_started" -> L \cup {e.turn}
                           [] e.type \in {"turn_terminal", "turn_lost"} -> L \ {e.turn}
                           [] OTHER -> L
      BY <2>3
    <3> QED BY <2>3, <2>4, <2>7, <2>9, <3>1, <3>2, TurnsKeep
  <2> HIDE DEF A, Left
  <2> QED BY <2>3, <2>4, <2>5, <2>8, <2>9, <2>10, <2>11
<1>7. Nat \subseteq F
  <2> HIDE DEF F
  <2> QED BY <1>5, <1>6, SetInduction
<1>8. Good(n)
  <2>1. n \in F
    <3> HIDE DEF F
    <3> QED BY <1>2, <1>7
  <2> HIDE DEF Good
  <2> QED BY <1>2, <2>1
<1>9. A(n) = acc \o es
  BY <1>3, SubSeqFull
<1>10. Left(n) = {}
  <2>1. n + 1..n = {}
    BY <1>2
  <2> QED BY <2>1
<1> HIDE DEF A, Left
<1> QED BY <1>4, <1>8, <1>9, <1>10

-----------------------------------------------------------------------------
(* Reading                                                                 *)

\* What is read moves from the one end of the stream to the other.
LEMMA MoveKeeps ==
  ASSUME NEW q \in Seq(Ev), NEW d \in Seq(Ev), NEW acc \in Seq(Ev), NEW lost \in Nat, NEW any \in Nat,
         Faithful(q, d, acc, lost, any), NEW q2 \in Seq(Ev), NEW d2 \in Seq(Ev),
         d2 \o q2 = d \o q, Len(d2) >= Len(d)
  PROVE  Faithful(q2, d2, acc, lost, any)
<1>1. PICK s : s = d \o q
  OBVIOUS
<1>2. s \in Seq(Ev) /\ Len(d) \in Nat /\ Len(d2) \in Nat /\ DOMAIN s \subseteq Nat
  BY <1>1
<1>3. ASSUME InPlace(s, Len(d), acc, lost) PROVE InPlace(s, Len(d2), acc, lost)
  BY <1>2, <1>3 DEF InPlace
<1> QED BY <1>1, <1>3 DEF Faithful

LEMMA DrainKeeps ==
  ASSUME NEW b, NEW acc, Intact(b, delivered, acc), waiting \in 0..MaxWaiters,
         NEW last \in BOOLEAN, Drain(b, last)
  PROVE  /\ Intact(buf', delivered', acc) /\ buf'.pending = b.pending
         /\ Len(buf'.queue) <= Len(b.queue)
         /\ waiting' \in 0..MaxWaiters
         /\ waiting' > 0 => buf'.queue = <<>> /\ ~last
<1>1. PICK q, m : q = b.queue /\ m = IF Len(b.queue) < waiting THEN Len(b.queue) ELSE waiting
  OBVIOUS
<1>2. /\ b \in Buffer /\ delivered \in Seq(Ev) /\ acc \in Seq(Ev) /\ q \in Seq(Ev)
      /\ b.lostDeltas \in Nat /\ b.lostAny \in Nat /\ Len(q) \in Nat
      /\ b.deltas = CountIn(q, Deltas) /\ b.deltas \in Nat /\ b.deltas <= DeltaSoftCap
      /\ Faithful(q, delivered, acc, b.lostDeltas, b.lostAny) /\ DeltaSoftCap \in Nat
  BY <1>1, BufferParts, CapAssumption DEF Intact
<1>3. m \in 0..Len(q) /\ m <= waiting /\ m \in Nat /\ waiting \in Nat /\ MaxWaiters \in Nat
  BY <1>1, <1>2, NormBoundAssumption
<1>4. PICK out, rest : out = SubSeq(q, 1, m) /\ rest = SubSeq(q, m + 1, Len(q))
  OBVIOUS
<1>5. /\ out \in Seq(Ev) /\ rest \in Seq(Ev) /\ Len(rest) = Len(q) - m
      /\ out \o rest = q /\ CountIn(q, Deltas) = CountIn(out, Deltas) + CountIn(rest, Deltas)
  <2>1. /\ out \in Seq(Ev) /\ rest \in Seq(Ev) /\ Len(rest) = Len(q) - m
        /\ out \o rest = q /\ \A C : CountIn(q, C) = CountIn(out, C) + CountIn(rest, C)
    BY <1>2, <1>3, <1>4, EvSplit, Zenon
  <2> QED BY <2>1
<1>6. CountIn(out, Deltas) \in Nat /\ CountIn(rest, Deltas) \in Nat
  BY <1>5, CountIsNat
<1>7. PICK w, n : w = [b EXCEPT !.queue = rest, !.deltas = n] /\ n = b.deltas - CountIn(out, Deltas)
  <2>1. \A n : \E w : w = [b EXCEPT !.queue = rest, !.deltas = n]
    OBVIOUS
  <2> QED BY <2>1
<1>8. n \in Nat /\ n <= DeltaSoftCap /\ n = CountIn(rest, Deltas)
  BY <1>2, <1>5, <1>6, <1>7
<1>9. /\ w \in Buffer /\ w.queue = rest /\ w.deltas = n /\ w.lostDeltas = b.lostDeltas
      /\ w.lostAny = b.lostAny /\ w.pending = b.pending
  BY <1>2, <1>5, <1>7, <1>8 DEF Buffer, Ev
<1>10. DeltasIn(out) = CountIn(out, Deltas)
  BY <1>5, CountsAreCounts
<1>11. /\ delivered' = delivered \o out /\ buf' = w
       /\ waiting' = waiting - m - AnsweredDone(w, waiting - m, last)
  BY <1>1, <1>4, <1>7, <1>10 DEF Drain
<1>12. /\ delivered' \in Seq(Ev) /\ delivered' \o rest = delivered \o q
       /\ Len(delivered') >= Len(delivered)
  <2>1. delivered \o out \in Seq(Ev) /\ Len(delivered \o out) = Len(delivered) + Len(out)
        /\ Len(delivered) \in Nat /\ Len(out) \in Nat
    BY <1>2, <1>5, EvConcat
  <2>2. (delivered \o out) \o rest = delivered \o (out \o rest)
    BY <1>2, <1>5, EvAssoc, Zenon
  <2> QED BY <1>5, <1>11, <2>1, <2>2
<1>13. Faithful(rest, delivered', acc, b.lostDeltas, b.lostAny)
  BY <1>2, <1>5, <1>12, MoveKeeps
<1>14. Intact(buf', delivered', acc)
  BY <1>2, <1>8, <1>9, <1>11, <1>12, <1>13 DEF Intact
<1>15. Len(rest) = 0 => rest = <<>>
  BY <1>5
<1>16. waiting - m > 0 => rest = <<>>
  BY <1>1, <1>2, <1>3, <1>5, <1>15
<1>17. waiting' \in 0..MaxWaiters /\ (waiting' > 0 => rest = <<>> /\ ~last)
  BY <1>3, <1>9, <1>11, <1>16 DEF AnsweredDone
<1> QED BY <1>1, <1>2, <1>3, <1>5, <1>9, <1>11, <1>14, <1>17

LEMMA TakeHeadKeeps ==
  ASSUME NEW acc, Intact(buf, delivered, acc), TakeHead
  PROVE  /\ Intact(buf', delivered', acc) /\ buf'.pending = buf.pending
         /\ Len(buf'.queue) <= Len(buf.queue)
<1>1. PICK q, h, rest : q = buf.queue /\ h = Head(buf.queue) /\ rest = Tail(buf.queue)
  OBVIOUS
<1>2. /\ buf \in Buffer /\ delivered \in Seq(Ev) /\ acc \in Seq(Ev) /\ q \in Seq(Ev)
      /\ buf.lostDeltas \in Nat /\ buf.lostAny \in Nat /\ Len(q) \in Nat
      /\ buf.deltas = CountIn(q, Deltas) /\ buf.deltas \in Nat /\ buf.deltas <= DeltaSoftCap
      /\ Faithful(q, delivered, acc, buf.lostDeltas, buf.lostAny) /\ DeltaSoftCap \in Nat
      /\ q # <<>>
  BY <1>1, BufferParts, CapAssumption DEF Intact, TakeHead
<1>3. /\ h \in Ev /\ rest \in Seq(Ev) /\ q = <<h>> \o rest
      /\ CountIn(q, Deltas) = (IF h \in Deltas THEN 1 ELSE 0) + CountIn(rest, Deltas)
  <2>1. /\ Head(q) \in Ev /\ Tail(q) \in Seq(Ev) /\ q = <<Head(q)>> \o Tail(q)
        /\ CountIn(q, Deltas) = (IF Head(q) \in Deltas THEN 1 ELSE 0) + CountIn(Tail(q), Deltas)
    BY <1>2, CountHeadTail
  <2> QED BY <1>1, <2>1
<1>4. CountIn(rest, Deltas) \in Nat /\ (h \in Deltas <=> IsDelta(h))
  BY <1>3, CountIsNat, EventKinds
<1>5. PICK n : n = IF IsDelta(h) THEN buf.deltas - 1 ELSE buf.deltas
  OBVIOUS
<1>6. n \in Nat /\ n <= DeltaSoftCap /\ n = CountIn(rest, Deltas)
  <2> DEFINE x == CountIn(q, Deltas)
             y == CountIn(rest, Deltas)
  <2>3. x = buf.deltas /\ x \in Nat /\ x <= DeltaSoftCap /\ DeltaSoftCap \in Nat /\ y \in Nat
        /\ x = (IF h \in Deltas THEN 1 ELSE 0) + y
    BY <1>2, <1>3, <1>4
  <2> HIDE DEF x, y
  <2>1. CASE IsDelta(h)
    <3>1. x = 1 + y /\ n = x - 1
      BY <1>4, <1>5, <2>1, <2>3
    <3> QED BY <2>3, <3>1 DEF y
  <2>2. CASE ~IsDelta(h)
    <3>1. x = 0 + y /\ n = x
      BY <1>4, <1>5, <2>2, <2>3
    <3> QED BY <2>3, <3>1 DEF y
  <2> QED BY <2>1, <2>2
<1>7. /\ delivered' = Append(delivered, h)
      /\ buf' = [buf EXCEPT !.queue = rest, !.deltas = n]
  BY <1>1, <1>5 DEF TakeHead
<1>8. /\ buf' \in Buffer /\ buf'.queue = rest /\ buf'.deltas = n /\ buf'.lostDeltas = buf.lostDeltas
      /\ buf'.lostAny = buf.lostAny /\ buf'.pending = buf.pending
  BY <1>2, <1>3, <1>6, <1>7 DEF Buffer, Ev
<1>9. /\ delivered' \in Seq(Ev) /\ delivered' \o rest = delivered \o q
      /\ Len(delivered') >= Len(delivered)
  <2>1. <<h>> \in Seq(Ev)
    BY <1>3
  <2>2. delivered' = delivered \o <<h>>
    BY <1>2, <1>3, <1>7, AppendIsConcat
  <2>3. (delivered \o <<h>>) \o rest = delivered \o (<<h>> \o rest)
    BY <1>2, <1>3, <2>1, ConcatAssociative
  <2>4. Append(delivered, h) \in Seq(Ev) /\ Len(Append(delivered, h)) = Len(delivered) + 1 /\ Len(delivered) \in Nat
    BY <1>2, <1>3
  <2> QED BY <1>3, <1>7, <2>2, <2>3, <2>4
<1>10. Faithful(rest, delivered', acc, buf.lostDeltas, buf.lostAny)
  BY <1>2, <1>3, <1>9, MoveKeeps
<1>11. Intact(buf', delivered', acc)
  BY <1>2, <1>6, <1>8, <1>9, <1>10 DEF Intact
<1>12. Len(rest) <= Len(q)
  <2>1. Len(q) = Len(<<h>>) + Len(rest) /\ Len(<<h>>) = 1 /\ Len(rest) \in Nat
    BY <1>3, ConcatProperties
  <2> QED BY <2>1
<1> QED BY <1>1, <1>8, <1>11, <1>12

-----------------------------------------------------------------------------
(* The invariant                                                           *)

\* The stream is intact until the consumer cancels; the limits, the order of
\* what was read and the list of turns hold beyond that.
NormInv ==
  /\ buf \in Buffer /\ delivered \in Seq(Ev) /\ accepted \in Seq(Ev)
  /\ waiting \in 0..MaxWaiters /\ cancelled \in BOOLEAN /\ endOfStream \in BOOLEAN
  /\ IF cancelled THEN buf.queue = <<>> /\ buf.deltas = 0 /\ Rising(delivered)
                  ELSE Intact(buf, delivered, accepted)
  /\ Len(buf.queue) <= TotalHardCap + 1
  /\ waiting > 0 => buf.queue = <<>> /\ ~Ended
  /\ Distinct(buf.pending)
  /\ Turns(accepted, ToSet(buf.pending))
  /\ IF endOfStream THEN ToSet(buf.pending) = {}
                    ELSE \A i \in DOMAIN accepted : accepted[i].type # "turn_lost"

LEMMA NormInvInit == NormInit => NormInv
<1> SUFFICES ASSUME NormInit PROVE NormInv
  OBVIOUS
<1>1. buf = [queue |-> <<>>, deltas |-> 0, lostDeltas |-> 0, lostAny |-> 0, pending |-> <<>>]
      /\ waiting = 0 /\ cancelled = FALSE /\ endOfStream = FALSE /\ accepted = <<>> /\ delivered = <<>>
  BY DEF NormInit
<1>2. /\ buf \in Buffer /\ buf.queue = <<>> /\ buf.deltas = 0 /\ buf.lostDeltas = 0 /\ buf.lostAny = 0
      /\ buf.pending = <<>>
  BY <1>1 DEF Buffer
<1>3. /\ <<>> \in Seq(Ev) /\ Len(<<>>) = 0 /\ DOMAIN <<>> = {} /\ <<>> \o <<>> = <<>>
      /\ \A C : CountIn(<<>>, C) = 0
  BY CountEmpty
<1>4. Faithful(<<>>, <<>>, <<>>, 0, 0)
  <2>1. Rising(<<>>) /\ UpTo(<<>>, 0) /\ InPlace(<<>>, 0, <<>>, 0) /\ SameEnds(<<>>, <<>>)
    BY <1>3 DEF Rising, UpTo, InPlace, SameEnds
  <2> QED BY <1>3, <2>1 DEF Faithful
<1>5. Intact(buf, <<>>, <<>>)
  BY <1>2, <1>3, <1>4, CapAssumption DEF Intact
<1>6. Turns(<<>>, {}) /\ ToSet(<<>>) = {} /\ Distinct(<<>>)
  BY <1>3 DEF Turns, ToSet, Distinct, Started
<1>7. Len(buf.queue) <= TotalHardCap + 1 /\ 0 \in 0..MaxWaiters
  BY <1>2, <1>3, CapAssumption, NormBoundAssumption
<1>8. /\ ToSet(buf.pending) = {} /\ Distinct(buf.pending) /\ Turns(accepted, ToSet(buf.pending))
      /\ Intact(buf, delivered, accepted)
  <2>1. buf.pending = <<>> /\ accepted = <<>> /\ delivered = <<>>
    BY <1>1, <1>2
  <2> QED BY <1>5, <1>6, <2>1
<1>9. /\ delivered \in Seq(Ev) /\ accepted \in Seq(Ev) /\ waiting \in 0..MaxWaiters
      /\ cancelled \in BOOLEAN /\ endOfStream \in BOOLEAN /\ ~(waiting > 0)
      /\ \A i \in DOMAIN accepted : accepted[i].type # "turn_lost"
  <2>1. DOMAIN accepted = {}
    <3>1. accepted = <<>>
      BY <1>1
    <3> QED BY <3>1
  <2>2. ~(waiting > 0)
    <3>1. waiting = 0
      BY <1>1
    <3> QED BY <3>1
  <2>4. cancelled \in BOOLEAN /\ endOfStream \in BOOLEAN
    BY <1>1, Zenon
  <2>3. delivered \in Seq(Ev) /\ accepted \in Seq(Ev) /\ waiting \in 0..MaxWaiters
    BY <1>1, <1>3, <1>7
  <2> QED BY <2>1, <2>2, <2>3, <2>4
<1> QED BY <1>1, <1>2, <1>7, <1>8, <1>9 DEF NormInv

LEMMA NotificationFits ==
  ASSUME NormInv, ~Ended, NEW e \in Notification
  PROVE  /\ e \in Ev /\ IsReal(e) /\ e.n = Len(accepted) + 1 /\ e.type # "turn_lost"
         /\ Fits(e, accepted, ToSet(buf.pending))
<1>1. Len(accepted) + 1 \in Nat /\ accepted \in Seq(Ev) /\ buf \in Buffer /\ endOfStream = FALSE
  BY DEF NormInv, Ended
<1>2. PICK n : n = Len(accepted) + 1
  OBVIOUS
<1>3. CASE e = Event("delta", NoTurn, n) \/ e = Event("note", NoTurn, n)
  <2>1. e.type \in {"delta", "note"} /\ e.n = n /\ e \in Ev
    BY <1>1, <1>2, <1>3 DEF Event, Ev, EventType
  <2> QED BY <1>2, <2>1 DEF IsReal, Marker, Fits
<1>4. ASSUME NEW t \in Turn, ~Arrived(t, "turn_started"), e = Event("turn_started", t, n)
      PROVE  /\ e \in Ev /\ IsReal(e) /\ e.n = Len(accepted) + 1 /\ e.type # "turn_lost"
             /\ Fits(e, accepted, ToSet(buf.pending))
  <2>1. e.type = "turn_started" /\ e.turn = t /\ e.n = n /\ e \in Ev
    BY <1>1, <1>2, <1>4 DEF Event, Ev, EventType
  <2>2. ~Started(accepted, t)
    BY <1>4 DEF Arrived, Started
  <2> QED BY <1>2, <2>1, <2>2 DEF IsReal, Marker, Fits
<1>5. ASSUME NEW t \in Turn, Arrived(t, "turn_started"), ~Arrived(t, "turn_terminal"),
             e = Event("turn_terminal", t, n)
      PROVE  /\ e \in Ev /\ IsReal(e) /\ e.n = Len(accepted) + 1 /\ e.type # "turn_lost"
             /\ Fits(e, accepted, ToSet(buf.pending))
  <2>1. e.type = "turn_terminal" /\ e.turn = t /\ e.n = n /\ e \in Ev
    BY <1>1, <1>2, <1>5 DEF Event, Ev, EventType
  <2>2. t \in ToSet(buf.pending)
    <3>1. \A i \in DOMAIN accepted : accepted[i] \notin Ends(t)
      BY <1>1, <1>5 DEF Arrived, Ends, NormInv
    <3>2. Places(accepted, Ends(t)) = {}
      BY <3>1 DEF Places
    <3>3. CountIn(accepted, Ends(t)) = 0
      BY <3>2, FS_EmptySet DEF CountIn
    <3>4. Started(accepted, t)
      BY <1>5 DEF Arrived, Started
    <3>5. CountIn(accepted, Ends(t)) = IF Started(accepted, t) /\ t \notin ToSet(buf.pending) THEN 1 ELSE 0
      BY DEF NormInv, Turns
    <3> QED BY <3>3, <3>4, <3>5
  <2> QED BY <1>2, <2>1, <2>2 DEF IsReal, Marker, Fits
<1> QED BY <1>2, <1>3, <1>4, <1>5 DEF Notification

LEMMA OnNotificationKeeps == ASSUME NormInv, NEW e \in Notification, OnNotification(e) PROVE NormInv'
<1>1. ~Ended /\ cancelled = FALSE /\ endOfStream = FALSE
  BY DEF OnNotification, NormInv, Ended
<1>2. PICK c, P : c = Enqueue(buf, e) /\ P = ToSet(buf.pending)
  OBVIOUS
<1>3. /\ accepted' = Append(accepted, e) /\ Drain(c, FALSE) /\ cancelled' = FALSE /\ endOfStream' = FALSE
  BY <1>1, <1>2 DEF OnNotification
<1>4. /\ buf \in Buffer /\ accepted \in Seq(Ev) /\ waiting \in 0..MaxWaiters
      /\ Intact(buf, delivered, accepted) /\ Distinct(buf.pending) /\ Turns(accepted, P)
      /\ \A i \in DOMAIN accepted : accepted[i].type # "turn_lost"
  BY <1>1, <1>2 DEF NormInv
<1>5. e \in Ev /\ IsReal(e) /\ e.n = Len(accepted) + 1 /\ e.type # "turn_lost" /\ Fits(e, accepted, P)
  BY <1>1, <1>2, NotificationFits
<1>6. e.type = "turn_started" => e.turn \in Turn
  BY <1>5 DEF Fits
<1>7. /\ Intact(c, delivered, accepted') /\ Len(c.queue) <= TotalHardCap + 1 /\ Distinct(c.pending)
      /\ ToSet(c.pending) = CASE e.type = "turn_started" -> P \cup {e.turn}
                              [] e.type \in {"turn_terminal", "turn_lost"} -> P \ {e.turn}
                              [] OTHER -> P
  <2>1. LET x == Enqueue(buf, e) IN
        /\ Intact(x, delivered, Append(accepted, e)) /\ Len(x.queue) <= TotalHardCap + 1
        /\ Distinct(x.pending)
        /\ ToSet(x.pending) = CASE e.type = "turn_started" -> ToSet(buf.pending) \cup {e.turn}
                                [] e.type \in {"turn_terminal", "turn_lost"} -> ToSet(buf.pending) \ {e.turn}
                                [] OTHER -> ToSet(buf.pending)
    BY <1>4, <1>5, <1>6, EnqueueKeeps
  <2> QED BY <1>2, <1>3, <2>1
<1>8. /\ Intact(buf', delivered', accepted') /\ buf'.pending = c.pending
      /\ Len(buf'.queue) <= Len(c.queue) /\ waiting' \in 0..MaxWaiters
      /\ waiting' > 0 => buf'.queue = <<>> /\ ~FALSE
  BY <1>3, <1>4, <1>7, DrainKeeps
<1>9. Turns(accepted', ToSet(buf'.pending))
  <2>1. P \in SUBSET Turn
    BY <1>2, <1>4, BufferParts DEF ToSet
  <2>2. Turns(Append(accepted, e), ToSet(c.pending))
    BY <1>4, <1>5, <1>7, <2>1, TurnsKeep
  <2> QED BY <1>3, <1>8, <2>2
<1>10. buf' \in Buffer /\ delivered' \in Seq(Ev) /\ accepted' \in Seq(Ev) /\ Distinct(buf'.pending)
  BY <1>7, <1>8 DEF Intact
<1>11. Len(buf'.queue) <= TotalHardCap + 1
  <2>1. Len(buf'.queue) \in Nat /\ Len(c.queue) \in Nat /\ TotalHardCap \in Nat
    BY <1>7, <1>10, BufferParts, CapAssumption DEF Intact
  <2> QED BY <1>7, <1>8, <2>1
<1>12. \A i \in DOMAIN accepted' : accepted'[i].type # "turn_lost"
  <2>1. /\ DOMAIN accepted' = 1..Len(accepted) + 1 /\ DOMAIN accepted = 1..Len(accepted)
        /\ accepted'[Len(accepted) + 1] = e /\ \A i \in 1..Len(accepted) : accepted'[i] = accepted[i]
        /\ Len(accepted) \in Nat
    BY <1>3, <1>4
  <2>2. ASSUME NEW i \in 1..Len(accepted) + 1 PROVE accepted'[i].type # "turn_lost"
    <3>1. CASE i = Len(accepted) + 1
      BY <1>5, <2>1, <3>1
    <3>2. CASE i # Len(accepted) + 1
      BY <1>4, <2>1, <3>2
    <3> QED BY <3>1, <3>2
  <2> QED BY <2>1, <2>2
<1>13. ~Ended'
  BY <1>3 DEF Ended
<1> QED BY <1>3, <1>8, <1>9, <1>10, <1>11, <1>12, <1>13 DEF NormInv

LEMMA EndOfStreamKeeps == ASSUME NormInv, EndWithTransportLostSynthetic PROVE NormInv'
<1>1. ~Ended /\ cancelled = FALSE /\ endOfStream = FALSE
  BY DEF EndWithTransportLostSynthetic, NormInv, Ended
<1>2. PICK es, c : es = LostTurns /\ c = EnqueueAll(buf, LostTurns)
  OBVIOUS
<1>3. accepted' = accepted \o es /\ Drain(c, TRUE) /\ cancelled' = FALSE /\ endOfStream' = TRUE
  BY <1>1, <1>2 DEF EndWithTransportLostSynthetic
<1>4. /\ waiting \in 0..MaxWaiters /\ Intact(buf, delivered, accepted) /\ Distinct(buf.pending)
      /\ Turns(accepted, ToSet(buf.pending)) /\ Len(buf.queue) <= TotalHardCap + 1
  BY <1>1 DEF NormInv
<1>5. es = Failures(buf.pending, Len(accepted))
  BY <1>2 DEF LostTurns, Failures
<1>6. /\ Intact(c, delivered, accepted') /\ Distinct(c.pending) /\ ToSet(c.pending) = {}
      /\ Len(c.queue) <= TotalHardCap + 1 /\ Turns(accepted', {})
  <2>1. LET x == EnqueueAll(buf, es) IN
        /\ Intact(x, delivered, accepted \o es) /\ Distinct(x.pending) /\ ToSet(x.pending) = {}
        /\ Len(x.queue) <= TotalHardCap + 1 /\ Turns(accepted \o es, {})
    BY <1>4, <1>5, EndKeeps
  <2> QED BY <1>2, <1>3, <2>1
<1>7. /\ Intact(buf', delivered', accepted') /\ buf'.pending = c.pending
      /\ Len(buf'.queue) <= Len(c.queue) /\ waiting' \in 0..MaxWaiters
      /\ waiting' > 0 => buf'.queue = <<>> /\ ~TRUE
  BY <1>3, <1>4, <1>6, DrainKeeps
<1>8. buf' \in Buffer /\ delivered' \in Seq(Ev) /\ accepted' \in Seq(Ev)
  BY <1>7 DEF Intact
<1>9. Len(buf'.queue) <= TotalHardCap + 1
  <2>1. Len(buf'.queue) \in Nat /\ Len(c.queue) \in Nat /\ TotalHardCap \in Nat
    BY <1>6, <1>8, BufferParts, CapAssumption DEF Intact
  <2> QED BY <1>6, <1>7, <2>1
<1> QED BY <1>3, <1>6, <1>7, <1>8, <1>9 DEF NormInv

LEMMA NextCallKeeps == ASSUME NormInv, NextCall PROVE NormInv'
<1>1. cancelled' = cancelled /\ endOfStream' = endOfStream /\ accepted' = accepted
  BY DEF NextCall
<1>2. CASE TakeHead
  <2>1. buf.queue # <<>> /\ waiting' = waiting
    BY <1>2 DEF TakeHead
  <2>2. cancelled = FALSE /\ Intact(buf, delivered, accepted) /\ ~ (waiting > 0) /\ waiting \in 0..MaxWaiters
    BY <2>1 DEF NormInv
  <2>3. /\ Intact(buf', delivered', accepted) /\ buf'.pending = buf.pending
        /\ Len(buf'.queue) <= Len(buf.queue)
    BY <1>2, <2>2, TakeHeadKeeps
  <2>4. buf' \in Buffer /\ delivered' \in Seq(Ev) /\ buf \in Buffer
    BY <2>2, <2>3 DEF Intact
  <2>5. Len(buf'.queue) <= TotalHardCap + 1
    <3>1. Len(buf'.queue) \in Nat /\ Len(buf.queue) \in Nat /\ TotalHardCap \in Nat
          /\ Len(buf.queue) <= TotalHardCap + 1
      BY <2>4, BufferParts, CapAssumption DEF NormInv
    <3> QED BY <2>3, <3>1
  <2>6. /\ accepted \in Seq(Ev) /\ endOfStream \in BOOLEAN /\ Distinct(buf.pending)
        /\ Turns(accepted, ToSet(buf.pending))
        /\ IF endOfStream THEN ToSet(buf.pending) = {}
                          ELSE \A i \in DOMAIN accepted : accepted[i].type # "turn_lost"
    BY DEF NormInv
  <2> QED BY <1>1, <2>1, <2>2, <2>3, <2>4, <2>5, <2>6 DEF NormInv
<1>3. CASE Park
  <2>1. /\ buf.queue = <<>> /\ ~Ended /\ waiting < MaxWaiters /\ waiting' = waiting + 1
        /\ buf' = buf /\ delivered' = delivered
    BY <1>3 DEF Park
  <2>2. waiting' \in 0..MaxWaiters /\ ~Ended'
    BY <1>1, <2>1, NormBoundAssumption DEF NormInv, Ended
  <2> QED BY <1>1, <2>1, <2>2 DEF NormInv
<1> QED BY <1>2, <1>3 DEF NextCall

LEMMA ReturnKeeps == ASSUME NormInv, Return PROVE NormInv'
<1>1. /\ cancelled = FALSE /\ cancelled' = TRUE /\ waiting' = 0 /\ endOfStream' = endOfStream
      /\ accepted' = accepted /\ delivered' = delivered
      /\ buf' = [buf EXCEPT !.queue = <<>>, !.deltas = 0]
  BY DEF Return, NormInv
<1>2. buf \in Buffer /\ delivered \in Seq(Ev) /\ Intact(buf, delivered, accepted)
  BY <1>1 DEF NormInv
<1>3. buf' \in Buffer /\ buf'.queue = <<>> /\ buf'.deltas = 0 /\ buf'.pending = buf.pending
  <2>1. <<>> \in Seq(Ev) /\ 0 \in Nat
    OBVIOUS
  <2> QED BY <1>1, <1>2, <2>1 DEF Buffer, Ev
<1>4. Rising(delivered)
  <2>1. Rising(delivered \o buf.queue) /\ buf.queue \in Seq(Ev)
    BY <1>2, BufferParts DEF Intact, Faithful
  <2> QED BY <1>2, <2>1, RisingConcat
<1>5. Len(buf'.queue) <= TotalHardCap + 1 /\ 0 \in 0..MaxWaiters
  BY <1>3, CapAssumption, NormBoundAssumption
<1> QED BY <1>1, <1>3, <1>4, <1>5 DEF NormInv

LEMMA NormStepKeepsInv == NormInv /\ [NormNext]_normVars => NormInv'
<1> SUFFICES ASSUME NormInv, [NormNext]_normVars PROVE NormInv'
  OBVIOUS
<1>1. CASE \E e \in Notification : OnNotification(e)
  BY <1>1, OnNotificationKeeps
<1>2. CASE EndWithTransportLostSynthetic
  BY <1>2, EndOfStreamKeeps
<1>3. CASE NextCall
  BY <1>3, NextCallKeeps
<1>4. CASE Return
  BY <1>4, ReturnKeeps
<1>5. CASE UNCHANGED normVars
  BY <1>5 DEF normVars, NormInv, Ended
<1> QED BY <1>1, <1>2, <1>3, <1>4, <1>5 DEF NormNext

\* The invariant holds in every reachable state, for any limits and turns.
THEOREM NormInvariance == NormSpec => []NormInv
<1>1. NormInit => NormInv
  BY NormInvInit
<1>2. NormInv /\ [NormNext]_normVars => NormInv'
  BY NormStepKeepsInv
<1> QED BY <1>1, <1>2, PTL DEF NormSpec

-----------------------------------------------------------------------------
(* What it implies                                                         *)

LEMMA NormTypes == NormInv => NormTypeOK
<1> SUFFICES ASSUME NormInv PROVE NormTypeOK
  OBVIOUS
<1>1. /\ buf.queue \in Seq(Ev) /\ buf.pending \in Seq(Turn)
      /\ buf.deltas \in Nat /\ buf.lostDeltas \in Nat /\ buf.lostAny \in Nat
  BY BufferParts DEF NormInv
<1>2. DOMAIN buf = {"queue", "deltas", "lostDeltas", "lostAny", "pending"}
  BY DEF NormInv, Buffer
<1>3. \A i \in DOMAIN buf.queue : buf.queue[i].type \in EventType
  <2>1. \A i \in DOMAIN buf.queue : buf.queue[i] \in Ev
    BY <1>1
  <2> QED BY <2>1 DEF Ev
<1>4. ToSet(buf.pending) \subseteq Turn
  BY <1>1 DEF ToSet
<1>5. waiting \in 0..MaxWaiters /\ cancelled \in BOOLEAN /\ endOfStream \in BOOLEAN
  BY DEF NormInv
<1> QED BY <1>1, <1>2, <1>3, <1>4, <1>5 DEF NormTypeOK

\* The queue holds events of the known types, the list of turns holds turns,
\* and the counters are natural numbers.
THEOREM NormTypeCorrect == NormSpec => []NormTypeOK
  BY NormTypes, NormInvariance, PTL

\* No call of next() stays parked beside a buffered event or past the end of
\* the stream.
THEOREM NobodyWaits == NormSpec => []NobodyWaitsInVain
<1>1. NormInv => NobodyWaitsInVain
  BY DEF NormInv, NobodyWaitsInVain
<1> QED BY <1>1, NormInvariance, PTL

\* #deltaCount is the number of deltas in the queue, and both limits hold,
\* whatever their values.
THEOREM LimitsAreKept == NormSpec => []LimitsHold
<1>1. NormInv => LimitsHold
  <2> SUFFICES ASSUME NormInv PROVE LimitsHold
    OBVIOUS
  <2>1. buf.queue \in Seq(Ev) /\ Len(buf.queue) <= TotalHardCap + 1
    BY BufferParts DEF NormInv
  <2>2. buf.deltas = CountIn(buf.queue, Deltas) /\ buf.deltas <= DeltaSoftCap
    <3>1. CASE cancelled
      <4>1. buf.queue = <<>> /\ buf.deltas = 0
        BY <3>1 DEF NormInv
      <4>2. CountIn(<<>>, Deltas) = 0
        BY CountEmpty
      <4> QED BY <4>1, <4>2, CapAssumption
    <3>2. CASE ~cancelled
      BY <3>2 DEF NormInv, Intact
    <3> QED BY <3>1, <3>2
  <2>3. DeltasIn(buf.queue) = CountIn(buf.queue, Deltas)
    BY <2>1, CountsAreCounts
  <2> QED BY <2>1, <2>2, <2>3 DEF LimitsHold
<1> QED BY <1>1, NormInvariance, PTL

\* The order of arrival survives any overflow, and as long as the hard limit
\* took nothing a marker with the running count stands in the place of each
\* dropped delta and every other event in its own.
THEOREM OrderOfArrival == NormSpec => []OrderIsKept
<1>1. NormInv => OrderIsKept
  <2> SUFFICES ASSUME NormInv PROVE OrderIsKept
    OBVIOUS
  <2>1. Rising(Stream)
    <3>1. CASE cancelled
      <4>1. buf.queue = <<>> /\ Rising(delivered) /\ delivered \in Seq(Ev)
        BY <3>1 DEF NormInv
      <4>2. Stream = delivered
        BY <4>1, ConcatEmptySeq DEF Stream
      <4> QED BY <4>1, <4>2
    <3>2. CASE ~cancelled
      BY <3>2 DEF NormInv, Intact, Faithful, Stream
    <3> QED BY <3>1, <3>2
  <2>2. ASSUME ~cancelled, buf.lostAny = 0, Len(Stream) = Len(accepted), NEW i \in DOMAIN accepted
        PROVE  \/ Stream[i] = accepted[i]
               \/ /\ Stream[i].type = "overflow_delta" /\ IsDelta(accepted[i])
                  /\ Stream[i].n = Cardinality({j \in DOMAIN Stream : j <= i /\ Stream[j].type = "overflow_delta"})
    <3>1. InPlace(Stream, Len(delivered), accepted, buf.lostDeltas)
      BY <2>2 DEF NormInv, Intact, Faithful, Stream
    <3>2. Stream[i] = accepted[i] \/ (IsGap(Stream[i]) /\ IsDelta(accepted[i]) /\ Stream[i].n = GapsUpTo(Stream, i))
      BY <2>2, <3>1 DEF InPlace
    <3> QED BY <3>2, Zenon DEF GapsUpTo, IsGap
  <2> QED BY <2>1, <2>2, Zenon DEF OrderIsKept, Rising
<1> QED BY <1>1, NormInvariance, PTL

\* Each lost event is counted once, in one of the two counts.
THEOREM LossIsCounted == NormSpec => []LossIsCountedOnce
<1>1. NormInv => LossIsCountedOnce
  <2> SUFFICES ASSUME NormInv, ~cancelled
               PROVE  Cardinality({i \in DOMAIN Stream : IsReal(Stream[i])}) + buf.lostDeltas + buf.lostAny
                        = Len(accepted)
    BY Zenon DEF LossIsCountedOnce
  <2>1. CountIn(Stream, Reals) + buf.lostDeltas + buf.lostAny = Len(accepted)
    BY DEF NormInv, Intact, Faithful, Stream
  <2>2. Stream \in Seq(Ev)
    BY BufferParts DEF NormInv, Stream
  <2>3. Cardinality({i \in DOMAIN Stream : IsReal(Stream[i])}) = CountIn(Stream, Reals)
    BY <2>2, CountsAreCounts
  <2> QED BY <2>1, <2>3, Zenon
<1> QED BY <1>1, NormInvariance, PTL

\* When the stream has ended, every turn that started has exactly one end in
\* it, unless the hard limit struck.
THEOREM EveryTurnIsClosed == NormSpec => []TurnsAreClosed
<1>1. NormInv => TurnsAreClosed
  <2> SUFFICES ASSUME NormInv, endOfStream, ~cancelled, buf.lostAny = 0, NEW t \in Turn
               PROVE  Cardinality({i \in DOMAIN Stream : Stream[i].turn = t
                                     /\ Stream[i].type \in {"turn_terminal", "turn_lost"}})
                        = IF Arrived(t, "turn_started") THEN 1 ELSE 0
    BY Zenon DEF TurnsAreClosed
  <2>1. CountIn(Stream, Ends(t)) = CountIn(accepted, Ends(t))
    BY DEF NormInv, Intact, Faithful, Stream, SameEnds
  <2>2. CountIn(accepted, Ends(t)) = IF Started(accepted, t) THEN 1 ELSE 0
    <3>1. t \notin ToSet(buf.pending)
      BY DEF NormInv
    <3>2. CountIn(accepted, Ends(t)) = IF Started(accepted, t) /\ t \notin ToSet(buf.pending) THEN 1 ELSE 0
      BY DEF NormInv, Turns
    <3> QED BY <3>1, <3>2
  <2>3. Started(accepted, t) <=> Arrived(t, "turn_started")
    BY DEF Started, Arrived
  <2>4. \A i \in DOMAIN Stream : Stream[i] \in Ev
    <3>1. Stream \in Seq(Ev)
      BY BufferParts DEF NormInv, Stream
    <3> QED BY <3>1
  <2>5. {i \in DOMAIN Stream : Stream[i].turn = t /\ Stream[i].type \in {"turn_terminal", "turn_lost"}}
          = Places(Stream, Ends(t))
    BY <2>4 DEF Places, Ends
  <2> QED BY <2>1, <2>2, <2>3, <2>5, Zenon DEF CountIn
<1> QED BY <1>1, NormInvariance, PTL

-----------------------------------------------------------------------------
(* The output of a turn                                                    *)

\* How many parts of the result have been published, if no call failed.
Published(p) ==
  CASE p.pc = "more" -> p.next - 1
    [] p.pc \in {"files", "over"} -> p.size
    [] OTHER -> 0

\* The output has been listed once at most, and goes to its end once.
InStep(t) ==
  /\ opened[t].pc = "no" => ~opened[t].listed
  /\ opened[t].listed \/ opened[t].pc = "no" => publication[t].pc = "no" /\ ~overtaken[t]
  /\ opened[t].pc # "open" => buffer[t].ref = 0
  /\ t \in editing => overtaken[t] \/ publication[t].pc = "no"
  /\ IF publication[t].pc = "no" THEN ~publication[t].replaces
     ELSE publication[t].size # 0 /\ publication[t].next <= publication[t].size
  /\ publication[t].replaces => buffer[t].ref # 0
  /\ publication[t].pc = "edit" => publication[t].replaces
  /\ publication[t].pc \in {"edit", "send"} => publication[t].next = 1

\* What is in the chat: the parts published so far, and the "working" message unless
\* the first of them has replaced it.
Visible(t) ==
  LET n == Published(publication[t]) IN
  /\ ~(publication[t].replaces /\ publication[t].pc = "send")
  /\ IF opened[t].pc = "open" /\ (publication[t].replaces => publication[t].pc = "edit")
     THEN buffer[t].ref \in 1..n + 1 /\ screen[t] = ResultBeside(n, buffer[t].ref)
     ELSE screen[t] = Result(n)

OutputInv ==
  /\ OutputTypeOK
  /\ \A t \in OutTurn : InStep(t) /\ (clean[t] /\ ~overtaken[t] => Visible(t))

LEMMA ResultShape ==
  ASSUME NEW n \in Nat, NEW w \in 1..n + 1
  PROVE  /\ Result(n) \in Seq(Nat) /\ Len(Result(n)) = n /\ \A i \in 1..n : Result(n)[i] = i
         /\ ResultBeside(n, w) \in Seq(Nat) /\ Len(ResultBeside(n, w)) = n + 1
         /\ \A i \in 1..n + 1 : ResultBeside(n, w)[i] = IF i < w THEN i ELSE IF i = w THEN 0 ELSE i - 1
<1>1. \A i \in 1..n + 1 : (IF i < w THEN i ELSE IF i = w THEN 0 ELSE i - 1) \in Nat
  OBVIOUS
<1> QED BY <1>1 DEF Result, ResultBeside

\* Sending a part, or the "working" message.
LEMMA NextPart ==
  ASSUME NEW n \in Nat, NEW w \in 1..n + 1
  PROVE  /\ Append(Result(n), n + 1) = Result(n + 1)
         /\ Append(ResultBeside(n, w), n + 1) = ResultBeside(n + 1, w)
         /\ Append(Result(n), 0) = ResultBeside(n, n + 1)
         /\ Len(Append(Result(n), 0)) = n + 1
<1>1. PICK m, s, r : m = n + 1 /\ s = Result(n) /\ r = ResultBeside(n, w)
  OBVIOUS
<1>2. /\ m \in Nat /\ w \in 1..m + 1 /\ m \in 1..n + 1 /\ m = n + 1 /\ 0 \in Nat /\ w \in 1..m
      /\ w \in Nat
  BY <1>1
<1>3. /\ s \in Seq(Nat) /\ Len(s) = n /\ \A i \in 1..n : s[i] = i
      /\ r \in Seq(Nat) /\ Len(r) = m
      /\ \A i \in 1..m : r[i] = IF i < w THEN i ELSE IF i = w THEN 0 ELSE i - 1
  BY <1>1, ResultShape
<1>4. /\ Result(m) \in Seq(Nat) /\ Len(Result(m)) = m /\ \A i \in 1..m : Result(m)[i] = i
      /\ ResultBeside(m, w) \in Seq(Nat) /\ Len(ResultBeside(m, w)) = m + 1
      /\ \A i \in 1..m + 1 : ResultBeside(m, w)[i] = IF i < w THEN i ELSE IF i = w THEN 0 ELSE i - 1
  BY <1>2, ResultShape
<1>5. /\ ResultBeside(n, m) \in Seq(Nat) /\ Len(ResultBeside(n, m)) = n + 1
      /\ \A i \in 1..n + 1 : ResultBeside(n, m)[i] = IF i < m THEN i ELSE IF i = m THEN 0 ELSE i - 1
  BY <1>2, ResultShape
<1>6. Append(s, m) = Result(m)
  <2>1. /\ Append(s, m) \in Seq(Nat) /\ Len(Append(s, m)) = n + 1
        /\ \A i \in 1..n + 1 : Append(s, m)[i] = IF i = n + 1 THEN m ELSE s[i]
    BY <1>2, <1>3
  <2>2. \A i \in 1..m : Append(s, m)[i] = Result(m)[i]
    BY <1>2, <1>3, <1>4, <2>1
  <2> QED BY <1>2, <1>4, <2>1, <2>2, SeqEqual
<1>7. Append(s, 0) = ResultBeside(n, m) /\ Len(Append(s, 0)) = m
  <2>1. /\ Append(s, 0) \in Seq(Nat) /\ Len(Append(s, 0)) = n + 1
        /\ \A i \in 1..n + 1 : Append(s, 0)[i] = IF i = n + 1 THEN 0 ELSE s[i]
    BY <1>2, <1>3
  <2>2. \A i \in 1..n + 1 : Append(s, 0)[i] = ResultBeside(n, m)[i]
    BY <1>2, <1>3, <1>5, <2>1
  <2> QED BY <1>2, <1>5, <2>1, <2>2, SeqEqual
<1>8. Append(r, m) = ResultBeside(m, w)
  <2>1. /\ Append(r, m) \in Seq(Nat) /\ Len(Append(r, m)) = m + 1
        /\ \A i \in 1..m + 1 : Append(r, m)[i] = IF i = m + 1 THEN m ELSE r[i]
    BY <1>2, <1>3
  <2>2. ASSUME NEW i \in 1..m + 1 PROVE Append(r, m)[i] = ResultBeside(m, w)[i]
    <3>1. CASE i = m + 1
      BY <1>2, <1>4, <2>1, <3>1
    <3>2. CASE i # m + 1
      <4>1. i \in 1..m
        BY <1>2, <3>2
      <4> QED BY <1>3, <1>4, <2>1, <3>2, <4>1
    <3> QED BY <3>1, <3>2
  <2> QED BY <1>2, <1>4, <2>1, <2>2, SeqEqual
<1> QED BY <1>1, <1>6, <1>7, <1>8

\* Editing the "working" message while nothing else is there.
LEMMA FirstPart ==
  ASSUME NEW w \in 1..1
  PROVE  /\ [ResultBeside(0, w) EXCEPT ![w] = 0] = ResultBeside(0, w)
         /\ [ResultBeside(0, w) EXCEPT ![w] = 1] = Result(1)
<1>1. w = 1 /\ 1..0 + 1 = {1} /\ 1..1 = {1}
  OBVIOUS
<1>2. ResultBeside(0, w) = [i \in {1} |-> 0]
  BY <1>1 DEF ResultBeside
<1>3. Result(1) = [i \in {1} |-> 1]
  BY <1>1 DEF Result
<1> QED BY <1>1, <1>2, <1>3

LEMMA EditKeepsType ==
  ASSUME NEW S, NEW s \in Seq(S), NEW k, NEW n \in S
  PROVE  [s EXCEPT ![k] = n] \in Seq(S)
<1>1. CASE k \in 1..Len(s)
  BY <1>1, ExceptSeq
<1>2. CASE k \notin 1..Len(s)
  <2>1. [s EXCEPT ![k] = n] = s
    BY <1>2
  <2> QED BY <2>1
<1> QED BY <1>1, <1>2

OutputFits(t) == InStep(t) /\ (clean[t] /\ ~overtaken[t] => Visible(t))

\* An action that leaves the turn alone.
LEMMA OutputFrame ==
  ASSUME NEW u, OutputFits(u), opened'[u] = opened[u], buffer'[u].ref = buffer[u].ref,
         publication'[u] = publication[u], screen'[u] = screen[u], clean'[u] <=> clean[u],
         overtaken'[u] <=> overtaken[u], u \in editing' <=> u \in editing
  PROVE  OutputFits(u)'
<1>1. InStep(u)'
  BY DEF OutputFits, InStep
<1>2. ASSUME Visible(u) PROVE Visible(u)'
  BY <1>2 DEF Visible
<1> QED BY <1>1, <1>2 DEF OutputFits

LEMMA OutputInvInit == OutputInit => OutputInv
<1> SUFFICES ASSUME OutputInit PROVE OutputInv
  OBVIOUS
<1>1. \A t \in OutTurn :
        /\ opened[t] = [pc |-> "no", listed |-> FALSE]
        /\ buffer[t] = [text |-> 0, notes |-> FALSE, quiet |-> FALSE, ref |-> 0, edited |-> FALSE]
        /\ publication[t] = [pc |-> "no", next |-> 1, size |-> 0, replaces |-> FALSE]
        /\ screen[t] = <<>> /\ t \notin editing /\ ~overtaken[t]
  BY DEF OutputInit
<1>2. OutputTypeOK
  <2>1. MaxChunks \in Nat /\ 0 \in 0..MaxChunks /\ 1 \in 1..MaxChunks + 1 /\ <<>> \in Seq(0..MaxChunks)
    BY OutputAssumption
  <2>2. opened \in [OutTurn -> [pc: OpenPc, listed: BOOLEAN]]
    BY DEF OutputInit, OpenPc
  <2>3. buffer \in [OutTurn -> [text: 0..MaxChunks, notes: BOOLEAN, quiet: BOOLEAN, ref: Nat, edited: BOOLEAN]]
    BY <2>1 DEF OutputInit
  <2>4. publication \in [OutTurn -> [pc: ClosePc, next: 1..MaxChunks + 1, size: 0..MaxChunks,
                                     replaces: BOOLEAN]]
    BY <2>1 DEF OutputInit, ClosePc
  <2>5. screen \in [OutTurn -> Seq(0..MaxChunks)]
    BY <2>1 DEF OutputInit
  <2>6. clean \in [OutTurn -> BOOLEAN] /\ overtaken \in [OutTurn -> BOOLEAN]
    BY DEF OutputInit
  <2>7. editable \in BOOLEAN /\ editing \subseteq OutTurn /\ ending \subseteq OutTurn
    BY DEF OutputInit
  <2> QED BY <2>2, <2>3, <2>4, <2>5, <2>6, <2>7 DEF OutputTypeOK
<1>3. ASSUME NEW t \in OutTurn PROVE InStep(t)
  BY <1>1 DEF InStep
<1>4. ASSUME NEW t \in OutTurn PROVE Visible(t)
  <2>1. Published(publication[t]) = 0
    BY <1>1 DEF Published
  <2>2. screen[t] = Result(0)
    BY <1>1 DEF Result
  <2> QED BY <1>1, <2>1, <2>2 DEF Visible
<1> QED BY <1>2, <1>3, <1>4 DEF OutputInv

LEMMA OpenKeeps ==
  ASSUME OutputInv, NEW t \in OutTurn, NEW quiet \in BOOLEAN, Open(t, quiet)
  PROVE  OutputInv'
<1>1. OutputTypeOK'
  BY DEF Open, OutputInv, OutputTypeOK, OpenPc
<1>2. ASSUME NEW u \in OutTurn, u # t PROVE OutputFits(u)'
  <2>1. OutputFits(u)
    BY DEF OutputInv, OutputFits
  <2> QED BY <1>2, <2>1, OutputFrame DEF Open, OutputInv, OutputTypeOK
<1>3. OutputFits(t)'
  <2>1. /\ opened[t].pc = "no" /\ opened'[t] = [pc |-> "sending", listed |-> TRUE]
        /\ buffer'[t].ref = buffer[t].ref /\ publication' = publication /\ screen' = screen
        /\ clean' = clean /\ overtaken' = overtaken /\ editing' = editing
    BY DEF Open, OutputInv, OutputTypeOK
  <2>2. InStep(t)'
    BY <2>1 DEF OutputInv, InStep
  <2>3. ASSUME Visible(t) PROVE Visible(t)'
    BY <2>1, <2>3 DEF Visible
  <2> QED BY <2>1, <2>2, <2>3 DEF OutputInv, OutputFits
<1> QED BY <1>1, <1>2, <1>3 DEF OutputInv, OutputFits

LEMMA OpenAnsweredKeeps ==
  ASSUME OutputInv, NEW t \in OutTurn, NEW out \in Outcome, OpenAnswered(t, out)
  PROVE  OutputInv'
<1>1. /\ opened[t].pc = "sending" /\ out.ok \in BOOLEAN /\ (out.ok => out.done)
      /\ opened'[t] = [opened[t] EXCEPT !.pc = "open"]
      /\ screen'[t] = (IF out.done THEN Append(screen[t], 0) ELSE screen[t])
      /\ clean'[t] = (clean[t] /\ out.ok)
      /\ buffer'[t] = (IF out.ok THEN [buffer[t] EXCEPT !.ref = Len(screen'[t])] ELSE buffer[t])
      /\ publication' = publication /\ overtaken' = overtaken /\ editing' = editing
  BY DEF OpenAnswered, Sent, Noted, Outcome, OutputInv, OutputTypeOK
<1>2. screen[t] \in Seq(0..MaxChunks) /\ screen'[t] \in Seq(0..MaxChunks) /\ Len(screen'[t]) \in Nat
  <2>1. screen[t] \in Seq(0..MaxChunks) /\ 0 \in 0..MaxChunks
    BY OutputAssumption DEF OutputInv, OutputTypeOK
  <2>2. Append(screen[t], 0) \in Seq(0..MaxChunks)
    BY <2>1
  <2>3. screen'[t] \in Seq(0..MaxChunks)
    <3>1. screen'[t] = Append(screen[t], 0) \/ screen'[t] = screen[t]
      BY <1>1
    <3> QED BY <2>1, <2>2, <3>1
  <2> QED BY <2>1, <2>3
<1>3. OutputTypeOK'
  <2>1. screen' \in [OutTurn -> Seq(0..MaxChunks)]
    BY <1>2 DEF OpenAnswered, Sent, OutputInv, OutputTypeOK
  <2>2. buffer' \in [OutTurn -> [text: 0..MaxChunks, notes: BOOLEAN, quiet: BOOLEAN, ref: Nat, edited: BOOLEAN]]
    BY <1>2 DEF OpenAnswered, OutputInv, OutputTypeOK
  <2>3. clean' \in [OutTurn -> BOOLEAN]
    BY DEF OpenAnswered, Sent, Noted, OutputInv, OutputTypeOK
  <2>4. opened' \in [OutTurn -> [pc: OpenPc, listed: BOOLEAN]]
    BY DEF OpenAnswered, OpenPc, OutputInv, OutputTypeOK
  <2> QED BY <2>1, <2>2, <2>3, <2>4 DEF OpenAnswered, OutputInv, OutputTypeOK
<1>4. ASSUME NEW u \in OutTurn, u # t PROVE OutputFits(u)'
  <2>1. OutputFits(u)
    BY DEF OutputInv, OutputFits
  <2>2. /\ opened'[u] = opened[u] /\ buffer'[u] = buffer[u] /\ screen'[u] = screen[u]
        /\ clean'[u] = clean[u]
    BY <1>4 DEF OpenAnswered, Sent, Noted, OutputInv, OutputTypeOK
  <2> QED BY <1>1, <2>1, <2>2, OutputFrame
<1>5. InStep(t) /\ buffer[t].ref = 0 /\ opened[t].pc # "no" /\ opened'[t].pc = "open"
      /\ opened'[t].listed = opened[t].listed
  BY <1>1 DEF OutputInv, OutputTypeOK, InStep
<1>6. InStep(t)'
  <2>1. ~publication[t].replaces
    BY <1>5 DEF InStep
  <2> QED BY <1>1, <1>5, <2>1 DEF InStep
<1>7. ASSUME clean'[t], ~overtaken'[t] PROVE Visible(t)'
  <2>1. clean[t] /\ out.ok /\ out.done /\ Visible(t)
    BY <1>1, <1>7 DEF OutputInv
  <2>2. PICK n : n = Published(publication[t])
    OBVIOUS
  <2>3. screen[t] = Result(n) /\ ~publication[t].replaces /\ n \in Nat
    <3>1. ~publication[t].replaces
      BY <1>5 DEF InStep
    <3>2. n \in Nat
      BY <2>2, OutputAssumption DEF Published, OutputInv, OutputTypeOK
    <3> QED BY <1>1, <2>1, <2>2, <3>1, <3>2 DEF Visible
  <2>4. /\ Append(Result(n), 0) = ResultBeside(n, n + 1) /\ Len(Append(Result(n), 0)) = n + 1
        /\ n + 1 \in 1..n + 1
    BY <2>3, NextPart
  <2>5. buffer'[t].ref = n + 1 /\ screen'[t] = ResultBeside(n, n + 1)
    BY <1>1, <2>1, <2>3, <2>4 DEF OutputInv, OutputTypeOK
  <2> QED BY <1>1, <1>5, <2>2, <2>3, <2>4, <2>5 DEF Visible
<1> QED BY <1>3, <1>4, <1>6, <1>7 DEF OutputInv, OutputFits

\* An event for a turn that runs leaves its message in its place.
LEMMA EventKeeps ==
  ASSUME OutputInv, NEW t \in OutTurn, Takes(t),
         NEW b \in [text: 0..MaxChunks, notes: BOOLEAN, quiet: BOOLEAN, ref: Nat, edited: BOOLEAN],
         b.ref = buffer[t].ref,
         MaybeEdit(t, b) \/ (buffer' = [buffer EXCEPT ![t] = b] /\ editing' = editing),
         UNCHANGED <<editable, opened, ending, publication, screen, clean, overtaken>>
  PROVE  OutputInv'
<1>1. /\ opened[t].listed /\ publication[t].pc = "no"
      /\ editing' \subseteq editing \cup {t}
      /\ buffer'[t].ref = buffer[t].ref /\ \A u \in OutTurn : u # t => buffer'[u] = buffer[u]
  BY DEF Takes, MaybeEdit, OutputInv, OutputTypeOK, InStep
<1>2. OutputTypeOK'
  <2>1. buffer' \in [OutTurn -> [text: 0..MaxChunks, notes: BOOLEAN, quiet: BOOLEAN, ref: Nat, edited: BOOLEAN]]
    <3>1. PICK c : buffer' = [buffer EXCEPT ![t] = c] /\ (c = b \/ c = [b EXCEPT !.edited = TRUE])
      BY DEF MaybeEdit
    <3>2. c \in [text: 0..MaxChunks, notes: BOOLEAN, quiet: BOOLEAN, ref: Nat, edited: BOOLEAN]
      BY <3>1
    <3> QED BY <3>1, <3>2 DEF OutputInv, OutputTypeOK
  <2>2. editing' \subseteq OutTurn
    BY <1>1 DEF OutputInv, OutputTypeOK
  <2> QED BY <2>1, <2>2 DEF OutputInv, OutputTypeOK
<1>3. ASSUME NEW u \in OutTurn, u # t PROVE OutputFits(u)'
  <2>1. OutputFits(u)
    BY DEF OutputInv, OutputFits
  <2>2. u \in editing' <=> u \in editing
    BY <1>3 DEF MaybeEdit
  <2> QED BY <1>1, <1>3, <2>1, <2>2, OutputFrame
<1>4. InStep(t)'
  BY <1>1 DEF OutputInv, InStep
<1>5. ASSUME Visible(t) PROVE Visible(t)'
  BY <1>1, <1>5 DEF Visible
<1> QED BY <1>2, <1>3, <1>4, <1>5 DEF OutputInv, OutputFits

LEMMA EventsKeep ==
  ASSUME OutputInv, NEW t \in OutTurn, Delta(t) \/ ItemCompleted(t) \/ Notice(t)
  PROVE  OutputInv'
<1>1. buffer[t] \in [text: 0..MaxChunks, notes: BOOLEAN, quiet: BOOLEAN, ref: Nat, edited: BOOLEAN]
  BY DEF OutputInv, OutputTypeOK
<1>2. CASE Delta(t)
  <2>1. PICK n \in Appended(buffer[t].text) : MaybeEdit(t, [buffer[t] EXCEPT !.text = n])
    BY <1>2 DEF Delta
  <2>2. n \in 0..MaxChunks
    BY OutputAssumption DEF Appended
  <2>3. PICK b : b = [buffer[t] EXCEPT !.text = n]
    OBVIOUS
  <2>4. /\ b \in [text: 0..MaxChunks, notes: BOOLEAN, quiet: BOOLEAN, ref: Nat, edited: BOOLEAN]
        /\ b.ref = buffer[t].ref /\ MaybeEdit(t, b)
    BY <1>1, <2>1, <2>2, <2>3
  <2> QED BY <1>2, <2>4, EventKeeps DEF Delta
<1>3. CASE ItemCompleted(t)
  <2>1. PICK s \in ItemSummary : buffer' = [buffer EXCEPT ![t].notes = @ \/ s = "some"]
    BY <1>3 DEF ItemCompleted
  <2>2. PICK b : b = [buffer[t] EXCEPT !.notes = @ \/ s = "some"]
    OBVIOUS
  <2>3. /\ b \in [text: 0..MaxChunks, notes: BOOLEAN, quiet: BOOLEAN, ref: Nat, edited: BOOLEAN]
        /\ b.ref = buffer[t].ref /\ buffer' = [buffer EXCEPT ![t] = b]
    BY <1>1, <2>1, <2>2
  <2> QED BY <1>3, <2>3, EventKeeps DEF ItemCompleted
<1>4. CASE Notice(t)
  <2>1. PICK b : b = [buffer[t] EXCEPT !.notes = TRUE]
    OBVIOUS
  <2>2. /\ b \in [text: 0..MaxChunks, notes: BOOLEAN, quiet: BOOLEAN, ref: Nat, edited: BOOLEAN]
        /\ b.ref = buffer[t].ref /\ MaybeEdit(t, b)
    BY <1>1, <1>4, <2>1 DEF Notice
  <2> QED BY <1>4, <2>2, EventKeeps DEF Notice
<1> QED BY <1>2, <1>3, <1>4

\* What a message says next, if it says anything else.
LEMMA EditedTypes ==
  ASSUME OutputInv, NEW t \in OutTurn, NEW n \in 0..MaxChunks, NEW out \in Outcome, Edited(t, n, out)
  PROVE  /\ screen' \in [OutTurn -> Seq(0..MaxChunks)] /\ clean' \in [OutTurn -> BOOLEAN]
         /\ screen'[t] = IF out.done THEN [screen[t] EXCEPT ![buffer[t].ref] = n] ELSE screen[t]
         /\ clean'[t] = (clean[t] /\ out.ok) /\ (out.ok => out.done)
         /\ \A u \in OutTurn : u # t => screen'[u] = screen[u] /\ clean'[u] = clean[u]
<1>1. screen[t] \in Seq(0..MaxChunks)
  BY DEF OutputInv, OutputTypeOK
<1>2. [screen[t] EXCEPT ![buffer[t].ref] = n] \in Seq(0..MaxChunks)
  BY <1>1, EditKeepsType
<1>3. screen' \in [OutTurn -> Seq(0..MaxChunks)]
  BY <1>2 DEF Edited, OutputInv, OutputTypeOK
<1> QED BY <1>3 DEF Edited, Noted, Outcome, OutputInv, OutputTypeOK

LEMMA ProgressEditedKeeps ==
  ASSUME OutputInv, NEW t \in OutTurn, NEW out \in Outcome, ProgressEdited(t, out)
  PROVE  OutputInv'
<1>1. /\ t \in editing /\ Edited(t, 0, out) /\ editing' = editing \ {t} /\ opened' = opened
      /\ buffer' = buffer /\ publication' = publication /\ overtaken' = overtaken
  BY DEF ProgressEdited
<1>2. 0 \in 0..MaxChunks
  BY OutputAssumption
<1>3. /\ screen' \in [OutTurn -> Seq(0..MaxChunks)] /\ clean' \in [OutTurn -> BOOLEAN]
      /\ screen'[t] = (IF out.done THEN [screen[t] EXCEPT ![buffer[t].ref] = 0] ELSE screen[t])
      /\ clean'[t] = (clean[t] /\ out.ok) /\ (out.ok => out.done)
      /\ \A u \in OutTurn : u # t => screen'[u] = screen[u] /\ clean'[u] = clean[u]
  BY <1>1, <1>2, EditedTypes
<1>4. OutputTypeOK'
  BY <1>3 DEF ProgressEdited, OutputInv, OutputTypeOK
<1>5. ASSUME NEW u \in OutTurn, u # t PROVE OutputFits(u)'
  <2>1. OutputFits(u)
    BY DEF OutputInv, OutputFits
  <2> QED BY <1>1, <1>3, <1>5, <2>1, OutputFrame
<1>6. InStep(t)'
  BY <1>1 DEF OutputInv, InStep
<1>7. ASSUME clean'[t], ~overtaken'[t] PROVE Visible(t)'
  <2>1. clean[t] /\ out.done /\ Visible(t) /\ InStep(t) /\ publication[t].pc = "no"
    BY <1>1, <1>3, <1>7 DEF OutputInv, InStep
  <2>2. ~publication[t].replaces /\ Published(publication[t]) = 0 /\ screen[t] \in Seq(0..MaxChunks)
    BY <2>1 DEF InStep, Published, OutputInv, OutputTypeOK
  <2>3. screen'[t] = screen[t]
    <3>1. CASE opened[t].pc = "open"
      <4>1. buffer[t].ref \in 1..1 /\ screen[t] = ResultBeside(0, buffer[t].ref)
        BY <2>1, <2>2, <3>1 DEF Visible
      <4>2. [ResultBeside(0, buffer[t].ref) EXCEPT ![buffer[t].ref] = 0] = ResultBeside(0, buffer[t].ref)
        BY <4>1, FirstPart
      <4> QED BY <1>3, <2>1, <4>1, <4>2
    <3>2. CASE opened[t].pc # "open"
      <4>1. buffer[t].ref = 0
        BY <2>1, <3>2 DEF InStep
      <4>2. 0 \notin DOMAIN screen[t]
        BY <2>2
      <4>3. [screen[t] EXCEPT ![0] = 0] = screen[t]
        BY <2>2, <4>2
      <4> QED BY <1>3, <2>1, <4>1, <4>3
    <3> QED BY <3>1, <3>2
  <2> QED BY <1>1, <2>1, <2>3 DEF Visible
<1> QED BY <1>4, <1>5, <1>6, <1>7 DEF OutputInv, OutputFits

\* The last progress has been published, and the end begins.
LEMMA CloseKeeps ==
  ASSUME OutputInv, NEW t \in OutTurn, NEW n \in 1..MaxChunks, Close(t, n), opened[t].listed,
         editing' = editing, ending' \subseteq OutTurn, overtaken' \in [OutTurn -> BOOLEAN],
         (overtaken'[t] <=> t \in editing), \A u \in OutTurn : u # t => overtaken'[u] = overtaken[u]
  PROVE  OutputInv'
<1>1. /\ opened'[t] = [opened[t] EXCEPT !.listed = FALSE]
      /\ publication'[t] = [pc |-> IF Replaces(t) THEN "edit" ELSE "send", next |-> 1, size |-> n,
                            replaces |-> Replaces(t)]
      /\ \A u \in OutTurn : u # t => opened'[u] = opened[u] /\ publication'[u] = publication[u]
      /\ editable' = editable /\ buffer' = buffer /\ screen' = screen /\ clean' = clean
  BY DEF Close, OutputInv, OutputTypeOK
<1>2. n \in 0..MaxChunks /\ 1 \in 1..MaxChunks + 1 /\ n \in Nat /\ 1 <= n /\ Replaces(t) \in BOOLEAN
  BY OutputAssumption DEF Replaces, OutputInv, OutputTypeOK
<1>3. OutputTypeOK'
  <2>1. opened' \in [OutTurn -> [pc: OpenPc, listed: BOOLEAN]]
    BY DEF Close, OutputInv, OutputTypeOK
  <2>2. publication' \in [OutTurn -> [pc: ClosePc, next: 1..MaxChunks + 1, size: 0..MaxChunks,
                                      replaces: BOOLEAN]]
    BY <1>2 DEF Close, ClosePc, OutputInv, OutputTypeOK
  <2> QED BY <1>1, <2>1, <2>2 DEF OutputInv, OutputTypeOK
<1>4. ASSUME NEW u \in OutTurn, u # t PROVE OutputFits(u)'
  <2>1. OutputFits(u)
    BY DEF OutputInv, OutputFits
  <2> QED BY <1>1, <1>4, <2>1, OutputFrame
<1>5. /\ opened'[t].pc = opened[t].pc /\ ~opened'[t].listed /\ opened[t].pc # "no"
      /\ publication[t].pc = "no" /\ ~publication[t].replaces
      /\ opened[t].pc # "open" => buffer[t].ref = 0
  BY <1>1 DEF OutputInv, OutputTypeOK, InStep
<1>6. /\ publication'[t].pc = (IF Replaces(t) THEN "edit" ELSE "send") /\ publication'[t].next = 1
      /\ publication'[t].size = n /\ publication'[t].replaces = Replaces(t)
  BY <1>1
<1>7. InStep(t)'
  <2>1. publication'[t].replaces => buffer'[t].ref # 0
    BY <1>1, <1>6 DEF Replaces
  <2> QED BY <1>1, <1>2, <1>5, <1>6, <2>1 DEF InStep
<1>8. ASSUME clean'[t], ~overtaken'[t] PROVE Visible(t)'
  <2>1. clean[t] /\ ~overtaken[t] /\ Visible(t)
    BY <1>1, <1>8 DEF OutputInv, InStep
  <2>3. Published(publication'[t]) = 0 /\ Published(publication[t]) = 0
    BY <1>5, <1>6 DEF Published
  <2> QED BY <1>1, <1>5, <1>6, <2>1, <2>3 DEF Visible
<1> QED BY <1>3, <1>4, <1>7, <1>8 DEF OutputInv, OutputFits

LEMMA EndKeepsOutput ==
  ASSUME OutputInv, NEW t \in OutTurn,
         Interrupt(t) \/ \E completed \in BOOLEAN : TurnEnd(t, completed)
  PROVE  OutputInv'
<1>1. \A n \in 0..MaxChunks, completed \in BOOLEAN : Split(n, completed) \subseteq 1..MaxChunks
  BY OutputAssumption DEF Split
<1>2. \A completed, summaries \in BOOLEAN : Sizes(t, completed, summaries) \subseteq 1..MaxChunks
  <2>1. buffer[t].text \in 0..MaxChunks /\ 1 \in 1..MaxChunks
    BY OutputAssumption DEF OutputInv, OutputTypeOK
  <2> QED BY <1>1, <2>1 DEF Sizes
<1>3. overtaken \in [OutTurn -> BOOLEAN] /\ ending \subseteq OutTurn
  BY DEF OutputInv, OutputTypeOK
<1>4. CASE Interrupt(t)
  <2>1. PICK n \in Sizes(t, FALSE, FALSE) : Close(t, n)
    BY <1>4 DEF Interrupt
  <2>2. /\ opened[t].listed /\ editing' = editing /\ ending' = ending /\ overtaken' \in [OutTurn -> BOOLEAN]
        /\ (overtaken'[t] <=> t \in editing) /\ \A u \in OutTurn : u # t => overtaken'[u] = overtaken[u]
    <3>1. opened[t].listed /\ editing' = editing /\ ending' = ending
          /\ overtaken' = [overtaken EXCEPT ![t] = t \in editing]
      BY <1>4 DEF Interrupt
    <3>2. PICK v \in BOOLEAN : v <=> t \in editing
      OBVIOUS
    <3>3. overtaken' = [overtaken EXCEPT ![t] = v]
      BY <3>1, <3>2, Zenon
    <3> QED BY <1>3, <3>1, <3>2, <3>3
  <2> QED BY <1>2, <1>3, <2>1, <2>2, CloseKeeps
<1>5. ASSUME NEW completed \in BOOLEAN, TurnEnd(t, completed) PROVE OutputInv'
  <2>1. PICK n \in Sizes(t, completed, TRUE) : Close(t, n)
    BY <1>5 DEF TurnEnd
  <2>2. /\ opened[t].listed /\ t \notin editing /\ editing' = editing /\ ending' = {t}
        /\ overtaken' = overtaken /\ ~overtaken[t]
    BY <1>5 DEF TurnEnd, Takes, OutputInv, InStep
  <2> QED BY <1>2, <1>3, <2>1, <2>2, CloseKeeps
<1> QED BY <1>4, <1>5

\* A part of the result is there, or not.
LEMMA PartsGoOn ==
  ASSUME NEW k \in [pc: ClosePc, next: 1..MaxChunks + 1, size: 0..MaxChunks, replaces: BOOLEAN],
         k.next <= k.size, NEW out \in Outcome
  PROVE  LET r == Parts(k, out) IN
         /\ r \in [pc: ClosePc, next: 1..MaxChunks + 1, size: 0..MaxChunks, replaces: BOOLEAN]
         /\ r.pc \in {"more", "files"} /\ r.next <= r.size /\ r.size = k.size /\ r.replaces = k.replaces
         /\ out.ok => Published(r) = k.next
<1>1. PICK n : n = k.next + 1
  OBVIOUS
<1>2. /\ MaxChunks \in Nat /\ k.next \in Nat /\ k.size \in Nat /\ n \in Nat /\ k.next = n - 1
      /\ k.size <= MaxChunks /\ n >= 1
  BY <1>1, OutputAssumption
<1>3. CASE out.ok /\ n <= k.size
  <2>1. Parts(k, out) = [k EXCEPT !.pc = "more", !.next = n]
    BY <1>1, <1>3 DEF Parts
  <2>2. n \in 1..MaxChunks + 1
    BY <1>2, <1>3
  <2>3. PICK r : r = Parts(k, out)
    OBVIOUS
  <2>4. /\ r \in [pc: ClosePc, next: 1..MaxChunks + 1, size: 0..MaxChunks, replaces: BOOLEAN]
        /\ r.pc = "more" /\ r.next = n /\ r.size = k.size /\ r.replaces = k.replaces
    BY <2>1, <2>2, <2>3 DEF ClosePc
  <2>5. Published(r) = k.next
    BY <1>2, <2>4 DEF Published
  <2> QED BY <1>3, <2>3, <2>4, <2>5
<1>4. CASE ~(out.ok /\ n <= k.size)
  <2>1. Parts(k, out) = [k EXCEPT !.pc = "files"]
    BY <1>1, <1>4 DEF Parts
  <2>2. out.ok => k.size = k.next
    BY <1>1, <1>2, <1>4
  <2> QED BY <2>1, <2>2 DEF Published, ClosePc
<1> QED BY <1>3, <1>4

LEMMA FirstEditedKeeps ==
  ASSUME OutputInv, NEW t \in OutTurn, NEW out \in Outcome, FirstEdited(t, out)
  PROVE  OutputInv'
<1>1. /\ publication[t].pc = "edit" /\ Edited(t, 1, out) /\ editing' = editing /\ opened' = opened
      /\ buffer' = buffer /\ overtaken' = overtaken
      /\ publication'[t] = (IF out.ok THEN Parts(publication[t], out)
                           ELSE [publication[t] EXCEPT !.pc = "send"])
      /\ \A u \in OutTurn : u # t => publication'[u] = publication[u]
  BY DEF FirstEdited, OutputInv, OutputTypeOK
<1>2. 1 \in 0..MaxChunks
  BY OutputAssumption
<1>3. /\ screen' \in [OutTurn -> Seq(0..MaxChunks)] /\ clean' \in [OutTurn -> BOOLEAN]
      /\ screen'[t] = (IF out.done THEN [screen[t] EXCEPT ![buffer[t].ref] = 1] ELSE screen[t])
      /\ clean'[t] = (clean[t] /\ out.ok) /\ (out.ok => out.done)
      /\ \A u \in OutTurn : u # t => screen'[u] = screen[u] /\ clean'[u] = clean[u]
  BY <1>1, <1>2, EditedTypes
<1>4. /\ InStep(t) /\ publication[t].replaces /\ publication[t].next = 1
      /\ publication[t].size # 0 /\ publication[t].next <= publication[t].size /\ buffer[t].ref # 0
      /\ opened[t].pc = "open" /\ ~opened[t].listed /\ (t \in editing => overtaken[t])
      /\ publication[t] \in [pc: ClosePc, next: 1..MaxChunks + 1, size: 0..MaxChunks, replaces: BOOLEAN]
  BY <1>1 DEF OutputInv, OutputTypeOK, InStep
<1>5. PICK r : r = Parts(publication[t], out)
  OBVIOUS
<1>6. /\ r \in [pc: ClosePc, next: 1..MaxChunks + 1, size: 0..MaxChunks, replaces: BOOLEAN]
      /\ r.pc \in {"more", "files"} /\ r.next <= r.size /\ r.size = publication[t].size
      /\ r.replaces = publication[t].replaces /\ (out.ok => Published(r) = publication[t].next)
  BY <1>4, <1>5, PartsGoOn
<1>7. ASSUME out.ok PROVE OutputFits(t)'
  <2>1. publication'[t] = r
    BY <1>1, <1>5, <1>7
  <2>2. publication'[t] \in [pc: ClosePc, next: 1..MaxChunks + 1, size: 0..MaxChunks, replaces: BOOLEAN]
    BY <1>6, <2>1
  <2>3. InStep(t)'
    BY <1>1, <1>4, <1>6, <2>1 DEF InStep
  <2>4. ASSUME clean'[t], ~overtaken'[t] PROVE Visible(t)'
    <3>1. Visible(t) /\ Published(publication[t]) = 0 /\ Published(r) = 1 /\ out.done
      BY <1>1, <1>3, <1>4, <1>6, <1>7, <2>4 DEF OutputInv, Published
    <3>2. buffer[t].ref \in 1..1 /\ screen[t] = ResultBeside(0, buffer[t].ref)
      BY <1>1, <1>4, <3>1 DEF Visible
    <3>3. [ResultBeside(0, buffer[t].ref) EXCEPT ![buffer[t].ref] = 1] = Result(1)
      BY <3>2, FirstPart
    <3>4. screen'[t] = Result(1)
      BY <1>3, <3>1, <3>2, <3>3
    <3> QED BY <1>1, <1>4, <1>6, <2>1, <3>1, <3>4 DEF Visible
  <2> QED BY <2>2, <2>3, <2>4 DEF OutputFits
<1>8. ASSUME ~out.ok PROVE OutputFits(t)'
  <2>1. publication'[t] = [publication[t] EXCEPT !.pc = "send"]
    BY <1>1, <1>8
  <2>2. publication'[t] \in [pc: ClosePc, next: 1..MaxChunks + 1, size: 0..MaxChunks, replaces: BOOLEAN]
    BY <1>4, <2>1 DEF ClosePc
  <2>3. InStep(t)'
    BY <1>1, <1>4, <2>1 DEF InStep
  <2> QED BY <1>3, <1>8, <2>2, <2>3 DEF OutputFits
<1>9. publication'[t] \in [pc: ClosePc, next: 1..MaxChunks + 1, size: 0..MaxChunks, replaces: BOOLEAN]
  BY <1>4, <1>6, <1>1, <1>5 DEF ClosePc
<1>10. OutputTypeOK'
  <2>1. publication' \in [OutTurn -> [pc: ClosePc, next: 1..MaxChunks + 1, size: 0..MaxChunks,
                                      replaces: BOOLEAN]]
    BY <1>9 DEF FirstEdited, OutputInv, OutputTypeOK
  <2> QED BY <1>3, <2>1 DEF FirstEdited, OutputInv, OutputTypeOK
<1>11. ASSUME NEW u \in OutTurn, u # t PROVE OutputFits(u)'
  <2>1. OutputFits(u)
    BY DEF OutputInv, OutputFits
  <2> QED BY <1>1, <1>3, <1>11, <2>1, OutputFrame
<1>12. OutputFits(t)'
  BY <1>7, <1>8
<1> QED BY <1>10, <1>11, <1>12 DEF OutputInv, OutputFits

LEMMA PartSentKeeps ==
  ASSUME OutputInv, NEW t \in OutTurn, NEW out \in Outcome, PartSent(t, out)
  PROVE  OutputInv'
<1>1. /\ publication[t].pc \in {"send", "more"} /\ editing' = editing /\ opened' = opened
      /\ buffer' = buffer /\ overtaken' = overtaken
      /\ publication'[t] = Parts(publication[t], out)
      /\ \A u \in OutTurn : u # t => publication'[u] = publication[u]
  BY DEF PartSent, OutputInv, OutputTypeOK
<1>2. /\ InStep(t) /\ publication[t].size # 0 /\ publication[t].next <= publication[t].size
      /\ (publication[t].pc = "send" => publication[t].next = 1)
      /\ opened[t].pc # "no" /\ ~opened[t].listed /\ (t \in editing => overtaken[t])
      /\ publication[t] \in [pc: ClosePc, next: 1..MaxChunks + 1, size: 0..MaxChunks, replaces: BOOLEAN]
  BY <1>1 DEF OutputInv, OutputTypeOK, InStep
<1>3. PICK n : n = publication[t].next
  OBVIOUS
<1>4. n \in 0..MaxChunks /\ n \in Nat /\ n >= 1 /\ n - 1 \in Nat /\ (n - 1) + 1 = n
  BY <1>2, <1>3, OutputAssumption
<1>5. /\ screen' \in [OutTurn -> Seq(0..MaxChunks)] /\ clean' \in [OutTurn -> BOOLEAN]
      /\ screen'[t] = (IF out.done THEN Append(screen[t], n) ELSE screen[t])
      /\ clean'[t] = (clean[t] /\ out.ok) /\ (out.ok => out.done)
      /\ \A u \in OutTurn : u # t => screen'[u] = screen[u] /\ clean'[u] = clean[u]
  <2>1. Append(screen[t], n) \in Seq(0..MaxChunks)
    BY <1>4 DEF OutputInv, OutputTypeOK
  <2>2. screen' \in [OutTurn -> Seq(0..MaxChunks)]
    BY <1>3, <2>1 DEF PartSent, Sent, OutputInv, OutputTypeOK
  <2> QED BY <1>3, <2>2 DEF PartSent, Sent, Noted, Outcome, OutputInv, OutputTypeOK
<1>6. PICK r : r = Parts(publication[t], out)
  OBVIOUS
<1>7. /\ r \in [pc: ClosePc, next: 1..MaxChunks + 1, size: 0..MaxChunks, replaces: BOOLEAN]
      /\ r.pc \in {"more", "files"} /\ r.next <= r.size /\ r.size = publication[t].size
      /\ r.replaces = publication[t].replaces /\ (out.ok => Published(r) = n)
  BY <1>2, <1>3, <1>6, PartsGoOn
<1>8. publication'[t] = r
  BY <1>1, <1>6
<1>9. OutputTypeOK'
  <2>1. publication' \in [OutTurn -> [pc: ClosePc, next: 1..MaxChunks + 1, size: 0..MaxChunks,
                                      replaces: BOOLEAN]]
    BY <1>6, <1>7 DEF PartSent, OutputInv, OutputTypeOK
  <2> QED BY <1>5, <2>1 DEF PartSent, OutputInv, OutputTypeOK
<1>10. ASSUME NEW u \in OutTurn, u # t PROVE OutputFits(u)'
  <2>1. OutputFits(u)
    BY DEF OutputInv, OutputFits
  <2> QED BY <1>1, <1>5, <1>10, <2>1, OutputFrame
<1>11. InStep(t)'
  BY <1>1, <1>2, <1>7, <1>8 DEF InStep
<1>12. ASSUME clean'[t], ~overtaken'[t] PROVE Visible(t)'
  <2>1. Visible(t) /\ out.ok /\ out.done
    BY <1>1, <1>5, <1>12 DEF OutputInv
  <2>2. Published(publication[t]) = n - 1
    BY <1>1, <1>2, <1>3, <1>4 DEF Published
  <2>3. screen'[t] = Append(screen[t], n) /\ Published(publication'[t]) = n
    BY <1>5, <1>7, <1>8, <2>1
  <2>4. CASE opened[t].pc = "open" /\ (publication[t].replaces => publication[t].pc = "edit")
    <3>1. buffer[t].ref \in 1..(n - 1) + 1 /\ screen[t] = ResultBeside(n - 1, buffer[t].ref)
      BY <2>1, <2>2, <2>4 DEF Visible
    <3>2. Append(ResultBeside(n - 1, buffer[t].ref), (n - 1) + 1) = ResultBeside((n - 1) + 1, buffer[t].ref)
      BY <1>4, <3>1, NextPart
    <3>3. ~publication[t].replaces
      BY <1>1, <2>4
    <3>4. screen'[t] = ResultBeside(n, buffer[t].ref) /\ buffer[t].ref \in 1..n + 1
      BY <1>4, <2>3, <3>1, <3>2
    <3> QED BY <1>1, <1>7, <1>8, <2>3, <2>4, <3>3, <3>4 DEF Visible
  <2>5. CASE ~(opened[t].pc = "open" /\ (publication[t].replaces => publication[t].pc = "edit"))
    <3>1. screen[t] = Result(n - 1)
      BY <2>1, <2>2, <2>5 DEF Visible
    <3>2. Append(Result(n - 1), (n - 1) + 1) = Result((n - 1) + 1)
      <4>1. (n - 1) + 1 \in 1..(n - 1) + 1
        BY <1>4
      <4> QED BY <1>4, <4>1, NextPart
    <3>3. screen'[t] = Result(n)
      BY <1>4, <2>3, <3>1, <3>2
    <3>4. ~(opened[t].pc = "open" /\ (r.replaces => r.pc = "edit"))
      BY <1>7, <2>5
    <3> QED BY <1>1, <1>7, <1>8, <2>3, <3>3, <3>4 DEF Visible
  <2> QED BY <2>4, <2>5
<1> QED BY <1>9, <1>10, <1>11, <1>12 DEF OutputInv, OutputFits

LEMMA FilesSentKeeps == ASSUME OutputInv, NEW t \in OutTurn, FilesSent(t) PROVE OutputInv'
<1>1. /\ publication[t].pc = "files" /\ editing' = editing /\ opened' = opened /\ buffer' = buffer
      /\ overtaken' = overtaken /\ screen' = screen /\ clean' = clean
      /\ publication'[t] = [publication[t] EXCEPT !.pc = "over"]
      /\ \A u \in OutTurn : u # t => publication'[u] = publication[u]
  BY DEF FilesSent, OutputInv, OutputTypeOK
<1>2. OutputTypeOK'
  BY DEF FilesSent, ClosePc, OutputInv, OutputTypeOK
<1>3. ASSUME NEW u \in OutTurn, u # t PROVE OutputFits(u)'
  <2>1. OutputFits(u)
    BY DEF OutputInv, OutputFits
  <2> QED BY <1>1, <1>3, <2>1, OutputFrame
<1>4. /\ publication'[t].pc = "over" /\ publication'[t].next = publication[t].next
      /\ publication'[t].size = publication[t].size
      /\ publication'[t].replaces = publication[t].replaces
  BY <1>1 DEF OutputInv, OutputTypeOK
<1>5. InStep(t)'
  BY <1>1, <1>4 DEF OutputInv, InStep
<1>6. ASSUME Visible(t) PROVE Visible(t)'
  <2>1. Published(publication'[t]) = Published(publication[t])
    BY <1>1, <1>4 DEF Published
  <2> QED BY <1>1, <1>4, <1>6, <2>1 DEF Visible
<1> QED BY <1>1, <1>2, <1>3, <1>5, <1>6 DEF OutputInv, OutputFits

LEMMA OutputStepKeepsInv == OutputInv /\ [OutputNext]_outputVars => OutputInv'
<1> SUFFICES ASSUME OutputInv, [OutputNext]_outputVars PROVE OutputInv'
  OBVIOUS
<1>1. ASSUME NEW t \in OutTurn, NEW quiet \in BOOLEAN, Open(t, quiet) PROVE OutputInv'
  BY <1>1, OpenKeeps
<1>2. ASSUME NEW t \in OutTurn, NEW out \in Outcome,
             OpenAnswered(t, out) \/ ProgressEdited(t, out) \/ FirstEdited(t, out) \/ PartSent(t, out)
      PROVE  OutputInv'
  BY <1>2, OpenAnsweredKeeps, ProgressEditedKeeps, FirstEditedKeeps, PartSentKeeps
<1>3. ASSUME NEW t \in OutTurn, Delta(t) \/ ItemCompleted(t) \/ Notice(t) PROVE OutputInv'
  BY <1>3, EventsKeep
<1>4. ASSUME NEW t \in OutTurn, Interrupt(t) \/ \E completed \in BOOLEAN : TurnEnd(t, completed)
      PROVE  OutputInv'
  BY <1>4, EndKeepsOutput
<1>5. ASSUME NEW t \in OutTurn, FilesSent(t) PROVE OutputInv'
  BY <1>5, FilesSentKeeps
<1>6. CASE UNCHANGED outputVars
  BY <1>6 DEF outputVars, OutputInv, OutputTypeOK, InStep, Visible
<1> QED BY <1>1, <1>2, <1>3, <1>4, <1>5, <1>6 DEF OutputNext

\* In every reachable state, for any number of turns and parts, the chat shows of an
\* output what its publication has sent so far.
THEOREM OutputInvariance == OutputSpec => []OutputInv
  BY OutputInvInit, OutputStepKeepsInv, PTL DEF OutputSpec

\* The result of a turn is in the chat complete and in order, in the place of the
\* "working" message or beside the only one, if no call failed and no /stop came while
\* a progress edit was under way.
THEOREM ResultsStand == OutputSpec => []ResultStands
<1>1. OutputInv => ResultStands
  <2> SUFFICES ASSUME OutputInv, NEW t \in OutTurn,
                      publication[t].pc = "over", clean[t], ~overtaken[t]
               PROVE  LET n == publication[t].size IN
                      \/ screen[t] = Result(n)
                      \/ ~publication[t].replaces /\ \E w \in 1..n + 1 : screen[t] = ResultBeside(n, w)
    BY DEF ResultStands
  <2>1. Visible(t) /\ Published(publication[t]) = publication[t].size
    BY DEF OutputInv, Published
  <2> QED BY <2>1 DEF Visible
<1> QED BY <1>1, OutputInvariance, PTL

\* An output's record has the fields the manager keeps, with messages it has numbered.
THEOREM OutputTypeCorrect == OutputSpec => []OutputTypeOK
<1>1. OutputInv => OutputTypeOK
  BY DEF OutputInv
<1> QED BY <1>1, OutputInvariance, PTL
=============================================================================
