---------------------------- MODULE SublistLemmas ----------------------------
EXTENDS Sublists, SequencesExt, SequenceTheorems, WellFoundedInduction, TLAPS

\* Induction over the natural numbers, for a set of them.
LEMMA AllNaturals ==
  ASSUME NEW S, 0 \in S, \A n \in Nat : n \in S => n + 1 \in S
  PROVE  Nat \subseteq S
<1> SUFFICES ASSUME Nat \ S # {} PROVE FALSE
  OBVIOUS
<1>1. PICK n \in Nat \ S : \A m \in Nat \ S : <<m, n>> \notin OpToRel(<, Nat)
  <2>1. Nat \ S \subseteq Nat
    OBVIOUS
  <2> QED
    BY <2>1, WFMin, NatLessThanWellFounded
<1>2. \A m \in Nat \ S : ~(m < n)
  BY <1>1 DEF OpToRel
<1>3. n # 0 /\ n - 1 \in Nat /\ n - 1 < n /\ n = (n - 1) + 1
  OBVIOUS
<1> QED
  BY <1>1, <1>2, <1>3

\* The n steps of h from a can be taken.
CanStep(V, a, n, h) == \E g \in [0..n -> V] : g[0] = a /\ \A i \in 1..n : g[i] = h[i][g[i - 1]]

\* Steps taken one after the other.
LEMMA StepsExist ==
  ASSUME NEW V, NEW a \in V, NEW n \in Nat, NEW h \in [1..n -> [V -> V]]
  PROVE  CanStep(V, a, n, h)
<1> DEFINE Goes(g, m) == g \in [0..m -> V] /\ g[0] = a /\ \A i \in 1..m : g[i] = h[i][g[i - 1]]
           S == {m \in Nat : m <= n => \E g : Goes(g, m)}
<1>1. 0 \in S
  <2>1. Goes([i \in 0..0 |-> a], 0)
    OBVIOUS
  <2> QED
    BY <2>1
<1>2. ASSUME NEW m \in Nat, m \in S PROVE m + 1 \in S
  <2> SUFFICES ASSUME m + 1 <= n PROVE \E g : Goes(g, m + 1)
    OBVIOUS
  <2>1. PICK g : Goes(g, m)
    BY <1>2
  <2> DEFINE f == [i \in 0..(m + 1) |-> IF i <= m THEN g[i] ELSE h[m + 1][g[m]]]
  <2>2. m \in 0..m /\ g[m] \in V /\ m + 1 \in 1..n /\ h[m + 1] \in [V -> V]
    BY <2>1
  <2>3. h[m + 1][g[m]] \in V
    BY <2>2
  <2>4. f \in [0..(m + 1) -> V] /\ f[0] = a
    BY <2>1, <2>3
  <2>5. ASSUME NEW i \in 1..(m + 1) PROVE f[i] = h[i][f[i - 1]]
    <3>1. CASE i <= m
      <4>1. i \in 1..m /\ i - 1 \in 0..m /\ f[i] = g[i] /\ f[i - 1] = g[i - 1]
        BY <3>1
      <4> QED
        BY <2>1, <4>1
    <3>2. CASE i = m + 1
      <4>1. i - 1 = m /\ f[i] = h[i][g[m]] /\ f[m] = g[m]
        BY <3>2
      <4> QED
        BY <4>1
    <3> QED
      BY <3>1, <3>2
  <2> QED
    BY <2>4, <2>5
<1>3. Nat \subseteq S
  BY <1>1, <1>2, AllNaturals
<1> QED
  BY <1>3 DEF CanStep

\* g is what has been kept of s, place by place.
SiftsTo(g, s, S, T) ==
  /\ g \in [0..Len(s) -> Seq(T)] /\ g[0] = <<>> /\ Those(s, S) = g[Len(s)]
  /\ \A i \in 1..Len(s) : g[i] = IF s[i] \in S THEN Append(g[i - 1], s[i]) ELSE g[i - 1]

\* Those, step by step.
LEMMA ThoseSteps ==
  ASSUME NEW T, NEW s \in Seq(T), NEW S
  PROVE  \E g : SiftsTo(g, s, S, T)
<1> DEFINE n == Len(s)
           Body(g) == [i \in 0..n |-> IF i = 0 THEN <<>>
                                      ELSE IF s[i] \in S THEN Append(g[i - 1], s[i]) ELSE g[i - 1]]
           f == CHOOSE g : g = Body(g)
           h == [i \in 1..n |-> [v \in Seq(T) |-> IF s[i] \in S THEN Append(v, s[i]) ELSE v]]
<1>1. n \in Nat /\ <<>> \in Seq(T) /\ \A i \in 1..n : s[i] \in T
  BY ElementOfSeq, EmptySeq
<1>2. h \in [1..n -> [Seq(T) -> Seq(T)]]
  BY <1>1, AppendProperties
<1>3. PICK g \in [0..n -> Seq(T)] : g[0] = <<>> /\ \A i \in 1..n : g[i] = h[i][g[i - 1]]
  <2>1. <<>> \in Seq(T) /\ n \in Nat
    BY <1>1
  <2> HIDE DEF h, n
  <2>2. CanStep(Seq(T), <<>>, n, h)
    BY <1>2, <2>1, StepsExist, Zenon
  <2> QED
    BY <2>2, Zenon DEF CanStep
<1>4. \A i \in 1..n : g[i] = IF s[i] \in S THEN Append(g[i - 1], s[i]) ELSE g[i - 1]
  <2> TAKE i \in 1..n
  <2>1. i - 1 \in 0..n
    BY <1>1
  <2>2. g[i - 1] \in Seq(T)
    BY <1>3, <2>1
  <2> QED
    BY <1>3, <2>2
<1>5. g = Body(g)
  <2>1. g = [i \in 0..n |-> g[i]]
    BY <1>3
  <2>2. ASSUME NEW i \in 0..n
        PROVE  g[i] = IF i = 0 THEN <<>> ELSE IF s[i] \in S THEN Append(g[i - 1], s[i]) ELSE g[i - 1]
    <3>1. i = 0 \/ i \in 1..n
      BY <1>1
    <3> HIDE DEF h, n
    <3> QED
      BY <1>3, <1>4, <3>1
  <2> HIDE DEF h, n
  <2> QED
    BY ONLY <2>1, <2>2, Zenon DEF Body
<1>6. f = Body(f)
  <2> HIDE DEF Body
  <2> QED
    BY <1>5
<1>7. Those(s, S) = f[n]
  BY DEF Those
<1>8. f[0] = <<>> /\ \A i \in 1..n : f[i] = IF s[i] \in S THEN Append(f[i - 1], s[i]) ELSE f[i - 1]
  <2> HIDE DEF f
  <2>1. \A i \in 0..n : f[i] = IF i = 0 THEN <<>> ELSE IF s[i] \in S THEN Append(f[i - 1], s[i]) ELSE f[i - 1]
    BY ONLY <1>6 DEF Body
  <2> QED
    BY <1>1, <2>1
<1> HIDE DEF f
<1>9. f = [i \in 0..n |-> f[i]]
  BY <1>6
<1>10. \A i \in 0..n : f[i] \in Seq(T)
  <2> DEFINE P == {i \in Nat : i <= n => f[i] \in Seq(T)}
  <2>1. 0 \in P
    BY <1>1, <1>8
  <2>2. ASSUME NEW i \in Nat, i \in P PROVE i + 1 \in P
    <3> SUFFICES ASSUME i + 1 <= n PROVE f[i + 1] \in Seq(T)
      OBVIOUS
    <3>1. i + 1 \in 1..n /\ (i + 1) - 1 = i /\ f[i] \in Seq(T) /\ s[i + 1] \in T
      BY <1>1, <2>2
    <3>2. f[i + 1] = IF s[i + 1] \in S THEN Append(f[i], s[i + 1]) ELSE f[i]
      BY <3>1, <1>8
    <3>3. Append(f[i], s[i + 1]) \in Seq(T)
      BY <3>1, AppendProperties
    <3> QED
      BY <3>1, <3>2, <3>3
  <2>3. Nat \subseteq P
    <3> HIDE DEF P
    <3> QED
      BY <2>1, <2>2, AllNaturals
  <2> QED
    BY <1>1, <2>3
<1> QED
  BY <1>7, <1>8, <1>9, <1>10 DEF SiftsTo
-----------------------------------------------------------------------------
\* e is where each element of r, those of S among the first i of s, was.
PlacesOf(e, r, s, i, S) ==
  /\ Len(r) \in Nat /\ Len(r) <= i /\ e \in [1..Len(r) -> 1..i]
  /\ \A j \in 1..Len(r) : r[j] = s[e[j]] /\ r[j] \in S
  /\ \A j, k \in 1..Len(r) : j < k => e[j] < e[k]
  /\ \A m \in 1..i : s[m] \in S => \E j \in 1..Len(r) : e[j] = m

\* A step: the next element is one of those, or not.
LEMMA PlacesStep ==
  ASSUME NEW T, NEW s \in Seq(T), NEW S, NEW i \in Nat, i + 1 <= Len(s), NEW r \in Seq(T), NEW e,
         PlacesOf(e, r, s, i, S)
  PROVE  \E f : PlacesOf(f, IF s[i + 1] \in S THEN Append(r, s[i + 1]) ELSE r, s, i + 1, S)
<1> DEFINE l == Len(r)
           x == s[i + 1]
<1>1. i + 1 \in 1..Len(s) /\ x \in T /\ Len(s) \in Nat /\ l \in Nat /\ l <= i
  BY ElementOfSeq DEF PlacesOf
<1>2. CASE x \notin S
  <2>1. e \in [1..l -> 1..(i + 1)]
    BY <1>1 DEF PlacesOf
  <2>2. \A m \in 1..(i + 1) : s[m] \in S => m \in 1..i
    BY <1>1, <1>2
  <2>3. PlacesOf(e, r, s, i + 1, S)
    BY <1>1, <2>1, <2>2 DEF PlacesOf
  <2> QED
    BY <1>2, <2>3
<1>3. CASE x \in S
  <2> DEFINE t == Append(r, x)
             f == [j \in 1..(l + 1) |-> IF j <= l THEN e[j] ELSE i + 1]
  <2>1. t \in Seq(T) /\ Len(t) = l + 1 /\ t[l + 1] = x /\ \A j \in 1..l : t[j] = r[j]
    BY <1>1, AppendProperties
  <2>2. \A j \in 1..(l + 1) : j \in 1..l \/ j = l + 1
    BY <1>1
  <2>3. \A j \in 1..l : f[j] = e[j] /\ e[j] \in 1..i /\ r[j] = s[e[j]] /\ r[j] \in S /\ j \in 1..(l + 1)
    BY <1>1 DEF PlacesOf
  <2>4. f[l + 1] = i + 1 /\ l + 1 \in 1..(l + 1)
    BY <1>1
  <2>5. f \in [1..(l + 1) -> 1..(i + 1)]
    <3>1. ASSUME NEW j \in 1..(l + 1) PROVE f[j] \in 1..(i + 1)
      <4> HIDE DEF f
      <4>1. CASE j \in 1..l
        BY <4>1, <2>3
      <4>2. CASE j = l + 1
        BY <4>2, <2>4
      <4> QED
        BY <2>2, <4>1, <4>2
    <3> QED
      BY <3>1
  <2> HIDE DEF f, t
  <2>6. \A j \in 1..(l + 1) : t[j] = s[f[j]] /\ t[j] \in S
    BY <1>3, <2>1, <2>2, <2>3, <2>4
  <2>7. \A j, k \in 1..(l + 1) : j < k => f[j] < f[k]
    <3> TAKE j, k \in 1..(l + 1)
    <3> SUFFICES ASSUME j < k PROVE f[j] < f[k]
      OBVIOUS
    <3>1. j \in 1..l
      BY <1>1
    <3>2. CASE k \in 1..l
      BY <3>1, <3>2, <2>3 DEF PlacesOf
    <3>3. CASE k = l + 1
      <4>1. f[j] = e[j] /\ e[j] \in 1..i
        BY <3>1, <2>3
      <4> QED
        BY <1>1, <2>4, <3>3, <4>1
    <3> QED
      BY <2>2, <3>2, <3>3
  <2>8. \A m \in 1..(i + 1) : s[m] \in S => \E j \in 1..(l + 1) : f[j] = m
    <3> SUFFICES ASSUME NEW m \in 1..(i + 1), s[m] \in S PROVE \E j \in 1..(l + 1) : f[j] = m
      OBVIOUS
    <3>1. CASE m = i + 1
      BY <3>1, <2>4
    <3>2. CASE m \in 1..i
      BY <3>2, <2>3 DEF PlacesOf
    <3> QED
      BY <1>1, <3>1, <3>2
  <2>9. PlacesOf(f, t, s, i + 1, S)
    BY <1>1, <2>1, <2>5, <2>6, <2>7, <2>8 DEF PlacesOf
  <2> QED
    BY <1>3, <2>9 DEF t
<1> QED
  BY <1>2, <1>3

\* Those keeps the places' order, each element of S and none other.
LEMMA ThosePlaces ==
  ASSUME NEW T, NEW s \in Seq(T), NEW S
  PROVE  Those(s, S) \in Seq(T) /\ \E e : PlacesOf(e, Those(s, S), s, Len(s), S)
<1>1. PICK g : SiftsTo(g, s, S, T)
  BY ThoseSteps
<1>2. Len(s) \in Nat /\ Len(s) \in 0..Len(s)
  BY LenProperties
<1> DEFINE P == {i \in Nat : i <= Len(s) => \E e : PlacesOf(e, g[i], s, i, S)}
<1>3. 0 \in P
  <2>1. PlacesOf([j \in 1..0 |-> 0], <<>>, s, 0, S)
    BY DEF PlacesOf
  <2> QED
    BY <1>1, <2>1 DEF SiftsTo
<1>4. ASSUME NEW i \in Nat, i \in P PROVE i + 1 \in P
  <2> SUFFICES ASSUME i + 1 <= Len(s) PROVE \E e : PlacesOf(e, g[i + 1], s, i + 1, S)
    OBVIOUS
  <2>1. i + 1 \in 1..Len(s) /\ (i + 1) - 1 = i /\ i \in 0..Len(s) /\ i <= Len(s)
    BY <1>2
  <2>2. PICK e : PlacesOf(e, g[i], s, i, S)
    BY <1>4, <2>1
  <2>3. g[i] \in Seq(T) /\ g[i + 1] = IF s[i + 1] \in S THEN Append(g[i], s[i + 1]) ELSE g[i]
    BY <1>1, <2>1 DEF SiftsTo
  <2> QED
    BY <2>2, <2>3, PlacesStep
<1>5. Nat \subseteq P
  <2> HIDE DEF P
  <2> QED
    BY <1>3, <1>4, AllNaturals
<1> QED
  BY <1>1, <1>2, <1>5 DEF SiftsTo

-----------------------------------------------------------------------------
\* A set of natural numbers has a least one.
LEMMA LeastExists ==
  ASSUME NEW S, S \subseteq Nat, S # {}
  PROVE  \E n \in S : \A m \in S : n <= m
<1>1. PICK n \in S : \A m \in S : <<m, n>> \notin OpToRel(<, Nat)
  BY WFMin, NatLessThanWellFounded
<1>2. \A m \in S : m \in Nat /\ n \in Nat /\ ~(m < n)
  BY <1>1 DEF OpToRel
<1>3. \A m \in S : n <= m
  BY <1>2
<1> QED
  BY <1>3

\* A list without its element at i.
LEMMA RemovedAt ==
  ASSUME NEW T, NEW s \in Seq(T), NEW i \in 1..Len(s)
  PROVE  /\ RemoveAt(s, i) \in Seq(T) /\ Len(s) \in Nat /\ Len(RemoveAt(s, i)) = Len(s) - 1
         /\ \A j \in 1..(Len(s) - 1) : RemoveAt(s, i)[j] = IF j < i THEN s[j] ELSE s[j + 1]
<1> DEFINE a == SubSeq(s, 1, i - 1)
           b == SubSeq(s, i + 1, Len(s))
<1>1. Len(s) \in Nat /\ i \in Nat /\ 1 <= i /\ i <= Len(s)
  BY LenProperties
<1>2. a \in Seq(T) /\ Len(a) = i - 1 /\ \A j \in 1..(i - 1) : a[j] = s[j]
  BY <1>1, SubSeqProperties
<1>3. b \in Seq(T) /\ Len(b) = Len(s) - i /\ \A j \in 1..(Len(s) - i) : b[j] = s[i + j]
  BY <1>1, SubSeqProperties
<1> HIDE DEF a, b
<1>4. a \o b \in Seq(T) /\ Len(a \o b) = Len(a) + Len(b)
      /\ \A j \in 1..(Len(a) + Len(b)) : (a \o b)[j] = IF j <= Len(a) THEN a[j] ELSE b[j - Len(a)]
  BY <1>2, <1>3, ConcatProperties
<1>5. RemoveAt(s, i) = a \o b
  BY DEF RemoveAt, a, b
<1>6. ASSUME NEW j \in 1..(Len(s) - 1)
      PROVE  (a \o b)[j] = IF j < i THEN s[j] ELSE s[j + 1]
  <2>1. CASE j < i
    <3>1. j \in 1..(i - 1) /\ j <= Len(a) /\ j \in 1..(Len(a) + Len(b))
      BY <1>1, <1>2, <1>3, <2>1
    <3> QED
      BY <1>2, <1>4, <2>1, <3>1
  <2>2. CASE ~(j < i)
    <3>1. ~(j <= Len(a)) /\ j \in 1..(Len(a) + Len(b)) /\ j - Len(a) = j - i + 1
          /\ j - i + 1 \in 1..(Len(s) - i) /\ i + (j - i + 1) = j + 1
      BY <1>1, <1>2, <1>3, <2>2
    <3> DEFINE m == j - i + 1
    <3>2. m \in 1..(Len(s) - i) /\ i + m = j + 1
      BY <3>1
    <3>3. b[m] = s[i + m]
      BY ONLY <1>3, <3>2
    <3> QED
      BY <1>4, <2>2, <3>1, <3>2, <3>3
  <2> QED
    BY <2>1, <2>2
<1>7. Len(a \o b) = Len(s) - 1
  BY <1>1, <1>2, <1>3, <1>4
<1> QED
  BY ONLY <1>1, <1>4, <1>5, <1>6, <1>7, Zenon

\* A list with one more element before its first.
LEMMA Prefixed ==
  ASSUME NEW T, NEW x \in T, NEW o \in Seq(T)
  PROVE  /\ <<x>> \o o \in Seq(T) /\ Len(<<x>> \o o) = 1 + Len(o) /\ (<<x>> \o o)[1] = x
         /\ \A i \in 2..(1 + Len(o)) : i - 1 \in 1..Len(o) /\ (<<x>> \o o)[i] = o[i - 1]
<1>1. <<x>> \in Seq(T) /\ Len(<<x>>) = 1 /\ <<x>>[1] = x /\ Len(o) \in Nat
  BY LenProperties
<1>2. PICK n : n = <<x>>
  OBVIOUS
<1>3. n \in Seq(T) /\ Len(n) = 1 /\ n[1] = x
  BY <1>1, <1>2
<1>4. n \o o \in Seq(T)
  BY <1>1, <1>3, ConcatProperties
<1>7. Len(n \o o) = Len(n) + Len(o)
  BY <1>1, <1>3, ConcatProperties
<1>5. (n \o o)[1] = x
  BY <1>1, <1>3, ConcatProperties
<1>6. \A i \in 2..(1 + Len(o)) : i - 1 \in 1..Len(o) /\ (n \o o)[i] = o[i - 1]
  <2> TAKE i \in 2..(1 + Len(o))
  <2>1. i \in 1..(Len(n) + Len(o)) /\ ~(i <= Len(n)) /\ i - Len(n) = i - 1 /\ i - 1 \in 1..Len(o)
    BY <1>1, <1>3
  <2>2. (n \o o)[i] = o[i - Len(n)]
    BY <1>3, <2>1, ConcatProperties
  <2> QED
    BY <2>1, <2>2
<1> QED
  BY <1>2, <1>3, <1>4, <1>5, <1>6, <1>7

\* A list q whose first n elements have been taken.
Parted(q, n, taken, left, rest, T) ==
  /\ taken \in Seq(T) /\ Len(taken) = n /\ left \in Seq(T) /\ rest \in Seq(T)
  /\ Len(rest) = Len(q) - n
  /\ \A i \in 1..n : taken[i] = q[i]
  /\ \A i \in 1..(Len(q) - n) : rest[i] = q[n + i]

\* Two lists one after the other, when the first n elements of the first are
\* taken.
LEMMA TakenApart ==
  ASSUME NEW T, NEW u \in Seq(T), NEW w \in Seq(T), NEW n \in 0..Len(u)
  PROVE  Parted(u \o w, n, SubSeq(u, 1, n), SubSeq(u, n + 1, Len(u)), SubSeq(u, n + 1, Len(u)) \o w, T)
<1>1. Len(u) \in Nat /\ Len(w) \in Nat /\ n \in Nat /\ n <= Len(u) /\ \A i \in 1..Len(u) : u[i] \in T
  BY ElementOfSeq, LenProperties
<1>2. /\ u \o w \in Seq(T) /\ Len(u \o w) = Len(u) + Len(w)
      /\ \A i \in 1..(Len(u) + Len(w)) : (u \o w)[i] = IF i <= Len(u) THEN u[i] ELSE w[i - Len(u)]
  BY ConcatProperties
<1>3. /\ SubSeq(u, 1, n) \in Seq(T) /\ Len(SubSeq(u, 1, n)) = n
      /\ \A i \in 1..n : SubSeq(u, 1, n)[i] = u[i]
  <2>1. \A i \in 1..n : u[i] \in T
    BY <1>1
  <2> QED
    BY <1>1, <2>1, SubSeqProperties
<1>4. \A i \in 1..n : SubSeq(u, 1, n)[i] = (u \o w)[i]
  BY <1>1, <1>2, <1>3
<1>5. PICK r : r = SubSeq(u, n + 1, Len(u))
  OBVIOUS
<1>6. r \in Seq(T) /\ Len(r) = Len(u) - n /\ \A i \in 1..(Len(u) - n) : r[i] = u[n + i]
  <2>1. n + 1 \in Int /\ Len(u) \in Int /\ \A i \in (n + 1)..Len(u) : u[i] \in T
    BY <1>1
  <2>2. r \in Seq(T)
    BY <1>5, <2>1, SubSeqProperties
  <2>3. Len(r) = Len(u) - n
    BY <1>1, <1>5
  <2>4. \A i \in 1..(Len(u) - n) : r[i] = u[n + i]
    BY <1>1, <1>5
  <2> QED
    BY <2>2, <2>3, <2>4
<1>7. /\ r \o w \in Seq(T) /\ Len(r \o w) = Len(r) + Len(w)
      /\ \A i \in 1..(Len(r) + Len(w)) : (r \o w)[i] = IF i <= Len(r) THEN r[i] ELSE w[i - Len(r)]
  BY <1>6, ConcatProperties
<1>8. Len(r \o w) = Len(u \o w) - n
  BY <1>1, <1>2, <1>6, <1>7
<1>9. ASSUME NEW i \in 1..(Len(u \o w) - n) PROVE (r \o w)[i] = (u \o w)[n + i]
  <2>1. i \in 1..(Len(r) + Len(w)) /\ n + i \in 1..(Len(u) + Len(w))
    BY <1>1, <1>2, <1>6
  <2>2. CASE i <= Len(r)
    <3>1. (r \o w)[i] = r[i] /\ r[i] = u[n + i] /\ n + i <= Len(u)
      BY <1>1, <1>6, <1>7, <2>1, <2>2
    <3> QED
      BY <1>2, <2>1, <3>1
  <2>3. CASE ~(i <= Len(r))
    <3>1. (r \o w)[i] = w[i - Len(r)] /\ i - Len(r) = (n + i) - Len(u) /\ ~(n + i <= Len(u))
      BY <1>1, <1>6, <1>7, <2>1, <2>3
    <3> QED
      BY <1>2, <2>1, <3>1
  <2> QED
    BY <2>2, <2>3
<1> QED
  BY <1>3, <1>4, <1>5, <1>6, <1>7, <1>8, <1>9 DEF Parted

\* r is the list q with x after its last element.
Grown(q, r, x, T) ==
  /\ q \in Seq(T) /\ r \in Seq(T) /\ Len(q) \in Nat /\ Len(r) = Len(q) + 1 /\ r[Len(q) + 1] = x
  /\ \A i \in 1..Len(q) : r[i] = q[i]

\* Two lists one after the other, when the second one grows.
LEMMA GrownLast ==
  ASSUME NEW T, NEW u \in Seq(T), NEW w \in Seq(T), NEW x \in T
  PROVE  Append(w, x) \in Seq(T) /\ Grown(u \o w, u \o Append(w, x), x, T)
<1>1. PICK q : q = u \o w /\ q \in Seq(T)
  BY ConcatProperties
<1>2. Append(w, x) \in Seq(T)
  BY AppendProperties
<1>3. <<x>> \in Seq(T) /\ Append(w, x) = w \o <<x>>
  BY AppendIsConcat
<1>4. u \o Append(w, x) = q \o <<x>>
  BY <1>1, <1>3, ConcatAssociative
<1>5. q \o <<x>> = Append(q, x)
  BY <1>1, AppendIsConcat
<1>6. u \o Append(w, x) = Append(q, x)
  BY <1>4, <1>5
<1>7. /\ Append(q, x) \in Seq(T) /\ Len(Append(q, x)) = Len(q) + 1 /\ Append(q, x)[Len(q) + 1] = x
      /\ \A i \in 1..Len(q) : Append(q, x)[i] = q[i]
  BY <1>1, AppendProperties
<1> QED
  BY <1>1, <1>2, <1>6, <1>7, LenProperties DEF Grown

-----------------------------------------------------------------------------
\* Those of a list with one more element after its last.
LEMMA ThoseAppended ==
  ASSUME NEW T, NEW s \in Seq(T), NEW S, NEW x \in T
  PROVE  /\ x \in S => Those(Append(s, x), S) = Append(Those(s, S), x)
         /\ x \notin S => Those(Append(s, x), S) = Those(s, S)
<1> DEFINE n == Len(s)
<1>1. PICK r : r = Append(s, x)
  OBVIOUS
<1>2. n \in Nat /\ r \in Seq(T) /\ Len(r) = n + 1 /\ r[n + 1] = x /\ \A i \in 1..n : r[i] = s[i]
  BY <1>1, AppendProperties, LenProperties
<1>3. PICK g : SiftsTo(g, s, S, T)
  BY ThoseSteps
<1>4. PICK h : SiftsTo(h, r, S, T)
  BY <1>2, ThoseSteps
<1> HIDE DEF n
<1> DEFINE P == {i \in Nat : i <= n => h[i] = g[i]}
<1>5. 0 \in P
  BY <1>3, <1>4 DEF SiftsTo
<1>6. ASSUME NEW i \in Nat, i \in P PROVE i + 1 \in P
  <2> SUFFICES ASSUME i + 1 <= n PROVE h[i + 1] = g[i + 1]
    OBVIOUS
  <2>1. i + 1 \in 1..n /\ i + 1 \in 1..(n + 1) /\ (i + 1) - 1 = i /\ h[i] = g[i] /\ r[i + 1] = s[i + 1]
    BY <1>2, <1>6
  <2>2. g[i + 1] = IF s[i + 1] \in S THEN Append(g[i], s[i + 1]) ELSE g[i]
    BY <1>3, <2>1 DEF SiftsTo, n
  <2>3. h[i + 1] = IF r[i + 1] \in S THEN Append(h[i], r[i + 1]) ELSE h[i]
    BY <1>2, <1>4, <2>1 DEF SiftsTo
  <2> QED
    BY <2>1, <2>2, <2>3
<1>7. Nat \subseteq P
  <2> HIDE DEF P
  <2> QED
    BY <1>5, <1>6, AllNaturals
<1>8. h[n] = g[n]
  BY <1>2, <1>7
<1>9. h[n + 1] = IF x \in S THEN Append(h[n], x) ELSE h[n]
  <2>1. n + 1 \in 1..(n + 1) /\ (n + 1) - 1 = n
    BY <1>2
  <2> QED
    BY <1>2, <1>4, <2>1 DEF SiftsTo
<1>10. Those(s, S) = g[n] /\ Those(r, S) = h[n + 1]
  BY <1>2, <1>3, <1>4 DEF SiftsTo, n
<1> QED
  BY <1>1, <1>8, <1>9, <1>10

LEMMA PrefixedAppend ==
  ASSUME NEW T, NEW x \in T, NEW y \in T, NEW s \in Seq(T)
  PROVE  <<x>> \o Append(s, y) = Append(<<x>> \o s, y)
<1>0. <<x>> \in Seq(T) /\ <<y>> \in Seq(T)
  OBVIOUS
<1>1. PICK p : p = <<x>> /\ p \in Seq(T)
  BY <1>0, Zenon
<1>2. PICK q : q = <<y>> /\ q \in Seq(T)
  BY <1>0, Zenon
<1>3. Append(s, y) = s \o q /\ p \o s \in Seq(T)
  BY <1>1, <1>2, AppendIsConcat, ConcatProperties
<1>4. Append(p \o s, y) = (p \o s) \o q
  BY <1>2, <1>3, AppendIsConcat
<1>5. (p \o s) \o q = p \o (s \o q)
  BY <1>1, <1>2, ConcatAssociative
<1> QED
  BY <1>1, <1>3, <1>4, <1>5

\* Those of a list without its first element.
LEMMA ThoseTailed ==
  ASSUME NEW T, NEW s \in Seq(T), NEW S, s # <<>>
  PROVE  /\ Tail(s) \in Seq(T) /\ Head(s) \in T
         /\ Those(s, S) = IF Head(s) \in S THEN <<Head(s)>> \o Those(Tail(s), S) ELSE Those(Tail(s), S)
<1> DEFINE n == Len(s)
           x == Head(s)
           Put(v) == IF x \in S THEN <<x>> \o v ELSE v
<1>1. PICK r : r = Tail(s)
  OBVIOUS
<1>2. n \in Nat /\ n # 0 /\ r \in Seq(T) /\ Len(r) = n - 1 /\ x \in T /\ x = s[1]
      /\ \A i \in 1..(n - 1) : r[i] = s[i + 1]
  BY <1>1, HeadTailProperties, LenProperties, EmptySeq
<1>3. PICK g : SiftsTo(g, s, S, T)
  BY ThoseSteps
<1>4. PICK h : SiftsTo(h, r, S, T)
  BY <1>2, ThoseSteps
<1>5. Those(s, S) = g[n] /\ Those(r, S) = h[n - 1]
  BY <1>2, <1>3, <1>4 DEF SiftsTo
<1>6. g[0] = <<>> /\ \A i \in 1..n : g[i] = IF s[i] \in S THEN Append(g[i - 1], s[i]) ELSE g[i - 1]
  BY <1>3 DEF SiftsTo
<1>7. h[0] = <<>> /\ \A i \in 0..(n - 1) : h[i] \in Seq(T)
  BY <1>2, <1>4 DEF SiftsTo
<1>8. \A i \in 1..(n - 1) : h[i] = IF r[i] \in S THEN Append(h[i - 1], r[i]) ELSE h[i - 1]
  BY <1>2, <1>4 DEF SiftsTo
<1> HIDE DEF n, x
<1> DEFINE P == {i \in Nat : i <= n - 1 => g[i + 1] = Put(h[i])}
<1>9. 0 \in P
  <2>1. 1 \in 1..n /\ 1 - 1 = 0 /\ 0 + 1 = 1
    BY <1>2
  <2>2. g[1] = IF x \in S THEN Append(<<>>, x) ELSE <<>>
    BY <1>2, <1>6, <2>1
  <2>3. Append(<<>>, x) = <<x>> /\ <<x>> \o <<>> = <<x>>
    <3>0. <<x>> \in Seq(T)
      BY <1>2
    <3>1. PICK p : p = <<x>> /\ p \in Seq(T)
      BY <3>0, Zenon
    <3>2. p \o <<>> = p
      BY <3>1, ConcatEmptySeq
    <3> QED
      BY <1>2, <3>1, <3>2
  <2> QED
    BY <1>7, <2>1, <2>2, <2>3
<1>10. ASSUME NEW i \in Nat, i \in P PROVE i + 1 \in P
  <2> SUFFICES ASSUME i + 1 <= n - 1 PROVE g[(i + 1) + 1] = Put(h[i + 1])
    OBVIOUS
  <2>1. i + 1 \in 1..(n - 1) /\ i \in 0..(n - 1) /\ i + 2 \in 1..n /\ (i + 1) - 1 = i /\ (i + 1) + 1 = i + 2
        /\ (i + 2) - 1 = i + 1
    BY <1>2
  <2>2. g[i + 1] = Put(h[i])
    BY <1>10, <2>1
  <2>3. r[i + 1] = s[i + 2] /\ s[i + 2] \in T
    <3>1. r[i + 1] = s[(i + 1) + 1]
      BY <1>2, <2>1
    <3> QED
      BY <3>1, <2>1, ElementOfSeq DEF n
  <2>4. g[i + 2] = IF s[i + 2] \in S THEN Append(g[i + 1], s[i + 2]) ELSE g[i + 1]
    BY <1>6, <2>1
  <2>5. h[i + 1] = IF r[i + 1] \in S THEN Append(h[i], r[i + 1]) ELSE h[i]
    BY <1>8, <2>1
  <2>6. h[i] \in Seq(T)
    BY <1>7, <2>1
  <2>7. <<x>> \o Append(h[i], s[i + 2]) = Append(<<x>> \o h[i], s[i + 2])
    BY <1>2, <2>3, <2>6, PrefixedAppend
  <2> QED
    BY ONLY <2>1, <2>2, <2>3, <2>4, <2>5, <2>7
<1>11. Nat \subseteq P
  <2> HIDE DEF P
  <2> QED
    BY <1>9, <1>10, AllNaturals
<1>12. g[n] = Put(h[n - 1])
  <2>1. n - 1 \in Nat /\ (n - 1) + 1 = n /\ n - 1 <= n - 1
    BY <1>2
  <2>2. n - 1 \in P
    BY <1>11, <2>1
  <2> QED
    BY <2>1, <2>2
<1> QED
  BY <1>1, <1>2, <1>5, <1>12 DEF x
=============================================================================
