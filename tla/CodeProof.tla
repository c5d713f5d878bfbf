------------------------------ MODULE CodeProof ------------------------------
(***************************************************************************)
(* The disassembler's analysis is exact, for every image that              *)
(* AnalyzerAssumption allows: any number of pages, tables and instructions.*)
(*                                                                         *)
(* That what is decoded can be reached is inductive with a count: after n  *)
(* instructions all that is found or to be looked at is at most n          *)
(* instructions from an entry point (OnItsWay), and n is at most the       *)
(* image's size (StartsFew). That a page's table is the first is an        *)
(* induction down a chain of entries, whose addresses only grow            *)
(* (ChainStarts), and over the pages (PagesRight).                         *)
(***************************************************************************)
EXTENDS Analyzer, SublistLemmas, FiniteSetTheorems

-----------------------------------------------------------------------------
(* Lists and their elements.                                               *)

\* The elements of two lists joined.
LEMMA SetOfJoined ==
  ASSUME NEW S, NEW s \in Seq(S), NEW t \in Seq(S)
  PROVE  s \o t \in Seq(S) /\ ToSet(s \o t) = ToSet(s) \cup ToSet(t)
<1>1. /\ s \o t \in Seq(S) /\ Len(s \o t) = Len(s) + Len(t) /\ Len(s) \in Nat /\ Len(t) \in Nat
      /\ \A i \in 1..(Len(s) + Len(t)) : (s \o t)[i] = IF i <= Len(s) THEN s[i] ELSE t[i - Len(s)]
  OBVIOUS
<1>2. /\ DOMAIN s = 1..Len(s) /\ DOMAIN t = 1..Len(t) /\ DOMAIN (s \o t) = 1..Len(s \o t)
  BY <1>1
<1>3. ASSUME NEW x \in ToSet(s \o t) PROVE x \in ToSet(s) \cup ToSet(t)
  <2>1. PICK i \in 1..(Len(s) + Len(t)) : x = (s \o t)[i]
    BY <1>1, <1>2, <1>3 DEF ToSet
  <2>2. CASE i <= Len(s)
    BY <1>1, <1>2, <2>1, <2>2 DEF ToSet
  <2>3. CASE i > Len(s)
    <3>1. i - Len(s) \in 1..Len(t) /\ x = t[i - Len(s)]
      BY <1>1, <2>1, <2>3
    <3> QED
      BY <1>2, <3>1 DEF ToSet
  <2> QED
    BY <1>1, <2>1, <2>2, <2>3
<1>4. ASSUME NEW x \in ToSet(s) PROVE x \in ToSet(s \o t)
  <2>1. PICK i \in 1..Len(s) : x = s[i]
    BY <1>2, <1>4 DEF ToSet
  <2>2. i \in 1..Len(s \o t) /\ x = (s \o t)[i]
    BY <1>1, <2>1
  <2> QED
    BY <1>2, <2>2 DEF ToSet
<1>5. ASSUME NEW x \in ToSet(t) PROVE x \in ToSet(s \o t)
  <2>1. PICK i \in 1..Len(t) : x = t[i]
    BY <1>2, <1>5 DEF ToSet
  <2>2. i + Len(s) \in 1..Len(s \o t) /\ x = (s \o t)[i + Len(s)]
    BY <1>1, <2>1
  <2> QED
    BY <1>2, <2>2 DEF ToSet
<1> QED
  BY <1>1, <1>3, <1>4, <1>5

\* A list's first element and the others.
LEMMA SetOfRest ==
  ASSUME NEW S, NEW s \in Seq(S), s # <<>>
  PROVE  Head(s) \in S /\ Tail(s) \in Seq(S) /\ ToSet(s) = {Head(s)} \cup ToSet(Tail(s))
<1>1. /\ Head(s) \in S /\ Tail(s) \in Seq(S) /\ Len(s) \in Nat \ {0} /\ Len(Tail(s)) = Len(s) - 1
      /\ Head(s) = s[1] /\ \A i \in 1..(Len(s) - 1) : Tail(s)[i] = s[i + 1]
  OBVIOUS
<1>2. DOMAIN s = 1..Len(s) /\ DOMAIN Tail(s) = 1..(Len(s) - 1)
  BY <1>1
<1>3. ASSUME NEW x \in ToSet(s) PROVE x \in {Head(s)} \cup ToSet(Tail(s))
  <2>1. PICK i \in 1..Len(s) : x = s[i]
    BY <1>2, <1>3 DEF ToSet
  <2>2. CASE i # 1
    <3>1. i - 1 \in 1..(Len(s) - 1) /\ x = Tail(s)[i - 1]
      BY <1>1, <2>1, <2>2
    <3> QED
      BY <1>2, <3>1 DEF ToSet
  <2> QED
    BY <1>1, <2>1, <2>2
<1>4. ASSUME NEW x \in ToSet(Tail(s)) PROVE x \in ToSet(s)
  <2>1. PICK i \in 1..(Len(s) - 1) : x = Tail(s)[i]
    BY <1>2, <1>4 DEF ToSet
  <2>2. i + 1 \in 1..Len(s) /\ x = s[i + 1]
    BY <1>1, <2>1
  <2> QED
    BY <1>2, <2>2 DEF ToSet
<1>5. Head(s) \in ToSet(s)
  BY <1>1, <1>2 DEF ToSet
<1> QED
  BY <1>1, <1>3, <1>4, <1>5

\* Lists of one element and of none; a list's elements; a list of lists and one more.
LEMMA SetOfOne ==
  ASSUME NEW S, NEW a \in S
  PROVE  <<a>> \in Seq(S) /\ ToSet(<<a>>) = {a}
BY DEF ToSet
LEMMA SetOfNone == ToSet(<<>>) = {} /\ \A S : <<>> \in Seq(S)
BY DEF ToSet
LEMMA SetOfList ==
  ASSUME NEW S, NEW s \in Seq(S)
  PROVE  ToSet(s) \subseteq S /\ (s = <<>> <=> ToSet(s) = {})
BY DEF ToSet
LEMMA SetOfMore ==
  ASSUME NEW S, NEW s \in Seq(S), NEW a \in S
  PROVE  Append(s, a) \in Seq(S) /\ ToSet(Append(s, a)) = ToSet(s) \cup {a}
<1> DEFINE one == <<a>>
<1>1. Append(s, a) = s \o one
  OBVIOUS
<1>2. one \in Seq(S) /\ ToSet(one) = {a}
  BY SetOfOne
<1> HIDE DEF one
<1>3. s \o one \in Seq(S) /\ ToSet(s \o one) = ToSet(s) \cup ToSet(one)
  BY <1>2, SetOfJoined
<1> QED
  BY <1>1, <1>2, <1>3, Zenon

-----------------------------------------------------------------------------
(* The analysis' definitions, of an image that is given.                   *)

PlacesIn(i)  == i.base..(i.base + i.size - 1)
InOf(i, a)   == a >= i.base /\ a < i.base + i.size
EntriesIn(i) == {a \in PlacesIn(i) : i.entry[a] # NoEntry}

LinkOf(i, a, chain) ==
  IF ~InOf(i, a) \/ i.entry[a] = NoEntry THEN <<>>
  ELSE <<a>> \o chain[Wrapped(a + i.entry[a].length)]
ChainOf(i, t) ==
  LET From[a \in Addresses] ==
        IF ~InOf(i, a) \/ i.entry[a] = NoEntry THEN <<>>
        ELSE <<a>> \o From[Wrapped(a + i.entry[a].length)]
  IN From[t]

\* The address after an entry is outside of the image or above it.
LEMMA NextAbove ==
  ASSUME NEW i, ImageRight(i), NEW a \in EntriesIn(i)
  PROVE  /\ Wrapped(a + i.entry[a].length) \in Addresses
         /\ InOf(i, Wrapped(a + i.entry[a].length)) => Wrapped(a + i.entry[a].length) > a
<1> DEFINE n == a + i.entry[a].length
<1>1. /\ i.base \in Nat /\ i.size \in Nat /\ i.base + i.size <= AddressSpace
      /\ AddressSpace \in Nat \ {0}
  BY AnalyzerAssumption DEF ImageRight, Addresses
<1>2. a \in i.base..(i.base + i.size - 1) /\ i.entry[a].length \in Nat \ {0} /\ n <= i.base + i.size
      /\ (i.base = 0 => n < AddressSpace)
  BY DEF ImageRight, EntriesIn, PlacesIn
<1>3. n \in Nat /\ n > a /\ n <= AddressSpace
  BY <1>1, <1>2
<1> HIDE DEF n
<1>4. CASE n < AddressSpace
  <2>1. n % AddressSpace = n
    BY <1>1, <1>3, <1>4
  <2> QED
    BY <1>1, <1>3, <1>4, <2>1 DEF Wrapped, Addresses, n
<1>5. CASE n = AddressSpace
  <2>1. n % AddressSpace = 0
    BY <1>1, <1>5
  <2>2. i.base + i.size = AddressSpace /\ i.base > 0
    BY <1>1, <1>2, <1>3, <1>5
  <2> QED
    BY <1>1, <2>1, <2>2 DEF Wrapped, Addresses, n, InOf
<1> QED
  BY <1>1, <1>3, <1>4, <1>5

\* Every chain is what its links make it.
LEMMA ChainLinks ==
  ASSUME NEW i, ImageRight(i)
  PROVE  \E f \in [Addresses -> Seq(EntriesIn(i))] :
           \A a \in Addresses : ChainOf(i, a) = f[a] /\ f[a] = LinkOf(i, a, f)
<1> DEFINE T == Seq(EntriesIn(i))
           Holds(f, k) == /\ f \in [Addresses -> T]
                          /\ \A a \in Addresses : a + k >= AddressSpace \/ ~InOf(i, a) => f[a] = LinkOf(i, a, f)
           S == {k \in Nat : \E f : Holds(f, k)}
<1>0. AddressSpace \in Nat \ {0}
  BY AnalyzerAssumption
<1>1. 0 \in S
  <2> DEFINE f == [a \in Addresses |-> <<>>]
  <2>1. f \in [Addresses -> T]
    <3>1. <<>> \in T
      OBVIOUS
    <3> QED
      BY <3>1
  <2>2. ASSUME NEW a \in Addresses, a + 0 >= AddressSpace \/ ~InOf(i, a) PROVE f[a] = LinkOf(i, a, f)
    <3>1. ~InOf(i, a)
      BY <1>0, <2>2 DEF Addresses
    <3> QED
      BY <3>1 DEF LinkOf
  <2>3. Holds(f, 0)
    BY <2>1, <2>2
  <2> QED
    BY <2>3
<1>2. ASSUME NEW k \in Nat, k \in S PROVE k + 1 \in S
  <2>1. PICK f : Holds(f, k)
    BY <1>2
  <2> DEFINE c == AddressSpace - (k + 1)
  <2>2. CASE c \in Addresses /\ InOf(i, c)
    <3> DEFINE v == LinkOf(i, c, f)
               g == [f EXCEPT ![c] = v]
    <3>1. ASSUME NEW a \in Addresses, InOf(i, a), i.entry[a] # NoEntry, a >= c
          PROVE  /\ Wrapped(a + i.entry[a].length) \in Addresses
                 /\ Wrapped(a + i.entry[a].length) # c
      <4> DEFINE m == Wrapped(a + i.entry[a].length)
      <4>1. a \in EntriesIn(i)
        BY <3>1 DEF EntriesIn, PlacesIn, InOf, ImageRight, Addresses
      <4>2. m \in Addresses /\ (InOf(i, m) => m > a)
        BY <4>1, NextAbove
      <4> HIDE DEF m
      <4>3. m # c
        BY <1>0, <2>2, <3>1, <4>2 DEF Addresses
      <4> QED
        BY <4>2, <4>3 DEF m
    <3>2. v \in T
      <4>1. CASE i.entry[c] = NoEntry
        <5>1. v = <<>>
          BY <4>1 DEF LinkOf
        <5>2. <<>> \in T
          OBVIOUS
        <5> QED
          BY <5>1, <5>2
      <4>2. CASE i.entry[c] # NoEntry
        <5> DEFINE n == Wrapped(c + i.entry[c].length)
        <5>1. n \in Addresses
          BY <1>0, <2>2, <3>1, <4>2 DEF Addresses
        <5>2. f[n] \in T
          BY <2>1, <5>1
        <5>3. <<c>> \in T
          BY <2>2, <4>2 DEF EntriesIn, PlacesIn, InOf, ImageRight, Addresses
        <5>4. v = <<c>> \o f[n]
          BY <2>2, <4>2 DEF LinkOf
        <5> HIDE DEF v, n
        <5> QED
          BY <5>2, <5>3, <5>4
      <4> QED
        BY <4>1, <4>2
    <3> HIDE DEF v
    <3>3. g \in [Addresses -> T] /\ g[c] = v /\ \A a \in Addresses : a # c => g[a] = f[a]
      BY <2>1, <2>2, <3>2
    <3> HIDE DEF g
    <3>4. ASSUME NEW a \in Addresses, InOf(i, a) => a >= c PROVE LinkOf(i, a, g) = LinkOf(i, a, f)
      BY <3>1, <3>3, <3>4 DEF LinkOf
    <3>5. g[c] = LinkOf(i, c, g)
      <4>1. c >= c
        BY <1>0
      <4> QED
        BY <2>2, <3>3, <3>4, <4>1 DEF v
    <3>6. ASSUME NEW a \in Addresses, a + (k + 1) >= AddressSpace \/ ~InOf(i, a), a # c
          PROVE  g[a] = LinkOf(i, a, g)
      <4>1. a + k >= AddressSpace \/ ~InOf(i, a)
        BY <1>0, <3>6 DEF Addresses
      <4>2. f[a] = LinkOf(i, a, f)
        BY <2>1, <4>1
      <4>3. InOf(i, a) => a >= c
        BY <1>0, <3>6 DEF Addresses
      <4> QED
        BY <3>3, <3>4, <3>6, <4>2, <4>3
    <3>7. Holds(g, k + 1)
      BY <3>3, <3>5, <3>6
    <3> QED
      BY <3>7
  <2>3. CASE ~(c \in Addresses /\ InOf(i, c))
    <3>1. ASSUME NEW a \in Addresses, a + (k + 1) >= AddressSpace \/ ~InOf(i, a)
          PROVE  a + k >= AddressSpace \/ ~InOf(i, a)
      BY <1>0, <2>3, <3>1 DEF Addresses
    <3>2. Holds(f, k + 1)
      BY <2>1, <3>1
    <3> QED
      BY <3>2
  <2> QED
    BY <2>2, <2>3
<1>3. AddressSpace \in S
  <2> HIDE DEF S
  <2>1. Nat \subseteq S
    BY <1>1, <1>2, AllNaturals
  <2> QED
    BY <1>0, <2>1
<1>4. PICK g : Holds(g, AddressSpace)
  BY <1>3
<1> DEFINE Body(f) == [a \in Addresses |->
                         IF ~InOf(i, a) \/ i.entry[a] = NoEntry THEN <<>>
                         ELSE <<a>> \o f[Wrapped(a + i.entry[a].length)]]
           from == CHOOSE f : f = Body(f)
<1>5. g = Body(g)
  <2>1. \A a \in Addresses : g[a] = LinkOf(i, a, g)
    BY <1>0, <1>4 DEF Addresses
  <2>2. g = [a \in Addresses |-> g[a]]
    BY <1>4
  <2>3. \A a \in Addresses : g[a] = IF ~InOf(i, a) \/ i.entry[a] = NoEntry THEN <<>>
                                     ELSE <<a>> \o g[Wrapped(a + i.entry[a].length)]
    BY <2>1 DEF LinkOf
  <2> QED
    BY ONLY <2>2, <2>3, Zenon DEF Body
<1>6. from = Body(from)
  <2> HIDE DEF Body
  <2> QED
    BY <1>5
<1>7. \A a \in Addresses : ChainOf(i, a) = from[a]
  BY DEF ChainOf
<1> HIDE DEF from
<1>8. from = [a \in Addresses |-> from[a]] /\ \A a \in Addresses : from[a] = LinkOf(i, a, from)
  BY <1>6 DEF LinkOf
<1> DEFINE Same(k) == \A a \in Addresses : a + k >= AddressSpace \/ ~InOf(i, a) => from[a] = g[a]
           U == {k \in Nat : Same(k)}
<1>9. \A a \in Addresses : g[a] = LinkOf(i, a, g)
  BY <1>0, <1>4 DEF Addresses
<1>10. 0 \in U
  <2>1. ASSUME NEW a \in Addresses, a + 0 >= AddressSpace \/ ~InOf(i, a) PROVE from[a] = g[a]
    <3>1. ~InOf(i, a)
      BY <1>0, <2>1 DEF Addresses
    <3> QED
      BY <1>8, <1>9, <3>1 DEF LinkOf
  <2> QED
    BY <2>1
<1>11. ASSUME NEW k \in Nat, k \in U PROVE k + 1 \in U
  <2>1. ASSUME NEW a \in Addresses, a + (k + 1) >= AddressSpace \/ ~InOf(i, a) PROVE from[a] = g[a]
    <3>1. CASE ~InOf(i, a) \/ i.entry[a] = NoEntry
      BY <1>8, <1>9, <3>1 DEF LinkOf
    <3>2. CASE InOf(i, a) /\ i.entry[a] # NoEntry
      <4> DEFINE n == Wrapped(a + i.entry[a].length)
      <4>1. a \in EntriesIn(i)
        BY <3>2 DEF EntriesIn, PlacesIn, InOf, ImageRight, Addresses
      <4>2. n \in Addresses /\ (InOf(i, n) => n > a)
        BY <4>1, NextAbove
      <4> HIDE DEF n
      <4>3. n + k >= AddressSpace \/ ~InOf(i, n)
        BY <1>0, <2>1, <3>2, <4>2 DEF Addresses
      <4>4. from[n] = g[n]
        BY <1>11, <4>2, <4>3
      <4>5. from[a] = <<a>> \o from[n] /\ g[a] = <<a>> \o g[n]
        BY <1>8, <1>9, <3>2 DEF LinkOf, n
      <4> QED
        BY <4>4, <4>5
    <3> QED
      BY <3>1, <3>2
  <2> QED
    BY <2>1
<1>12. \A a \in Addresses : from[a] = g[a]
  <2>1. AddressSpace \in U
    <3> HIDE DEF U
    <3>1. Nat \subseteq U
      BY <1>10, <1>11, AllNaturals
    <3> QED
      BY <1>0, <3>1
  <2> QED
    BY <1>0, <2>1 DEF Addresses
<1> QED
  BY <1>4, <1>7, <1>9, <1>12

\* A chain's first entry is where it is looked for, and every other is above.
LEMMA ChainStarts ==
  ASSUME NEW i, ImageRight(i), NEW t \in Addresses
  PROVE  /\ ChainOf(i, t) \in Seq(EntriesIn(i))
         /\ ChainOf(i, t) # <<>> => ChainOf(i, t)[1] = t
         /\ \A a \in ToSet(ChainOf(i, t)) : t <= a
<1> DEFINE T == Seq(EntriesIn(i))
<1>0. AddressSpace \in Nat \ {0}
  BY AnalyzerAssumption
<1>1. PICK f \in [Addresses -> T] : \A a \in Addresses : ChainOf(i, a) = f[a] /\ f[a] = LinkOf(i, a, f)
  BY ChainLinks
<1> DEFINE Above(a) == \A b \in ToSet(f[a]) : a <= b
           U == {k \in Nat : \A a \in Addresses : a + k >= AddressSpace \/ ~InOf(i, a) => Above(a)}
<1>2. ASSUME NEW a \in Addresses, ~InOf(i, a) \/ i.entry[a] = NoEntry PROVE f[a] = <<>> /\ Above(a)
  <2>1. f[a] = <<>>
    BY <1>1, <1>2 DEF LinkOf
  <2> QED
    BY <2>1, SetOfNone
<1>3. ASSUME NEW a \in Addresses, InOf(i, a), i.entry[a] # NoEntry
      PROVE  \E n \in Addresses : /\ InOf(i, n) => n > a
                                  /\ f[a] = <<a>> \o f[n] /\ f[a][1] = a
                                  /\ ToSet(f[a]) = {a} \cup ToSet(f[n])
  <2> DEFINE n == Wrapped(a + i.entry[a].length)
  <2>1. a \in EntriesIn(i)
    BY <1>3 DEF EntriesIn, PlacesIn, InOf, ImageRight, Addresses
  <2>2. n \in Addresses /\ (InOf(i, n) => n > a)
    BY <2>1, NextAbove
  <2>3. f[a] = <<a>> \o f[n]
    BY <1>1, <1>3 DEF LinkOf
  <2> HIDE DEF n
  <2>4. f[n] \in T
    BY <1>1, <2>2
  <2>5. f[a][1] = a
    BY <2>1, <2>3, <2>4
  <2> DEFINE one == <<a>>
             rest == f[n]
  <2>6. one \in T /\ ToSet(one) = {a}
    BY <2>1, SetOfOne
  <2> HIDE DEF one, rest
  <2>7. ToSet(one \o rest) = ToSet(one) \cup ToSet(rest)
    BY <2>4, <2>6, SetOfJoined DEF rest
  <2>8. ToSet(f[a]) = {a} \cup ToSet(f[n])
    BY <2>3, <2>6, <2>7 DEF one, rest
  <2> QED
    BY <2>2, <2>3, <2>5, <2>8
<1>4. 0 \in U
  <2>1. ASSUME NEW a \in Addresses, a + 0 >= AddressSpace \/ ~InOf(i, a) PROVE Above(a)
    <3>1. ~InOf(i, a)
      BY <1>0, <2>1 DEF Addresses
    <3> QED
      BY <1>2, <3>1
  <2> QED
    BY <2>1
<1>5. ASSUME NEW k \in Nat, k \in U PROVE k + 1 \in U
  <2>1. ASSUME NEW a \in Addresses, a + (k + 1) >= AddressSpace \/ ~InOf(i, a) PROVE Above(a)
    <3>1. CASE ~InOf(i, a) \/ i.entry[a] = NoEntry
      BY <1>2, <3>1
    <3>2. CASE InOf(i, a) /\ i.entry[a] # NoEntry
      <4>1. PICK n \in Addresses : (InOf(i, n) => n > a) /\ ToSet(f[a]) = {a} \cup ToSet(f[n])
        BY <1>3, <3>2
      <4>2. n + k >= AddressSpace \/ ~InOf(i, n)
        BY <1>0, <2>1, <3>2, <4>1 DEF Addresses
      <4>3. Above(n)
        BY <1>5, <4>2
      <4>4. CASE InOf(i, n)
        <5>1. f[n] \in T
          BY <1>1
        <5>2. ToSet(f[n]) \subseteq EntriesIn(i)
          BY <5>1, SetOfList
        <5>3. \A b \in EntriesIn(i) : b \in Int
          BY DEF EntriesIn, PlacesIn, ImageRight
        <5> QED
          BY <4>1, <4>3, <4>4, <5>2, <5>3 DEF Addresses
      <4>5. CASE ~InOf(i, n)
        <5>1. ToSet(f[n]) = {}
          BY <1>2, <4>5, SetOfNone
        <5> QED
          BY <4>1, <5>1 DEF Addresses
      <4> QED
        BY <4>4, <4>5
    <3> QED
      BY <3>1, <3>2
  <2> QED
    BY <2>1
<1>6. Above(t)
  <2> HIDE DEF U
  <2>1. Nat \subseteq U
    BY <1>4, <1>5, AllNaturals
  <2>2. AddressSpace \in U
    BY <1>0, <2>1
  <2> QED
    BY <1>0, <2>2 DEF Addresses, U
<1>7. ChainOf(i, t) = f[t] /\ f[t] \in T
  BY <1>1
<1>8. f[t] # <<>> => f[t][1] = t
  BY <1>2, <1>3
<1> HIDE DEF T
<1> QED
  BY <1>6, <1>7, <1>8 DEF T

-----------------------------------------------------------------------------
(* Where a processor may be.                                               *)

ValidOf(i, a) == i.code[a].flow # "undefined" /\ a + i.code[a].length <= i.base + i.size
AfterOf(i, a) == Wrapped(a + i.code[a].length)
SuccessorsOf(i, a) ==
  IF ~InOf(i, a) \/ ~ValidOf(i, a) THEN {}
  ELSE LET c == i.code[a] IN
       CASE c.flow = "return" -> {}
         [] c.flow = "jump" -> {c.target}
         [] c.flow = "vector call" -> {AfterOf(i, a)} \cup {i.words[s] : s \in DOMAIN i.words \cap {c.target}}
         [] c.flow \in {"branch", "call"} -> {c.target, AfterOf(i, a)}
         [] OTHER -> {AfterOf(i, a)}
WithinOf(i, E) ==
  LET f[n \in 0..i.size] ==
        IF n = 0 THEN E
        ELSE LET nearer == f[n - 1] IN nearer \cup UNION {SuccessorsOf(i, a) : a \in nearer}
  IN f
MoreOf(i, S) == S \cup UNION {SuccessorsOf(i, a) : a \in S}

\* Each instruction more adds the successors.
LEMMA WithinLinks ==
  ASSUME NEW i, i.size \in Nat, NEW E
  PROVE  /\ WithinOf(i, E)[0] = E
         /\ \A n \in 1..i.size : WithinOf(i, E)[n] = MoreOf(i, WithinOf(i, E)[n - 1])
<1> DEFINE size == i.size
           D == 0..size
           Links(f, n) == f[n] = IF n = 0 THEN E ELSE MoreOf(i, f[n - 1])
           Holds(f, k) == f = [n \in D |-> f[n]] /\ \A n \in D : n <= k => Links(f, n)
           S == {k \in Nat : \E f : Holds(f, k)}
<1>1. 0 \in S
  <2> DEFINE f == [n \in D |-> E]
  <2>1. f = [n \in D |-> f[n]]
    OBVIOUS
  <2>2. \A n \in D : n <= 0 => Links(f, n)
    OBVIOUS
  <2>3. Holds(f, 0)
    BY <2>1, <2>2, Zenon
  <2> QED
    BY <2>3
<1>2. ASSUME NEW k \in Nat, k \in S PROVE k + 1 \in S
  <2>1. PICK f : Holds(f, k)
    BY <1>2
  <2>0. \A n \in D : n <= k => Links(f, n)
    BY <2>1, Zenon
  <2> DEFINE g == [n \in D |-> IF n = k + 1 THEN MoreOf(i, f[k]) ELSE f[n]]
  <2>2. g = [n \in D |-> g[n]]
    OBVIOUS
  <2>3. ASSUME NEW n \in D, n <= k + 1 PROVE Links(g, n)
    <3>1. CASE n = k + 1
      <4>1. n - 1 = k /\ k \in D /\ k # k + 1 /\ n # 0
        BY <3>1
      <4>2. g[n] = MoreOf(i, f[k]) /\ g[k] = f[k]
        BY <3>1, <4>1
      <4> HIDE DEF g
      <4> QED
        BY <4>1, <4>2
    <3>2. CASE n # k + 1
      <4>0. n <= k
        BY <2>3, <3>2
      <4>1. g[n] = f[n] /\ Links(f, n)
        BY <2>0, <3>2, <4>0
      <4>2. n # 0 => g[n - 1] = f[n - 1]
        BY <2>3, <3>2
      <4> HIDE DEF g
      <4> QED
        BY <4>1, <4>2
    <3> QED
      BY <3>1, <3>2
  <2>4. Holds(g, k + 1)
    BY <2>2, <2>3, Zenon
  <2>5. k + 1 \in Nat
    OBVIOUS
  <2> QED
    BY <2>4, <2>5, Zenon
<1>3. size \in S
  <2> HIDE DEF S
  <2>1. Nat \subseteq S
    BY <1>1, <1>2, AllNaturals
  <2> QED
    BY <2>1
<1>4. PICK g : Holds(g, size)
  BY <1>3
<1> DEFINE Body(f) == [n \in D |-> IF n = 0 THEN E
                                   ELSE LET nearer == f[n - 1]
                                        IN nearer \cup UNION {SuccessorsOf(i, a) : a \in nearer}]
           within == CHOOSE f : f = Body(f)
<1>5. g = Body(g)
  <2>0. \A n \in D : n <= size => Links(g, n)
    BY <1>4, Zenon
  <2>1. \A n \in D : Links(g, n)
    BY <2>0
  <2>2. g = [n \in D |-> g[n]]
    BY <1>4, Zenon
  <2>3. \A n \in D : g[n] = IF n = 0 THEN E
                             ELSE LET nearer == g[n - 1]
                                  IN nearer \cup UNION {SuccessorsOf(i, a) : a \in nearer}
    BY <2>1 DEF MoreOf
  <2> QED
    BY ONLY <2>2, <2>3, Zenon DEF Body
<1>6. within = Body(within)
  <2> HIDE DEF Body
  <2> QED
    BY <1>5
<1>7. WithinOf(i, E) = within
  BY DEF WithinOf
<1> HIDE DEF within
<1>8. 0 \in D /\ \A n \in 1..size : n \in D /\ n # 0
  OBVIOUS
<1> HIDE DEF D
<1>9. within[0] = E
  BY <1>6, <1>8
<1>10. ASSUME NEW n \in 1..size PROVE within[n] = MoreOf(i, within[n - 1])
  BY <1>6, <1>8 DEF MoreOf
<1> QED
  BY <1>7, <1>9, <1>10

\* More instructions lead further.
LEMMA WithinGrows ==
  ASSUME NEW i, i.size \in Nat, NEW E, NEW n \in 0..i.size
  PROVE  /\ WithinOf(i, E)[n] \subseteq WithinOf(i, E)[i.size]
         /\ n < i.size => /\ WithinOf(i, E)[n] \subseteq WithinOf(i, E)[n + 1]
                          /\ \A a \in WithinOf(i, E)[n] : SuccessorsOf(i, a) \subseteq WithinOf(i, E)[n + 1]
<1> DEFINE w == WithinOf(i, E)
           U == {k \in Nat : n + k <= i.size => w[n] \subseteq w[n + k]}
<1>1. ASSUME NEW m \in 0..i.size, m < i.size
      PROVE  w[m] \subseteq w[m + 1] /\ \A a \in w[m] : SuccessorsOf(i, a) \subseteq w[m + 1]
  <2>1. m + 1 \in 1..i.size /\ (m + 1) - 1 = m
    BY <1>1
  <2>2. w[m + 1] = MoreOf(i, w[m])
    BY <2>1, WithinLinks
  <2> HIDE DEF w
  <2> QED
    BY <2>2 DEF MoreOf
<1> HIDE DEF w
<1>2. 0 \in U
  OBVIOUS
<1>3. ASSUME NEW k \in Nat, k \in U PROVE k + 1 \in U
  <2>1. CASE n + (k + 1) <= i.size
    <3>1. n + k \in 0..i.size /\ n + k < i.size /\ n + (k + 1) = (n + k) + 1
      BY <2>1
    <3>2. w[n + k] \subseteq w[(n + k) + 1]
      BY <1>1, <3>1
    <3> QED
      BY <1>3, <3>1, <3>2
  <2> QED
    BY <2>1
<1>4. i.size - n \in U
  <2> HIDE DEF U
  <2>1. Nat \subseteq U
    BY <1>2, <1>3, AllNaturals
  <2> QED
    BY <2>1
<1>5. w[n] \subseteq w[i.size]
  BY <1>4
<1> QED
  BY <1>1, <1>5 DEF w

-----------------------------------------------------------------------------
(* The analysis' definitions are those of its image.                       *)

IndexValidatesOf(i, entries) ==
  LET named == {a \in ToSet(entries) : i.entry[a].index # "one letter"} IN
  named # {} /\ \A a \in named : i.entry[a].index = "right"
TrustedOf(i, entries) == Len(entries) >= 2 \/ IndexValidatesOf(i, entries)
RoutinesOf(i, entries) == [k \in DOMAIN entries |-> i.entry[entries[k]].address]
TargetsOf(i, a) ==
  CASE i.code[a].flow \in {"jump", "branch", "call"} -> <<i.code[a].target>>
    [] i.code[a].flow = "vector call" ->
         IF i.code[a].target \in DOMAIN i.words THEN <<i.words[i.code[a].target]>> ELSE <<>>
    [] OTHER -> <<>>

LEMMA OfTheImage ==
  /\ \A a : /\ InImage(a) <=> InOf(image, a)
            /\ Valid(a) <=> ValidOf(image, a)
            /\ Successors(a) = SuccessorsOf(image, a)
            /\ Targets(a) = TargetsOf(image, a)
            /\ Chain(a) = ChainOf(image, a)
            /\ Trusted(Chain(a)) <=> TrustedOf(image, ChainOf(image, a))
  /\ \A t : /\ Trusted(t) <=> TrustedOf(image, t)
            /\ Routines(t) = RoutinesOf(image, t)
  /\ Within = WithinOf(image, EntryPoints)
<1>1. ASSUME NEW a PROVE /\ InImage(a) <=> InOf(image, a)
                         /\ Valid(a) <=> ValidOf(image, a)
                         /\ Successors(a) = SuccessorsOf(image, a)
  BY Zenon DEF Successors, SuccessorsOf, InImage, InOf, Valid, ValidOf, End, After, AfterOf
<1>2. ASSUME NEW a PROVE Targets(a) = TargetsOf(image, a)
  BY Zenon DEF Targets, TargetsOf, VectorTarget
<1>3. ASSUME NEW a PROVE Chain(a) = ChainOf(image, a)
  BY Zenon DEF Chain, ChainOf, InImage, InOf, End
<1>6. ASSUME NEW a PROVE Trusted(Chain(a)) <=> TrustedOf(image, ChainOf(image, a))
  BY <1>3, Zenon DEF Trusted, TrustedOf, IndexValidates, IndexValidatesOf
<1>4. ASSUME NEW t PROVE (Trusted(t) <=> TrustedOf(image, t)) /\ Routines(t) = RoutinesOf(image, t)
  BY Zenon DEF Trusted, TrustedOf, IndexValidates, IndexValidatesOf, Routines, RoutinesOf
<1>5. Within = WithinOf(image, EntryPoints)
  BY Zenon DEF Within, WithinOf, Successors, SuccessorsOf, InImage, InOf, Valid, ValidOf, End, After, AfterOf
<1> QED
  BY <1>1, <1>2, <1>3, <1>4, <1>5, <1>6, Zenon

LEMMA OfTheNextImage ==
  /\ \A a : /\ InImage(a)' <=> InOf(image', a)
            /\ Valid(a)' <=> ValidOf(image', a)
            /\ Successors(a)' = SuccessorsOf(image', a)
            /\ Targets(a)' = TargetsOf(image', a)
            /\ Chain(a)' = ChainOf(image', a)
            /\ Trusted(Chain(a))' <=> TrustedOf(image', ChainOf(image', a))
  /\ \A t : /\ Trusted(t)' <=> TrustedOf(image', t)
            /\ Routines(t)' = RoutinesOf(image', t)
  /\ Within' = WithinOf(image', EntryPoints')
<1>1. ASSUME NEW a PROVE /\ InImage(a)' <=> InOf(image', a)
                         /\ Valid(a)' <=> ValidOf(image', a)
                         /\ Successors(a)' = SuccessorsOf(image', a)
  BY Zenon DEF Successors, SuccessorsOf, InImage, InOf, Valid, ValidOf, End, After, AfterOf
<1>2. ASSUME NEW a PROVE Targets(a)' = TargetsOf(image', a)
  BY Zenon DEF Targets, TargetsOf, VectorTarget
<1>3. ASSUME NEW a PROVE Chain(a)' = ChainOf(image', a)
  BY Zenon DEF Chain, ChainOf, InImage, InOf, End
<1>6. ASSUME NEW a PROVE Trusted(Chain(a))' <=> TrustedOf(image', ChainOf(image', a))
  BY <1>3, Zenon DEF Trusted, TrustedOf, IndexValidates, IndexValidatesOf
<1>4. ASSUME NEW t PROVE (Trusted(t)' <=> TrustedOf(image', t)) /\ Routines(t)' = RoutinesOf(image', t)
  BY Zenon DEF Trusted, TrustedOf, IndexValidates, IndexValidatesOf, Routines, RoutinesOf
<1>5. Within' = WithinOf(image', EntryPoints')
  BY Zenon DEF Within, WithinOf, Successors, SuccessorsOf, InImage, InOf, Valid, ValidOf, End, After, AfterOf
<1> QED
  BY <1>1, <1>2, <1>3, <1>4, <1>5, <1>6, Zenon

\* No step changes the image, nor what is defined by it.
LEMMA ImageKept ==
  ASSUME analysis' = analysis
  PROVE  /\ image' = image /\ mode' = mode /\ seeds' = seeds /\ End' = End
         /\ \A a : /\ InImage(a)' <=> InImage(a)
                   /\ Valid(a)' <=> Valid(a)
                   /\ Successors(a)' = Successors(a)
                   /\ Targets(a)' = Targets(a)
                   /\ Chain(a)' = Chain(a)
                   /\ Trusted(Chain(a))' <=> Trusted(Chain(a))
         /\ \A t : /\ Trusted(t)' <=> Trusted(t)
                   /\ Routines(t)' = Routines(t)
         /\ EntryPoints' = EntryPoints => Within' = Within
<1>1. image' = image /\ mode' = mode /\ seeds' = seeds /\ End' = End
  BY DEF image, mode, seeds, End
<1> QED
  BY <1>1, OfTheImage, OfTheNextImage, Zenon

-----------------------------------------------------------------------------
(* What holds at every step.                                               *)

Starts == {a \in DOMAIN kind : kind[a] = "start"}
Follow == EntryPoints \cup UNION {Successors(a) : a \in Starts}

\* The traversal is on its way: what is to be looked at, or has been, is where a
\* processor may be after as many instructions as have been found, and whatever
\* follows from those and from the entry points is found or still to be looked at.
OnItsWay ==
  /\ phase # "start" =>
       /\ labels = EntryPoints \cup UNION {ToSet(Targets(a)) : a \in Starts}
       /\ ToSet(worklist) \cup Starts \subseteq Within[Cardinality(Starts)]
       /\ \A a \in Follow : InImage(a) /\ Valid(a) /\ kind[a] = "unknown" => a \in ToSet(worklist)
  /\ \A b \in DOMAIN kind : kind[b] = "continuation" =>
       \E a \in Starts : a < b /\ b < a + image.code[a].length

AnalysisTyped ==
  /\ analysis \in Analyses /\ phase \in {"start", "pages", "traverse", "done"}
  /\ kind \in [PlacesIn(image) -> {"unknown", "start", "continuation"}]
  /\ tables \in Seq(Seq(EntriesIn(image))) /\ labels \subseteq Addresses /\ worklist \in Seq(Addresses)
  /\ page \in Addresses

PhaseRight ==
  /\ phase = "start" => labels = {} /\ worklist = <<>> /\ tables = <<>>
  /\ phase \in {"start", "pages"} => Starts = {}
  /\ phase = "pages" => mode = "module" /\ ToSet(worklist) = EntryPoints
  /\ phase = "done" => worklist = <<>>

\* The places of a page for a table to begin at.
LastOf(start) == IF start + PageSize > End THEN End - 1 ELSE start + PageSize - 1
SpotsOf(start) == {t \in (start + 1)..LastOf(start) : Trusted(Chain(t))}
PageStarts == {s \in Addresses : s % PageSize = 0}

\* A table is the first one of a page, and a page that was looked at has one if
\* it has a trusted chain. Of an image in the last page the loop finds no end.
PagesRight ==
  mode = "module" =>
    /\ \A e \in ToSet(tables) : \E s \in PageStarts :
         e[1] \in SpotsOf(s) /\ \A t \in SpotsOf(s) : e[1] <= t
    /\ phase = "pages" => page \in PageStarts
    /\ \A s \in image.sentinels :
         /\ SpotsOf(s) # {}
         /\ \/ phase \in {"traverse", "done"}
            \/ phase = "pages" /\ s < page /\ End <= AddressSpace - PageSize
         => \E e \in ToSet(tables) : e[1] \in SpotsOf(s)

AnalysisInv == AnalysisTyped /\ PhaseRight /\ OnItsWay /\ PagesRight

-----------------------------------------------------------------------------
(* The tables of a page.                                                   *)

\* Some number of a set is the least.
LEMMA LeastOfAll ==
  ASSUME NEW S, S \subseteq Nat, S # {}
  PROVE  \E m \in S : \A x \in S : m <= x
<1> SUFFICES ASSUME \A m \in S : \E x \in S : ~(m <= x) PROVE FALSE
  OBVIOUS
<1> DEFINE U == {k \in Nat : \A x \in S : k < x}
<1>1. ASSUME NEW k \in Nat, \A x \in S : k <= x PROVE k \in U
  <2>1. ASSUME NEW x \in S PROVE k < x
    <3>1. k # x
      BY <1>1, <2>1
    <3> QED
      BY <1>1, <3>1
  <2> QED
    BY <2>1
<1>2. 0 \in U
  BY <1>1
<1>3. ASSUME NEW k \in Nat, k \in U PROVE k + 1 \in U
  <2>1. \A x \in S : k + 1 <= x
    BY <1>3
  <2> QED
    BY <1>1, <2>1
<1>4. Nat \subseteq U
  <2> HIDE DEF U
  <2> QED
    BY <1>2, <1>3, AllNaturals
<1>5. PICK x \in S : TRUE
  OBVIOUS
<1> QED
  BY <1>4, <1>5

\* A chain of no entry is not trusted.
LEMMA NoneUntrusted == ~Trusted(<<>>)
<1>1. ~(Len(<<>>) >= 2)
  OBVIOUS
<1>2. ~IndexValidates(<<>>)
  <2>1. {a \in {} : image.entry[a].index # "one letter"} = {}
    OBVIOUS
  <2>2. ToSet(<<>>) = {}
    BY SetOfNone
  <2> QED
    BY <2>1, <2>2, Zenon DEF IndexValidates
<1> QED
  BY <1>1, <1>2, Zenon DEF Trusted

LEMMA ImageIsRight ==
  ASSUME analysis \in Analyses
  PROVE  ImageRight(image) /\ mode \in {"program", "base", "module"} /\ seeds \in Seq(Addresses)
BY AnalyzerAssumption DEF image, mode, seeds

LEMMA ImageBounds ==
  ASSUME analysis \in Analyses
  PROVE  /\ AddressSpace \in Nat \ {0} /\ PageSize \in Nat \ {0}
         /\ image.base \in Nat /\ image.base < AddressSpace /\ image.size \in Nat
         /\ End = image.base + image.size /\ End \in Nat /\ End <= AddressSpace
         /\ PlacesIn(image) = image.base..(End - 1)
<1>1. ImageRight(image) /\ AddressSpace \in Nat \ {0} /\ PageSize \in Nat \ {0}
  BY ImageIsRight, AnalyzerAssumption
<1>2. /\ image.base \in Nat /\ image.base < AddressSpace /\ image.size \in Nat
      /\ image.base + image.size <= AddressSpace
  BY <1>1 DEF ImageRight, Addresses
<1>3. End = image.base + image.size
  BY DEF End
<1>4. End \in Nat /\ End <= AddressSpace /\ image.base + image.size - 1 = End - 1
  BY <1>2, <1>3
<1>5. PlacesIn(image) = image.base..(End - 1)
  BY <1>4 DEF PlacesIn
<1> QED
  BY <1>1, <1>2, <1>3, <1>4, <1>5

LEMMA ImagePlaces ==
  ASSUME analysis \in Analyses, NEW a \in Addresses, InImage(a)
  PROVE  a \in PlacesIn(image)
<1>1. a \in Nat /\ a >= image.base /\ a < End
  BY DEF Addresses, InImage
<1>2. image.base \in Nat /\ End \in Nat /\ PlacesIn(image) = image.base..(End - 1)
  BY ImageBounds
<1> QED
  BY <1>1, <1>2

\* The table found is the one that begins first.
LEMMA TableFound ==
  ASSUME analysis \in Analyses, NEW first \in Int, NEW last \in Int, first..last \subseteq Addresses
  PROVE  LET e == TableIn(first, last)
             good == {t \in first..last : Trusted(Chain(t))}
         IN /\ e \in Seq(EntriesIn(image))
            /\ e = <<>> <=> good = {}
            /\ e # <<>> => e[1] \in good /\ \A t \in good : e[1] <= t
<1> DEFINE e == TableIn(first, last)
           good == {t \in first..last : Trusted(Chain(t))}
           least == CHOOSE t \in good : \A u \in good : t <= u
<1>0. ImageRight(image)
  BY ImageIsRight
<1>1. CASE good = {}
  <2>1. e = <<>>
    BY <1>1 DEF TableIn, Candidates
  <2>2. <<>> \in Seq(EntriesIn(image))
    OBVIOUS
  <2> QED
    BY <1>1, <2>1, <2>2
<1>2. CASE good # {}
  <2>1. good \subseteq Nat
    BY DEF Addresses
  <2>2. \E m \in good : \A x \in good : m <= x
    <3> HIDE DEF good
    <3> QED
      BY <1>2, <2>1, LeastOfAll
  <2>3. least \in good /\ \A x \in good : least <= x
    BY <2>2, Zenon
  <2>4. e = Chain(least)
    BY <1>2 DEF TableIn, Candidates
  <2>5. least \in Addresses /\ Trusted(Chain(least))
    BY <2>3
  <2> HIDE DEF e, good, least
  <2>6. Chain(least) # <<>>
    BY <2>5, NoneUntrusted
  <2>7. e = ChainOf(image, least)
    BY <2>4, OfTheImage, Zenon
  <2>8. e \in Seq(EntriesIn(image)) /\ (e # <<>> => e[1] = least)
    BY <1>0, <2>5, <2>7, ChainStarts
  <2>9. e \in Seq(EntriesIn(image)) /\ e # <<>> /\ e[1] \in good /\ \A t \in good : e[1] <= t
    BY <2>3, <2>4, <2>6, <2>8
  <2> QED
    BY <1>2, <2>9 DEF e, good
<1> QED
  BY <1>1, <1>2

\* A table's routines.
LEMMA RoutinesFound ==
  ASSUME analysis \in Analyses, NEW e \in Seq(EntriesIn(image))
  PROVE  Routines(e) \in Seq(Addresses)
<1>1. ImageRight(image)
  BY ImageIsRight
<1>2. \A a \in EntriesIn(image) : image.entry[a].address \in Addresses
  BY <1>1 DEF ImageRight, EntriesIn, PlacesIn
<1>3. DOMAIN e = 1..Len(e) /\ Len(e) \in Nat /\ \A k \in 1..Len(e) : e[k] \in EntriesIn(image)
  OBVIOUS
<1>4. Routines(e) \in [1..Len(e) -> Addresses]
  BY <1>2, <1>3 DEF Routines
<1> QED
  BY <1>3, <1>4

\* An instruction's targets and what is after it are where a processor goes.
LEMMA SuccessorsFound ==
  ASSUME analysis \in Analyses, NEW a, InImage(a), Valid(a), a \in Addresses
  PROVE  /\ Targets(a) \in Seq(Addresses) /\ Onward(a) \in Seq(Addresses)
         /\ ToSet(Targets(a)) \cup ToSet(Onward(a)) = Successors(a)
<1> DEFINE c == image.code[a]
<1>1. ImageRight(image) /\ AddressSpace \in Nat \ {0}
  BY ImageIsRight, AnalyzerAssumption
<1>2. c \in [flow : Flows, length : Nat \ {0}, target : Addresses]
  <2>1. a \in PlacesIn(image)
    BY ImagePlaces
  <2>2. image.code \in [PlacesIn(image) -> [flow : Flows, length : Nat \ {0}, target : Addresses]]
    BY <1>1 DEF ImageRight, PlacesIn
  <2> QED
    BY <2>1, <2>2
<1>3. After(a) \in Addresses
  BY <1>1, <1>2 DEF After, Wrapped, Addresses
<1>4. \A s \in DOMAIN image.words : image.words[s] \in Addresses
  BY <1>1 DEF ImageRight
<1>5. c.flow \in Flows \ {"undefined"} /\ c.target \in Addresses
  BY <1>2 DEF Valid
<1>6. /\ \A x \in Addresses : <<x>> \in Seq(Addresses) /\ ToSet(<<x>>) = {x}
      /\ <<>> \in Seq(Addresses) /\ ToSet(<<>>) = {}
  BY SetOfOne, SetOfNone
<1>7. CASE c.flow = "return"
  <2>1. Targets(a) = <<>> /\ Onward(a) = <<>> /\ Successors(a) = {}
    BY <1>7 DEF Targets, Onward, Successors
  <2> QED
    BY <1>6, <2>1, Zenon
<1>8. CASE c.flow = "jump"
  <2>1. Targets(a) = <<c.target>> /\ Onward(a) = <<>> /\ Successors(a) = {c.target}
    BY <1>8 DEF Targets, Onward, Successors
  <2>2. {c.target} \cup {} = {c.target}
    OBVIOUS
  <2> HIDE DEF c
  <2> QED
    BY <1>5, <1>6, <2>1, <2>2, Zenon
<1>9. CASE c.flow \in {"branch", "call"}
  <2>1. Targets(a) = <<c.target>> /\ Onward(a) = <<After(a)>> /\ Successors(a) = {c.target, After(a)}
    BY <1>9 DEF Targets, Onward, Successors
  <2>2. {c.target} \cup {After(a)} = {c.target, After(a)}
    OBVIOUS
  <2> HIDE DEF c
  <2> QED
    BY <1>3, <1>5, <1>6, <2>1, <2>2, Zenon
<1>10. CASE c.flow = "vector call"
  <2>1. /\ Targets(a) = VectorTarget(c.target) /\ Onward(a) = <<After(a)>>
        /\ Successors(a) = {After(a)} \cup {image.words[s] : s \in DOMAIN image.words \cap {c.target}}
    BY <1>10 DEF Targets, Onward, Successors
  <2> HIDE DEF c
  <2>2. CASE c.target \in DOMAIN image.words
    <3>1. Targets(a) = <<image.words[c.target]>> /\ image.words[c.target] \in Addresses
      BY <1>4, <2>1, <2>2 DEF VectorTarget
    <3>2. Successors(a) = {image.words[c.target]} \cup {After(a)}
      BY <2>1, <2>2
    <3> QED
      BY <1>3, <1>6, <2>1, <3>1, <3>2, Zenon
  <2>3. CASE c.target \notin DOMAIN image.words
    <3>1. Targets(a) = <<>>
      BY <2>1, <2>3 DEF VectorTarget
    <3>2. Successors(a) = {} \cup {After(a)}
      BY <2>1, <2>3
    <3> QED
      BY <1>3, <1>6, <2>1, <3>1, <3>2, Zenon
  <2> QED
    BY <2>2, <2>3
<1>11. CASE c.flow = "sequential"
  <2>1. Targets(a) = <<>> /\ Onward(a) = <<After(a)>> /\ Successors(a) = {After(a)}
    BY <1>11 DEF Targets, Onward, Successors
  <2>2. {} \cup {After(a)} = {After(a)}
    OBVIOUS
  <2> HIDE DEF c
  <2> QED
    BY <1>3, <1>6, <2>1, <2>2, Zenon
<1> QED
  BY <1>5, <1>7, <1>8, <1>9, <1>10, <1>11 DEF Flows

-----------------------------------------------------------------------------
(* Until the traversal.                                                    *)

\* What is to be looked at first is the entry points.
LEMMA Sought ==
  ASSUME AnalysisInv, analysis' = analysis, kind' = kind, Starts = {},
         labels' = EntryPoints', ToSet(worklist') = EntryPoints'
  PROVE  OnItsWay'
<1>1. Starts' = {}
  BY DEF Starts
<1>2. \A b \in DOMAIN kind : kind[b] # "continuation"
  BY DEF AnalysisInv, OnItsWay
<1>3. ImageRight(image')
  BY ImageIsRight, ImageKept DEF AnalysisInv, AnalysisTyped
<1>4. Within'[0] = EntryPoints'
  <2>1. image'.size \in Nat
    BY <1>3 DEF ImageRight
  <2>2. WithinOf(image', EntryPoints')[0] = EntryPoints'
    BY <2>1, WithinLinks
  <2> QED
    BY <2>2, OfTheNextImage
<1>5. Cardinality(Starts') = 0
  BY <1>1, FS_EmptySet
<1>6. UNION {ToSet(Targets(a))' : a \in Starts'} = {} /\ UNION {Successors(a)' : a \in Starts'} = {}
  BY <1>1
<1>7. labels' = EntryPoints' \cup UNION {ToSet(Targets(a))' : a \in Starts'}
  BY <1>6
<1>8. ToSet(worklist') \cup Starts' \subseteq Within'[Cardinality(Starts')]
  BY <1>1, <1>4, <1>5
<1>9. Follow' = EntryPoints'
  BY <1>6 DEF Follow
<1>10. \A a \in Follow' : a \in ToSet(worklist')
  BY <1>9
<1>11. \A b \in DOMAIN kind' : kind'[b] # "continuation"
  BY <1>2
<1> QED
  BY <1>7, <1>8, <1>10, <1>11, Zenon DEF OnItsWay

\* The entry points of the seeds, and with a table more.
LEMMA EntriesGrow ==
  ASSUME AnalysisInv, analysis' = analysis
  PROVE  /\ tables' = tables => EntryPoints' = EntryPoints
         /\ \A e \in Seq(EntriesIn(image)) :
              tables' = Append(tables, e) => EntryPoints' = EntryPoints \cup ToSet(Routines(e))
<1> DEFINE Rest == ToSet(seeds) \cup (IF mode = "base" THEN ToSet(image.vectors) ELSE {})
                     \cup (IF mode = "program" /\ seeds = <<>> THEN {image.base} ELSE {})
<1>1. image' = image /\ mode' = mode /\ seeds' = seeds
  BY ImageKept
<1>2. EntryPoints' = Rest \cup UNION {ToSet(Routines(t)') : t \in ToSet(tables')}
  BY <1>1, Zenon DEF EntryPoints
<1>3. EntryPoints = Rest \cup UNION {ToSet(Routines(t)) : t \in ToSet(tables)}
  BY DEF EntryPoints
<1>4. \A t : Routines(t)' = Routines(t)
  BY ImageKept
<1> HIDE DEF Rest
<1>5. EntryPoints' = Rest \cup UNION {ToSet(Routines(t)) : t \in ToSet(tables')}
  BY <1>2, <1>4
<1>6. ASSUME NEW e \in Seq(EntriesIn(image)), tables' = Append(tables, e)
      PROVE  ToSet(tables') = ToSet(tables) \cup {e}
  BY <1>6, SetOfMore DEF AnalysisInv, AnalysisTyped
<1> QED
  BY <1>3, <1>5, <1>6

LEMMA PagesRightElsewhere ==
  ASSUME AnalysisInv, analysis' = analysis, mode # "module"
  PROVE  PagesRight'
BY ImageKept DEF PagesRight

\* Nothing is found before the call.
LEMMA StartRight ==
  ASSUME AnalyzerInit
  PROVE  AnalysisInv
<1>1. ImageRight(image) /\ AddressSpace \in Nat \ {0}
  BY ImageIsRight, AnalyzerAssumption DEF AnalyzerInit
<1>2. AnalysisTyped
  <2>1. kind \in [PlacesIn(image) -> {"unknown", "start", "continuation"}]
    <3>1. PlacesIn(image) = image.base..(End - 1)
      BY ImageBounds DEF AnalyzerInit
    <3>2. kind = [a \in PlacesIn(image) |-> "unknown"]
      BY <3>1 DEF AnalyzerInit, AnalyzerStart
    <3> QED
      BY <3>2
  <2>2. <<>> \in Seq(Seq(EntriesIn(image))) /\ <<>> \in Seq(Addresses) /\ 0 \in Addresses
    BY <1>1 DEF Addresses
  <2> QED
    BY <2>1, <2>2 DEF AnalyzerInit, AnalyzerStart, AnalysisTyped
<1>3. \A a \in DOMAIN kind : kind[a] = "unknown"
  BY DEF AnalyzerInit, AnalyzerStart
<1>4. PhaseRight
  BY <1>3 DEF AnalyzerInit, AnalyzerStart, PhaseRight, Starts
<1>5. OnItsWay
  BY <1>3 DEF AnalyzerInit, AnalyzerStart, OnItsWay
<1>6. PagesRight
  BY SetOfNone DEF AnalyzerInit, AnalyzerStart, PagesRight
<1> QED
  BY <1>2, <1>4, <1>5, <1>6 DEF AnalysisInv

LEMMA ProgramStarts ==
  ASSUME AnalysisInv, AnalyzeProgram
  PROVE  AnalysisInv'
<1> DEFINE s == IF seeds = <<>> THEN <<image.base>> ELSE seeds
<1>1. ImageRight(image) /\ seeds \in Seq(Addresses) /\ analysis' = analysis /\ kind' = kind /\ tables = <<>>
  BY ImageIsRight DEF AnalysisInv, AnalysisTyped, PhaseRight, AnalyzeProgram
<1>2. s \in Seq(Addresses) /\ labels = {} /\ worklist = <<>> /\ Starts = {}
  <2>1. <<image.base>> \in Seq(Addresses)
    BY <1>1, SetOfOne DEF ImageRight
  <2> QED
    BY <1>1, <2>1 DEF AnalysisInv, PhaseRight, AnalyzeProgram
<1>3. EntryPoints' = EntryPoints /\ EntryPoints = ToSet(s)
  <2>1. EntryPoints' = EntryPoints
    BY EntriesGrow DEF AnalyzeProgram
  <2>2. UNION {ToSet(Routines(t)) : t \in ToSet(tables)} = {}
    BY <1>1, SetOfNone
  <2>3. EntryPoints = ToSet(seeds) \cup IF seeds = <<>> THEN {image.base} ELSE {}
    BY <2>2 DEF EntryPoints, AnalyzeProgram
  <2>4. ToSet(<<image.base>>) = {image.base}
    BY <1>1, SetOfOne DEF ImageRight
  <2>5. ToSet(<<>>) = {}
    BY SetOfNone
  <2> QED
    BY <2>1, <2>3, <2>4, <2>5
<1>4. labels' = ToSet(s) /\ worklist' = s
  <2>1. labels' = labels \cup ToSet(s) /\ worklist' = worklist \o s
    BY DEF AnalyzeProgram, Seeded
  <2> HIDE DEF s
  <2> QED
    BY <1>2, <2>1
<1> HIDE DEF s
<1>5. OnItsWay'
  BY <1>1, <1>2, <1>3, <1>4, Sought
<1>6. AnalysisTyped'
  <2>1. ToSet(s) \subseteq Addresses
    BY <1>2, SetOfList
  <2> QED
    BY <1>1, <1>2, <1>4, <2>1, ImageKept DEF AnalysisInv, AnalysisTyped, AnalyzeProgram
<1>7. PhaseRight'
  BY DEF PhaseRight, AnalyzeProgram
<1>8. PagesRight'
  BY <1>1, PagesRightElsewhere DEF AnalyzeProgram
<1> QED
  BY <1>5, <1>6, <1>7, <1>8 DEF AnalysisInv

LEMMA BaseRomStarts ==
  ASSUME AnalysisInv, AnalyzeBaseRom
  PROVE  AnalysisInv'
<1> DEFINE e == IF InImage(BaseSearch[1]) THEN TableIn(BaseSearch[2], BaseSearch[3]) ELSE <<>>
           s == seeds \o image.vectors \o Routines(e)
<1>1. /\ ImageRight(image) /\ seeds \in Seq(Addresses) /\ image.vectors \in Seq(Addresses)
      /\ analysis' = analysis /\ kind' = kind /\ tables = <<>>
      /\ labels = {} /\ worklist = <<>> /\ Starts = {}
  BY ImageIsRight DEF AnalysisInv, AnalysisTyped, PhaseRight, AnalyzeBaseRom, ImageRight
<1>2. e \in Seq(EntriesIn(image))
  <2>1. /\ BaseSearch[2] \in Int /\ BaseSearch[3] \in Int
        /\ BaseSearch[2]..BaseSearch[3] \subseteq Addresses
    BY AnalyzerAssumption DEF Addresses
  <2>2. TableIn(BaseSearch[2], BaseSearch[3]) \in Seq(EntriesIn(image))
    BY <2>1, TableFound DEF AnalysisInv, AnalysisTyped
  <2>3. <<>> \in Seq(EntriesIn(image))
    OBVIOUS
  <2> QED
    BY <2>2, <2>3
<1>3. tables' = IF e = <<>> THEN <<>> ELSE <<e>>
  BY DEF AnalyzeBaseRom
<1>4. labels' = labels \cup ToSet(s) /\ worklist' = worklist \o s
  BY DEF AnalyzeBaseRom, Seeded
<1> HIDE DEF e
<1>5. Routines(e) \in Seq(Addresses)
  BY <1>2, RoutinesFound DEF AnalysisInv, AnalysisTyped
<1>6. s \in Seq(Addresses) /\ ToSet(s) = ToSet(seeds) \cup ToSet(image.vectors) \cup ToSet(Routines(e))
  <2>1. /\ seeds \o image.vectors \in Seq(Addresses)
        /\ ToSet(seeds \o image.vectors) = ToSet(seeds) \cup ToSet(image.vectors)
    BY <1>1, SetOfJoined
  <2> DEFINE v == seeds \o image.vectors
  <2>2. s = v \o Routines(e)
    OBVIOUS
  <2> HIDE DEF s, v
  <2>5. v \in Seq(Addresses)
    BY <2>1 DEF v
  <2>3. v \o Routines(e) \in Seq(Addresses) /\ ToSet(v \o Routines(e)) = ToSet(v) \cup ToSet(Routines(e))
    BY <1>5, <2>5, SetOfJoined
  <2>4. ToSet(v) = ToSet(seeds) \cup ToSet(image.vectors)
    BY <2>1 DEF v
  <2> QED
    BY <2>2, <2>3, <2>4, Zenon
<1> HIDE DEF s
<1>7. labels' = ToSet(s) /\ worklist' = s
  BY <1>1, <1>4, <1>6
<1>8. EntryPoints' = ToSet(s)
  <2>1. EntryPoints = ToSet(seeds) \cup ToSet(image.vectors)
    <3>1. UNION {ToSet(Routines(t)) : t \in ToSet(tables)} = {}
      BY <1>1, SetOfNone
    <3> QED
      BY <3>1 DEF EntryPoints, AnalyzeBaseRom
  <2>2. CASE e = <<>>
    <3>1. EntryPoints' = EntryPoints
      BY <1>1, <1>3, <2>2, EntriesGrow
    <3>2. Routines(e) = <<>>
      BY <2>2 DEF Routines
    <3>3. ToSet(<<>>) = {}
      BY SetOfNone
    <3> QED
      BY <1>6, <2>1, <3>1, <3>2, <3>3
  <2>3. CASE e # <<>>
    <3>1. tables' = Append(tables, e)
      BY <1>1, <1>3, <2>3
    <3>2. EntryPoints' = EntryPoints \cup ToSet(Routines(e))
      BY <1>1, <1>2, <3>1, EntriesGrow
    <3> QED
      BY <1>6, <2>1, <3>2
  <2> QED
    BY <2>2, <2>3
<1>9. OnItsWay'
  BY <1>1, <1>7, <1>8, Sought
<1>10. AnalysisTyped'
  <2>1. tables' \in Seq(Seq(EntriesIn(image)))
    BY <1>2, <1>3
  <2>2. image' = image
    BY <1>1, ImageKept
  <2>3. ToSet(s) \subseteq Addresses
    BY <1>6, SetOfList
  <2>4. /\ analysis' \in Analyses /\ phase' = "traverse" /\ page' \in Addresses
        /\ kind' \in [PlacesIn(image') -> {"unknown", "start", "continuation"}]
    BY <1>1, <2>2 DEF AnalysisInv, AnalysisTyped, AnalyzeBaseRom
  <2> QED
    BY <1>6, <1>7, <2>1, <2>2, <2>3, <2>4 DEF AnalysisTyped
<1>11. PhaseRight'
  BY DEF PhaseRight, AnalyzeBaseRom
<1>12. PagesRight'
  BY <1>1, PagesRightElsewhere DEF AnalyzeBaseRom
<1> QED
  BY <1>9, <1>10, <1>11, <1>12 DEF AnalysisInv

-----------------------------------------------------------------------------
(* The pages of a module.                                                  *)

\* Of a product that is larger by less than a factor, the other factor is the same.
LEMMA SameTimes ==
  ASSUME NEW P \in Nat \ {0}, NEW x \in Int, NEW y \in Int
  PROVE  /\ P * x < P * y => P * x + P <= P * y
         /\ P * x - P * y < P /\ P * y - P * x < P => x = y
<1>1. ASSUME NEW u \in Int, NEW v \in Int, u < v PROVE P * u + P <= P * v
  <2>1. PICK d \in Nat : v = u + 1 + d
    <3>1. v - u - 1 \in Nat /\ v = u + 1 + (v - u - 1)
      BY <1>1
    <3> QED
      BY <3>1
  <2>2. P * v = P * u + P + P * d
    BY <2>1
  <2>3. P * d >= 0 /\ P * d \in Int /\ P * u \in Int
    OBVIOUS
  <2> QED
    BY <2>2, <2>3
<1>2. P * x \in Int /\ P * y \in Int
  OBVIOUS
<1>3. CASE x < y
  BY <1>1, <1>2, <1>3
<1>4. CASE x = y
  BY <1>2, <1>4
<1>5. CASE y < x
  BY <1>1, <1>2, <1>5
<1> QED
  BY <1>3, <1>4, <1>5

\* A page begins where the one before ends, or above.
LEMMA PagesApart ==
  ASSUME NEW P \in Nat \ {0}, NEW a \in Nat, a % P = 0, NEW b \in Nat, b % P = 0
  PROVE  /\ (a + P) % P = 0
         /\ a < b => a + P <= b
<1> DEFINE c == a + P
<1>1. /\ a = P * (a \div P) /\ b = P * (b \div P) /\ a \div P \in Int /\ b \div P \in Int
      /\ c = P * (c \div P) + (c % P) /\ c \div P \in Int /\ c % P \in 0..(P - 1)
  OBVIOUS
<1>2. P * (a \div P) < P * (b \div P) => P * (a \div P) + P <= P * (b \div P)
  BY <1>1, SameTimes
<1>3. a < b => a + P <= b
  BY <1>1, <1>2
<1> DEFINE x == a \div P
           y == c \div P
<1>4. c = P * (x + 1) /\ x + 1 \in Int
  BY <1>1
<1>5. c % P = 0
  <2> HIDE DEF c, y, x
  <2>0. c = P * y + (c % P) /\ y \in Int /\ c % P \in 0..(P - 1) /\ P * y \in Int
    BY <1>1 DEF y
  <2> DEFINE u == P * (x + 1)
             v == P * y
             d == c % P
  <2>1. u - v < P /\ v - u < P
    <3>1. u = v + d /\ v \in Int /\ d \in 0..(P - 1)
      BY <1>4, <2>0
    <3> HIDE DEF u, v, d
    <3> QED
      BY <3>1
  <2>2. x + 1 = y
    BY <1>4, <2>0, <2>1, SameTimes
  <2>3. v = v + d /\ v \in Int /\ d \in Int
    BY <1>4, <2>0, <2>2
  <2> HIDE DEF v, d
  <2>4. d = 0
    BY <2>3
  <2> QED
    BY <2>4 DEF d
<1> QED
  BY <1>3, <1>5

\* The page an address is in.
LEMMA PageOf ==
  ASSUME NEW P \in Nat \ {0}, NEW c \in Nat
  PROVE  /\ c - (c % P) \in Nat /\ c - (c % P) <= c /\ c < c - (c % P) + P
         /\ (c - (c % P)) % P = 0
<1> DEFINE d == c % P
           q == c \div P
           b == c - d
           r == b \div P
           e == b % P
<1>1. c = P * q + d /\ q \in Nat /\ d \in 0..(P - 1)
  OBVIOUS
<1>2. P * q \in Nat
  <2> HIDE DEF q
  <2> QED
    BY <1>1
<1>3. b = P * q
  <2> DEFINE x == P * q
  <2> HIDE DEF x, d
  <2>1. c = x + d /\ d \in Int /\ x \in Int
    BY <1>1, <1>2 DEF x
  <2> QED
    BY <2>1 DEF x
<1>4. b \in Nat /\ b <= c /\ c < b + P
  <2> HIDE DEF d
  <2> QED
    BY <1>1, <1>2, <1>3
<1> HIDE DEF b
<1>5. b = P * r + e /\ r \in Int /\ e \in 0..(P - 1)
  BY <1>4
<1> HIDE DEF q, r, e
<1>6. P * r \in Int /\ q \in Int
  BY <1>1, <1>5
<1> DEFINE x == P * q
           y == P * r
<1>7. x - y < P /\ y - x < P
  <2> HIDE DEF x, y
  <2> QED
    BY <1>3, <1>4, <1>5, <1>6 DEF x, y
<1>8. q = r
  BY <1>5, <1>6, <1>7, SameTimes
<1>9. e = 0
  <2>1. y = y + e /\ y \in Int /\ e \in Int
    BY <1>3, <1>5, <1>6, <1>8
  <2> HIDE DEF y
  <2> QED
    BY <2>1
<1> QED
  BY <1>4, <1>9 DEF b, e

\* The next page is at the address space's end, or is the next multiple.
LEMMA NextPage ==
  ASSUME NEW p \in PageStarts
  PROVE  /\ p + PageSize <= AddressSpace /\ Wrapped(p + PageSize) \in PageStarts
         /\ Wrapped(p + PageSize) = IF p + PageSize = AddressSpace THEN 0 ELSE p + PageSize
         /\ \A s \in PageStarts : p < s => p + PageSize <= s
<1>1. /\ AddressSpace \in Nat \ {0} /\ PageSize \in Nat \ {0} /\ AddressSpace % PageSize = 0
      /\ p \in Nat /\ p < AddressSpace /\ p % PageSize = 0
  BY AnalyzerAssumption DEF PageStarts, Addresses
<1>2. p + PageSize <= AddressSpace /\ (p + PageSize) % PageSize = 0
  BY <1>1, PagesApart
<1>3. ASSUME NEW s \in PageStarts, p < s PROVE p + PageSize <= s
  BY <1>1, <1>3, PagesApart DEF PageStarts, Addresses
<1>4. CASE p + PageSize = AddressSpace
  <2>1. Wrapped(p + PageSize) = 0
    BY <1>1, <1>4 DEF Wrapped
  <2>2. 0 % PageSize = 0
    BY <1>1
  <2> QED
    BY <1>1, <1>2, <1>3, <1>4, <2>1, <2>2 DEF PageStarts, Addresses
<1>5. CASE p + PageSize # AddressSpace
  <2> DEFINE n == p + PageSize
  <2>1. n \in Nat /\ n < AddressSpace
    BY <1>1, <1>2, <1>5
  <2> HIDE DEF n
  <2>2. n % AddressSpace = n
    BY <1>1, <2>1
  <2> QED
    BY <1>1, <1>2, <1>3, <1>5, <2>1, <2>2 DEF Wrapped, PageStarts, Addresses, n
<1> QED
  BY <1>4, <1>5

LEMMA SpotsKept ==
  ASSUME analysis' = analysis
  PROVE  \A s : SpotsOf(s)' = SpotsOf(s)
<1> SUFFICES ASSUME NEW s PROVE SpotsOf(s)' = SpotsOf(s)
  OBVIOUS
<1>1. LastOf(s)' = LastOf(s)
  BY ImageKept DEF LastOf
<1>2. \A t : Trusted(Chain(t))' <=> Trusted(Chain(t))
  BY ImageKept
<1> QED
  BY <1>1, <1>2 DEF SpotsOf

\* An image's sentinels are at the beginning of pages.
LEMMA SentinelsFound ==
  ASSUME analysis \in Analyses, NEW s \in image.sentinels
  PROVE  s \in PageStarts /\ image.base <= s /\ s < End
<1>1. ImageRight(image)
  BY ImageIsRight
<1>2. s \in image.base..(image.base + image.size - 1) /\ s % PageSize = 0
  BY <1>1 DEF ImageRight
<1>3. s \in image.base..(End - 1)
  BY <1>2, ImageBounds DEF PlacesIn
<1> QED
  BY <1>2, <1>3, ImageBounds DEF PageStarts, Addresses

LEMMA ModuleStarts ==
  ASSUME AnalysisInv, AnalyzeModuleRom
  PROVE  AnalysisInv'
<1>1. /\ ImageRight(image) /\ seeds \in Seq(Addresses)
      /\ analysis' = analysis /\ kind' = kind /\ tables' = tables /\ tables = <<>> /\ phase' = "pages"
      /\ labels = {} /\ worklist = <<>> /\ Starts = {} /\ mode = "module" /\ analysis \in Analyses
  BY ImageIsRight DEF AnalysisInv, AnalysisTyped, PhaseRight, AnalyzeModuleRom
<1>2. labels' = ToSet(seeds) /\ worklist' = seeds
  BY <1>1 DEF AnalyzeModuleRom, Seeded
<1>3. EntryPoints' = ToSet(seeds)
  <2>1. EntryPoints' = EntryPoints
    BY <1>1, EntriesGrow
  <2>2. UNION {ToSet(Routines(t)) : t \in ToSet(tables)} = {}
    BY <1>1, SetOfNone
  <2> QED
    BY <1>1, <2>1, <2>2 DEF EntryPoints
<1> DEFINE first == image.base - (image.base % PageSize)
<1>4. /\ AddressSpace \in Nat \ {0} /\ PageSize \in Nat \ {0} /\ image.base \in Nat /\ image.base < AddressSpace
      /\ image.size \in Nat
  BY <1>1, AnalyzerAssumption DEF ImageRight, Addresses
<1>5. first \in PageStarts /\ first <= image.base
  <2>1. first \in Nat /\ first <= image.base /\ first % PageSize = 0
    BY <1>4, PageOf
  <2> HIDE DEF first
  <2> QED
    BY <1>4, <2>1 DEF PageStarts, Addresses
<1>6. page' = IF first < image.base THEN Wrapped(first + PageSize) ELSE first
  BY DEF AnalyzeModuleRom
<1> HIDE DEF first
<1>7. page' \in PageStarts
  BY <1>5, <1>6, NextPage
<1>8. ASSUME NEW s \in image.sentinels, s < page', End <= AddressSpace - PageSize PROVE FALSE
  <2>1. s \in PageStarts /\ image.base <= s /\ s \in Int /\ first \in Int
    BY <1>1, <1>5, SentinelsFound DEF PageStarts, Addresses
  <2>2. first < image.base
    BY <1>4, <1>5, <1>6, <1>8, <2>1
  <2>3. first + PageSize # AddressSpace
    BY <1>4, <1>8, <2>1, <2>2 DEF End
  <2>4. page' = first + PageSize
    BY <1>5, <1>6, <2>2, <2>3, NextPage
  <2>5. first + PageSize <= s
    BY <1>4, <1>5, <2>1, <2>2, NextPage
  <2> QED
    BY <1>4, <1>8, <2>1, <2>4, <2>5
<1>9. PagesRight'
  <2>1. image' = image /\ End' = End /\ mode' = mode /\ ToSet(tables') = {}
    BY <1>1, ImageKept, SetOfNone
  <2> QED
    BY <1>1, <1>7, <1>8, <2>1 DEF PagesRight
<1>10. OnItsWay'
  BY <1>1, <1>2, <1>3, Sought
<1>11. AnalysisTyped'
  <2>1. ToSet(seeds) \subseteq Addresses
    BY <1>1, SetOfList
  <2>2. image' = image
    BY <1>1, ImageKept
  <2>3. page' \in Addresses
    BY <1>7 DEF PageStarts
  <2> QED
    BY <1>1, <1>2, <2>1, <2>2, <2>3 DEF AnalysisInv, AnalysisTyped
<1>12. PhaseRight'
  <2>1. Starts' = {} /\ mode' = mode
    BY <1>1, ImageKept DEF Starts
  <2> QED
    BY <1>1, <1>2, <1>3, <2>1 DEF PhaseRight
<1> QED
  BY <1>9, <1>10, <1>11, <1>12 DEF AnalysisInv

\* What is found in a page is what begins at the first of its spots.
LEMMA PageFound ==
  ASSUME analysis \in Analyses, page \in PageStarts, page < End
  PROVE  LET pageEnd == IF Wrapped(page + PageSize) > End THEN End ELSE Wrapped(page + PageSize)
             e == TableIn(page + 1, pageEnd - 1)
         IN /\ e \in Seq(EntriesIn(image))
            /\ e # <<>> => e[1] \in SpotsOf(page) /\ \A t \in SpotsOf(page) : e[1] <= t
            /\ e = <<>> /\ page + PageSize < AddressSpace => SpotsOf(page) = {}
<1> DEFINE pageEnd == IF Wrapped(page + PageSize) > End THEN End ELSE Wrapped(page + PageSize)
           first == page + 1
           last == pageEnd - 1
           e == TableIn(first, last)
           good == {t \in first..last : Trusted(Chain(t))}
<1>1. /\ AddressSpace \in Nat \ {0} /\ PageSize \in Nat \ {0} /\ page \in Nat
      /\ End \in Nat /\ End <= AddressSpace
  BY ImageBounds DEF PageStarts, Addresses
<1>2. /\ page + PageSize <= AddressSpace
      /\ Wrapped(page + PageSize) = IF page + PageSize = AddressSpace THEN 0 ELSE page + PageSize
  BY NextPage
<1>3. first \in Int /\ last \in Int /\ first..last \subseteq Addresses
  BY <1>1, <1>2 DEF Addresses
<1>4. /\ e \in Seq(EntriesIn(image))
      /\ e = <<>> <=> good = {}
      /\ e # <<>> => e[1] \in good /\ \A t \in good : e[1] <= t
  <2> HIDE DEF first, last
  <2> QED
    BY <1>3, TableFound
<1>5. CASE page + PageSize = AddressSpace
  <2>1. first..last = {}
    BY <1>1, <1>2, <1>5
  <2>2. good = {}
    BY <2>1
  <2> HIDE DEF good, e
  <2>3. /\ e \in Seq(EntriesIn(image)) /\ e = <<>>
        /\ ~(page + PageSize < AddressSpace)
    BY <1>1, <1>4, <1>5, <2>2
  <2> QED
    BY <2>3 DEF e
<1>6. CASE page + PageSize < AddressSpace
  <2>1. last = LastOf(page)
    BY <1>1, <1>2, <1>6 DEF LastOf
  <2>2. good = SpotsOf(page)
    BY <2>1, Zenon DEF SpotsOf
  <2> HIDE DEF good, e
  <2> QED
    BY <1>4, <2>2 DEF e
<1> QED
  BY <1>1, <1>2, <1>5, <1>6

\* While the pages are looked at, nothing is decoded: Starts, labels and entry
\* points are as they were, or a table's routines more.
LEMMA PageScanned ==
  ASSUME AnalysisInv, ScanPage
  PROVE  AnalysisInv'
<1> DEFINE pageEnd == IF Wrapped(page + PageSize) > End THEN End ELSE Wrapped(page + PageSize)
           e == TableIn(page + 1, pageEnd - 1)
<1>1. /\ analysis \in Analyses /\ analysis' = analysis /\ phase = "pages" /\ phase' = "pages" /\ kind' = kind
      /\ page < End /\ page' = Wrapped(page + PageSize) /\ mode = "module"
      /\ Starts = {} /\ labels = EntryPoints /\ ToSet(worklist) = EntryPoints
  <2>1. /\ analysis \in Analyses /\ analysis' = analysis /\ phase = "pages" /\ phase' = "pages" /\ kind' = kind
        /\ page < End /\ page' = Wrapped(page + PageSize) /\ mode = "module" /\ Starts = {}
        /\ ToSet(worklist) = EntryPoints
    BY DEF AnalysisInv, AnalysisTyped, PhaseRight, ScanPage
  <2>2. labels = EntryPoints \cup UNION {ToSet(Targets(a)) : a \in Starts}
    BY <2>1 DEF AnalysisInv, OnItsWay
  <2> QED
    BY <2>1, <2>2
<1>2. page \in PageStarts
  BY <1>1 DEF AnalysisInv, PagesRight
<1>3. /\ e \in Seq(EntriesIn(image))
      /\ e # <<>> => e[1] \in SpotsOf(page) /\ \A t \in SpotsOf(page) : e[1] <= t
      /\ e = <<>> /\ page + PageSize < AddressSpace => SpotsOf(page) = {}
  BY <1>1, <1>2, PageFound
<1>4. \/ page \notin image.sentinels /\ UNCHANGED <<tables, labels, worklist>>
      \/ page \in image.sentinels /\ e = <<>> /\ UNCHANGED <<tables, labels, worklist>>
      \/ /\ page \in image.sentinels /\ e # <<>> /\ tables' = Append(tables, e)
         /\ labels' = labels \cup ToSet(Routines(e)) /\ worklist' = worklist \o Routines(e)
  BY Zenon DEF ScanPage, Seeded
<1> HIDE DEF e
<1>5. /\ worklist' \in Seq(Addresses) /\ tables' \in Seq(Seq(EntriesIn(image))) /\ labels' \subseteq Addresses
      /\ labels' = EntryPoints' /\ ToSet(worklist') = EntryPoints'
  <2>1. CASE UNCHANGED <<tables, labels, worklist>>
    <3>1. EntryPoints' = EntryPoints
      BY <1>1, <2>1, EntriesGrow
    <3> QED
      BY <1>1, <2>1, <3>1 DEF AnalysisInv, AnalysisTyped
  <2>2. CASE /\ tables' = Append(tables, e)
             /\ labels' = labels \cup ToSet(Routines(e)) /\ worklist' = worklist \o Routines(e)
    <3>1. Routines(e) \in Seq(Addresses)
      BY <1>1, <1>3, RoutinesFound
    <3>2. EntryPoints' = EntryPoints \cup ToSet(Routines(e))
      BY <1>1, <1>3, <2>2, EntriesGrow
    <3>3. worklist \in Seq(Addresses) /\ tables \in Seq(Seq(EntriesIn(image))) /\ labels \subseteq Addresses
      BY DEF AnalysisInv, AnalysisTyped
    <3>4. worklist' \in Seq(Addresses) /\ ToSet(worklist') = ToSet(worklist) \cup ToSet(Routines(e))
      BY <2>2, <3>1, <3>3, SetOfJoined
    <3>5. ToSet(Routines(e)) \subseteq Addresses
      BY <3>1, SetOfList
    <3>6. tables' \in Seq(Seq(EntriesIn(image)))
      BY <1>3, <2>2, <3>3, SetOfMore
    <3>7. labels' = EntryPoints' /\ ToSet(worklist') = EntryPoints' /\ labels' \subseteq Addresses
      BY <1>1, <2>2, <3>2, <3>3, <3>4, <3>5
    <3> QED
      BY <3>4, <3>6, <3>7
  <2> QED
    BY <1>4, <2>1, <2>2
<1>6. page' \in PageStarts
  BY <1>1, <1>2, NextPage
<1>7. \/ ToSet(tables') = ToSet(tables)
      \/ ToSet(tables') = ToSet(tables) \cup {e} /\ e # <<>>
  <2> DEFINE T == Seq(EntriesIn(image))
  <2>1. tables \in Seq(T) /\ e \in T
    BY <1>3 DEF AnalysisInv, AnalysisTyped
  <2> HIDE DEF T
  <2>2. tables' = Append(tables, e) => ToSet(tables') = ToSet(tables) \cup {e}
    BY <2>1, SetOfMore
  <2> QED
    BY <1>4, <2>2
<1>8. ASSUME NEW x \in ToSet(tables')
      PROVE  \E s \in PageStarts : x[1] \in SpotsOf(s) /\ \A t \in SpotsOf(s) : x[1] <= t
  <2>1. CASE x \in ToSet(tables)
    BY <1>1, <2>1 DEF AnalysisInv, PagesRight
  <2>2. CASE x = e /\ e # <<>>
    BY <1>2, <1>3, <2>2
  <2> QED
    BY <1>7, <1>8, <2>1, <2>2
<1>9. ASSUME NEW s \in image.sentinels, SpotsOf(s) # {}, s < page', End <= AddressSpace - PageSize
      PROVE  \E x \in ToSet(tables') : x[1] \in SpotsOf(s)
  <2>1. /\ s \in PageStarts /\ page + PageSize <= AddressSpace
        /\ page' = IF page + PageSize = AddressSpace THEN 0 ELSE page + PageSize
        /\ page < s => page + PageSize <= s
    BY <1>1, <1>2, NextPage, SentinelsFound
  <2>2. page \in Nat /\ s \in Nat /\ AddressSpace \in Nat /\ PageSize \in Nat /\ End \in Nat
    BY <1>1, <1>2, <2>1, ImageBounds DEF PageStarts, Addresses
  <2>3. page + PageSize < AddressSpace /\ s <= page
    BY <1>1, <1>9, <2>1, <2>2
  <2>4. CASE s < page
    <3>1. \E x \in ToSet(tables) : x[1] \in SpotsOf(s)
      BY <1>1, <1>9, <2>4 DEF AnalysisInv, PagesRight
    <3> QED
      BY <1>7, <3>1
  <2>5. CASE s = page
    <3>1. e # <<>>
      BY <1>3, <1>9, <2>3, <2>5
    <3>2. tables' = Append(tables, e)
      BY <1>4, <1>9, <2>5, <3>1
    <3>3. e \in ToSet(tables')
      BY <1>3, <3>2, SetOfMore DEF AnalysisInv, AnalysisTyped
    <3> QED
      BY <1>3, <2>5, <3>1, <3>3
  <2> QED
    BY <2>2, <2>3, <2>4, <2>5
<1>10. PagesRight'
  <2>1. image' = image /\ End' = End /\ mode' = mode /\ \A s : SpotsOf(s)' = SpotsOf(s)
    BY <1>1, ImageKept, SpotsKept
  <2> QED
    BY <1>1, <1>6, <1>8, <1>9, <2>1 DEF PagesRight
<1>11. OnItsWay'
  BY <1>1, <1>5, Sought
<1>12. AnalysisTyped'
  <2>1. image' = image
    BY <1>1, ImageKept
  <2>2. page' \in Addresses
    BY <1>6 DEF PageStarts
  <2> QED
    BY <1>1, <1>5, <2>1, <2>2 DEF AnalysisInv, AnalysisTyped
<1>13. PhaseRight'
  <2>1. Starts' = {} /\ mode' = mode
    BY <1>1, ImageKept DEF Starts
  <2> QED
    BY <1>1, <1>5, <2>1 DEF PhaseRight
<1> QED
  BY <1>10, <1>11, <1>12, <1>13 DEF AnalysisInv

LEMMA PagesRightKept ==
  ASSUME AnalysisInv, analysis' = analysis, tables' = tables, page' = page,
         phase' = phase \/ (phase = "traverse" /\ phase' = "done")
  PROVE  PagesRight'
<1>1. image' = image /\ End' = End /\ mode' = mode /\ \A s : SpotsOf(s)' = SpotsOf(s)
  BY ImageKept, SpotsKept
<1> QED
  BY <1>1 DEF PagesRight, AnalysisInv

LEMMA PagesAreDone ==
  ASSUME AnalysisInv, PagesEnd
  PROVE  AnalysisInv'
<1>1. /\ analysis \in Analyses /\ analysis' = analysis /\ phase = "pages" /\ phase' = "traverse"
      /\ kind' = kind /\ tables' = tables /\ labels' = labels /\ worklist' = worklist /\ page' = page
      /\ page >= End /\ mode = "module" /\ Starts = {} /\ ToSet(worklist) = EntryPoints
  BY DEF AnalysisInv, AnalysisTyped, PhaseRight, PagesEnd
<1>2. page \in PageStarts
  BY <1>1 DEF AnalysisInv, PagesRight
<1>3. labels = EntryPoints
  <2>1. labels = EntryPoints \cup UNION {ToSet(Targets(a)) : a \in Starts}
    BY <1>1 DEF AnalysisInv, OnItsWay
  <2> QED
    BY <1>1, <2>1
<1>4. OnItsWay'
  <2>1. EntryPoints' = EntryPoints
    BY <1>1, EntriesGrow
  <2> QED
    BY <1>1, <1>3, <2>1, Sought
<1>5. image' = image /\ End' = End /\ mode' = mode /\ \A s : SpotsOf(s)' = SpotsOf(s)
  BY <1>1, ImageKept, SpotsKept
<1>6. End <= AddressSpace - PageSize
  <2>1. page + PageSize <= AddressSpace
    BY <1>2, NextPage
  <2>2. page \in Nat /\ AddressSpace \in Nat /\ PageSize \in Nat /\ End \in Nat
    BY <1>1, <1>2, ImageBounds DEF PageStarts, Addresses
  <2> QED
    BY <1>1, <2>1, <2>2
<1>7. \A s \in image.sentinels : s < page
  <2>1. \A s \in image.sentinels : s < End /\ s \in Int
    BY <1>1, SentinelsFound DEF PageStarts, Addresses
  <2>2. page \in Int /\ End \in Int
    BY <1>1, <1>2, ImageBounds DEF PageStarts, Addresses
  <2> QED
    BY <1>1, <2>1, <2>2
<1>8. PagesRight'
  BY <1>1, <1>5, <1>6, <1>7 DEF PagesRight, AnalysisInv
<1>9. AnalysisTyped'
  BY <1>1, <1>5 DEF AnalysisInv, AnalysisTyped
<1>10. PhaseRight'
  BY <1>1 DEF PhaseRight
<1> QED
  BY <1>4, <1>8, <1>9, <1>10 DEF AnalysisInv

-----------------------------------------------------------------------------
(* The traversal.                                                          *)

\* Instructions found are not more than the image's bytes.
LEMMA StartsFew ==
  ASSUME AnalysisTyped
  PROVE  /\ IsFiniteSet(Starts) /\ Cardinality(Starts) \in 0..image.size
         /\ \A a \in PlacesIn(image) \ Starts :
              /\ Cardinality(Starts) < image.size
              /\ Cardinality(Starts \cup {a}) = Cardinality(Starts) + 1
<1> DEFINE P == PlacesIn(image)
<1>1. P = image.base..(End - 1) /\ image.base \in Nat /\ image.size \in Nat /\ End = image.base + image.size
  BY ImageBounds DEF AnalysisTyped
<1>2. IsFiniteSet(P) /\ Cardinality(P) = image.size
  <2>1. image.base \in Int /\ End - 1 \in Int
    BY <1>1
  <2>2. /\ IsFiniteSet(image.base..(End - 1))
        /\ Cardinality(image.base..(End - 1)) =
             IF image.base > End - 1 THEN 0 ELSE (End - 1) - image.base + 1
    BY <2>1, FS_Interval
  <2> QED
    BY <1>1, <2>2
<1>3. Starts \subseteq P
  BY DEF AnalysisTyped, Starts
<1> HIDE DEF P
<1>4. IsFiniteSet(Starts) /\ Cardinality(Starts) <= Cardinality(P) /\ Cardinality(Starts) \in Nat
  BY <1>2, <1>3, FS_Subset, FS_CardinalityType
<1>5. ASSUME NEW a \in P \ Starts
      PROVE  /\ Cardinality(Starts) < image.size
             /\ Cardinality(Starts \cup {a}) = Cardinality(Starts) + 1
  <2>1. Cardinality(Starts \cup {a}) = Cardinality(Starts) + 1
    BY <1>4, <1>5, FS_AddElement
  <2>2. Starts \cup {a} \subseteq P
    BY <1>3, <1>5
  <2>3. Cardinality(Starts \cup {a}) <= Cardinality(P)
    BY <1>2, <2>2, FS_Subset
  <2> QED
    BY <1>1, <1>2, <1>4, <2>1, <2>3
<1> QED
  BY <1>1, <1>2, <1>4, <1>5 DEF P

LEMMA SuccessorsPlaces ==
  ASSUME analysis \in Analyses, NEW a \in Addresses
  PROVE  Successors(a) \subseteq Addresses
<1>1. CASE InImage(a) /\ Valid(a)
  <2>1. /\ Targets(a) \in Seq(Addresses) /\ Onward(a) \in Seq(Addresses)
        /\ ToSet(Targets(a)) \cup ToSet(Onward(a)) = Successors(a)
    BY <1>1, SuccessorsFound
  <2>2. ToSet(Targets(a)) \subseteq Addresses /\ ToSet(Onward(a)) \subseteq Addresses
    BY <2>1, SetOfList
  <2> QED
    BY <2>1, <2>2
<1>2. CASE ~(InImage(a) /\ Valid(a))
  BY <1>2 DEF Successors
<1> QED
  BY <1>1, <1>2

LEMMA FollowPlaces ==
  ASSUME AnalysisInv, phase # "start"
  PROVE  Follow \subseteq Addresses
<1>1. analysis \in Analyses /\ labels \subseteq Addresses
  BY DEF AnalysisInv, AnalysisTyped
<1>2. EntryPoints \subseteq labels
  BY DEF AnalysisInv, OnItsWay
<1>3. Starts \subseteq Addresses
  <2>1. Starts \subseteq PlacesIn(image)
    BY DEF AnalysisInv, AnalysisTyped, Starts
  <2> QED
    BY <1>1, <2>1, ImageBounds DEF Addresses
<1>4. \A a \in Starts : Successors(a) \subseteq Addresses
  BY <1>1, <1>3, SuccessorsPlaces
<1> QED
  BY <1>1, <1>2, <1>4 DEF Follow

\* What is dropped needs no looking at.
LEMMA Skipped ==
  ASSUME AnalysisInv, Traverse, worklist # <<>>,
         LET a == Head(worklist) IN ~InImage(a) \/ kind[a] # "unknown" \/ ~Valid(a)
  PROVE  AnalysisInv'
<1> DEFINE a == Head(worklist)
<1>1. /\ analysis \in Analyses /\ analysis' = analysis /\ phase = "traverse" /\ phase' = "traverse"
      /\ kind' = kind /\ labels' = labels /\ worklist' = Tail(worklist)
      /\ tables' = tables /\ page' = page /\ worklist \in Seq(Addresses)
  BY DEF AnalysisInv, AnalysisTyped, Traverse
<1>2. Tail(worklist) \in Seq(Addresses) /\ ToSet(worklist) = {a} \cup ToSet(Tail(worklist))
  BY <1>1, SetOfRest
<1>3. /\ image' = image /\ EntryPoints' = EntryPoints /\ Within' = Within /\ Starts' = Starts
      /\ \A x : /\ InImage(x)' <=> InImage(x)
                /\ Valid(x)' <=> Valid(x)
                /\ Successors(x)' = Successors(x)
                /\ Targets(x)' = Targets(x)
  BY <1>1, ImageKept, EntriesGrow DEF Starts
<1>4. Follow' = Follow
  BY <1>3 DEF Follow
<1>5. /\ labels = EntryPoints \cup UNION {ToSet(Targets(x)) : x \in Starts}
      /\ ToSet(worklist) \cup Starts \subseteq Within[Cardinality(Starts)]
      /\ \A x \in Follow : InImage(x) /\ Valid(x) /\ kind[x] = "unknown" => x \in ToSet(worklist)
      /\ \A b \in DOMAIN kind : kind[b] = "continuation" =>
           \E x \in Starts : x < b /\ b < x + image.code[x].length
  BY <1>1 DEF AnalysisInv, OnItsWay
<1>6. ~InImage(a) \/ kind[a] # "unknown" \/ ~Valid(a)
  OBVIOUS
<1> HIDE DEF a
<1>7. OnItsWay'
  <2>1. labels' = EntryPoints' \cup UNION {ToSet(Targets(x))' : x \in Starts'}
    BY <1>1, <1>3, <1>5
  <2>2. ToSet(worklist') \cup Starts' \subseteq Within'[Cardinality(Starts')]
    BY <1>1, <1>2, <1>3, <1>5
  <2>3. \A x \in Follow' : InImage(x)' /\ Valid(x)' /\ kind'[x] = "unknown" => x \in ToSet(worklist')
    BY <1>1, <1>2, <1>3, <1>4, <1>5, <1>6
  <2>4. \A b \in DOMAIN kind' : kind'[b] = "continuation" =>
           \E x \in Starts' : x < b /\ b < x + image'.code[x].length
    BY <1>1, <1>3, <1>5
  <2> QED
    BY <2>1, <2>2, <2>3, <2>4, Zenon DEF OnItsWay
<1>8. AnalysisTyped'
  BY <1>1, <1>2, <1>3 DEF AnalysisInv, AnalysisTyped
<1>9. PhaseRight'
  BY <1>1 DEF PhaseRight
<1>10. PagesRight'
  BY <1>1, PagesRightKept
<1> QED
  BY <1>7, <1>8, <1>9, <1>10 DEF AnalysisInv

\* What is decoded is one instruction more.
LEMMA Decoded ==
  ASSUME AnalysisInv, Traverse, worklist # <<>>,
         InImage(Head(worklist)), kind[Head(worklist)] = "unknown", Valid(Head(worklist))
  PROVE  AnalysisInv'
<1> DEFINE a == Head(worklist)
           more == a + image.code[a].length
           new == ToSet(Tail(worklist)) \cup Successors(a)
<1>1. /\ analysis \in Analyses /\ analysis' = analysis /\ phase = "traverse" /\ phase' = "traverse"
      /\ tables' = tables /\ page' = page /\ worklist \in Seq(Addresses) /\ labels \subseteq Addresses
      /\ kind \in [PlacesIn(image) -> {"unknown", "start", "continuation"}]
  BY DEF AnalysisInv, AnalysisTyped, Traverse
<1>2. /\ kind' = [b \in DOMAIN kind |->
                    CASE b = a -> "start"
                      [] b > a /\ b < more /\ kind[b] = "unknown" -> "continuation"
                      [] OTHER -> kind[b]]
      /\ labels' = labels \cup ToSet(Targets(a))
      /\ worklist' = Tail(worklist) \o Targets(a) \o Onward(a)
  BY Zenon DEF Traverse
<1>3. /\ Tail(worklist) \in Seq(Addresses) /\ ToSet(worklist) = {a} \cup ToSet(Tail(worklist)) /\ a \in Addresses
  BY <1>1, SetOfRest
<1>4. InImage(a) /\ kind[a] = "unknown" /\ Valid(a) /\ a \in PlacesIn(image) /\ a \in Int
  <2>1. InImage(a) /\ kind[a] = "unknown" /\ Valid(a)
    OBVIOUS
  <2>2. a \in PlacesIn(image)
    BY <1>1, <1>3, <2>1, ImagePlaces
  <2> QED
    BY <1>3, <2>1, <2>2 DEF Addresses
<1> HIDE DEF a
<1>5. /\ Targets(a) \in Seq(Addresses) /\ Onward(a) \in Seq(Addresses)
      /\ ToSet(Targets(a)) \cup ToSet(Onward(a)) = Successors(a)
  BY <1>1, <1>3, <1>4, SuccessorsFound
<1>6. worklist' \in Seq(Addresses) /\ ToSet(worklist') = new
  <2> DEFINE v == Tail(worklist) \o Targets(a)
  <2>1. v \in Seq(Addresses) /\ ToSet(v) = ToSet(Tail(worklist)) \cup ToSet(Targets(a))
    <3> DEFINE w == Tail(worklist)
               u == Targets(a)
    <3>1. w \in Seq(Addresses) /\ u \in Seq(Addresses)
      BY <1>3, <1>5
    <3> HIDE DEF w, u
    <3>2. w \o u \in Seq(Addresses) /\ ToSet(w \o u) = ToSet(w) \cup ToSet(u)
      BY <3>1, SetOfJoined
    <3> QED
      BY <3>2 DEF w, u
  <2>2. worklist' = v \o Onward(a)
    BY <1>2
  <2> HIDE DEF v
  <2>3. v \o Onward(a) \in Seq(Addresses) /\ ToSet(v \o Onward(a)) = ToSet(v) \cup ToSet(Onward(a))
    BY <1>5, <2>1, SetOfJoined
  <2> QED
    BY <1>5, <2>1, <2>2, <2>3
<1>7. ASSUME NEW b \in PlacesIn(image)
      PROVE  /\ kind'[b] \in {"unknown", "start", "continuation"}
             /\ kind'[b] = "start" <=> b = a \/ kind[b] = "start"
             /\ kind'[b] = "unknown" => kind[b] = "unknown" /\ b # a
             /\ kind'[b] = "continuation" => kind[b] = "continuation" \/ (a < b /\ b < more)
  <2>1. CASE b = a
    <3>1. kind'[b] = "start"
      BY <1>1, <1>2, <1>4, <2>1
    <3> QED
      BY <2>1, <3>1
  <2>2. CASE b # a /\ b > a /\ b < more /\ kind[b] = "unknown"
    <3>1. kind'[b] = "continuation"
      BY <1>1, <1>2, <2>2
    <3>2. b \in Int
      BY <1>1, ImageBounds
    <3> QED
      BY <1>4, <2>2, <3>1, <3>2
  <2>3. CASE b # a /\ ~(b > a /\ b < more /\ kind[b] = "unknown")
    <3>1. kind'[b] = kind[b]
      BY <1>1, <1>2, <2>3
    <3> QED
      BY <1>1, <2>3, <3>1
  <2> QED
    BY <2>1, <2>2, <2>3
<1>8. /\ kind' \in [PlacesIn(image) -> {"unknown", "start", "continuation"}]
      /\ DOMAIN kind' = PlacesIn(image) /\ DOMAIN kind = PlacesIn(image)
  <2>1. DOMAIN kind' = PlacesIn(image) /\ kind' = [b \in PlacesIn(image) |-> kind'[b]]
    BY <1>1, <1>2
  <2> QED
    BY <1>1, <1>7, <2>1
<1>9. Starts' = Starts \cup {a} /\ a \notin Starts
  BY <1>4, <1>7, <1>8 DEF Starts
<1>10. /\ image' = image /\ EntryPoints' = EntryPoints /\ Within' = Within
       /\ \A x : /\ InImage(x)' <=> InImage(x)
                 /\ Valid(x)' <=> Valid(x)
                 /\ Successors(x)' = Successors(x)
                 /\ Targets(x)' = Targets(x)
  BY <1>1, ImageKept, EntriesGrow
<1>11. /\ labels = EntryPoints \cup UNION {ToSet(Targets(x)) : x \in Starts}
       /\ ToSet(worklist) \cup Starts \subseteq Within[Cardinality(Starts)]
       /\ \A x \in Follow : InImage(x) /\ Valid(x) /\ kind[x] = "unknown" => x \in ToSet(worklist)
       /\ \A b \in DOMAIN kind : kind[b] = "continuation" =>
            \E x \in Starts : x < b /\ b < x + image.code[x].length
  BY <1>1 DEF AnalysisInv, OnItsWay
<1>12. Follow' = Follow \cup Successors(a)
  BY <1>9, <1>10 DEF Follow
<1>13. labels' = EntryPoints' \cup UNION {ToSet(Targets(x))' : x \in Starts'}
  BY <1>2, <1>9, <1>10, <1>11
<1>14. ToSet(worklist') \cup Starts' \subseteq Within'[Cardinality(Starts')]
  <2> DEFINE n == Cardinality(Starts)
  <2>1. n \in 0..image.size /\ n < image.size /\ Cardinality(Starts') = n + 1 /\ image.size \in Nat
    BY <1>1, <1>4, <1>9, StartsFew, ImageBounds DEF AnalysisInv
  <2>2. a \in Within[n]
    BY <1>3, <1>11
  <2>3. Within[n] \subseteq Within[n + 1] /\ SuccessorsOf(image, a) \subseteq Within[n + 1]
    <3> HIDE DEF n
    <3> QED
      BY <2>1, <2>2, WithinGrows, OfTheImage
  <2>4. Successors(a) = SuccessorsOf(image, a)
    BY OfTheImage
  <2> HIDE DEF n
  <2>5. ToSet(worklist) \cup Starts \subseteq Within[n]
    BY <1>11 DEF n
  <2> QED
    BY <1>3, <1>6, <1>9, <1>10, <2>1, <2>2, <2>3, <2>4, <2>5
<1>15. ASSUME NEW x \in Follow', InImage(x)', Valid(x)', kind'[x] = "unknown" PROVE x \in ToSet(worklist')
  <2>1. x \in PlacesIn(image)
    <3>1. InImage(x)
      BY <1>10, <1>15
    <3>2. x \in Addresses
      <4>1. Follow \subseteq Addresses /\ Successors(a) \subseteq Addresses
        BY <1>1, <1>3, <1>4, FollowPlaces, SuccessorsPlaces DEF AnalysisInv
      <4> QED
        BY <1>12, <1>15, <4>1
    <3> QED
      BY <1>1, <3>1, <3>2, ImagePlaces
  <2>2. kind[x] = "unknown" /\ x # a
    BY <1>7, <1>15, <2>1
  <2> QED
    BY <1>3, <1>6, <1>10, <1>11, <1>12, <1>15, <2>2
<1>16. ASSUME NEW b \in DOMAIN kind', kind'[b] = "continuation"
       PROVE  \E x \in Starts' : x < b /\ b < x + image'.code[x].length
  BY <1>7, <1>8, <1>9, <1>10, <1>11, <1>16
<1>17. OnItsWay'
  BY <1>13, <1>14, <1>15, <1>16, Zenon DEF OnItsWay
<1>18. AnalysisTyped'
  <2>1. ToSet(Targets(a)) \subseteq Addresses
    BY <1>5, SetOfList
  <2>2. /\ analysis' \in Analyses /\ phase' = "traverse" /\ page' \in Addresses
        /\ tables' \in Seq(Seq(EntriesIn(image)))
    BY <1>1 DEF AnalysisInv, AnalysisTyped
  <2> QED
    BY <1>1, <1>2, <1>6, <1>8, <1>10, <2>1, <2>2 DEF AnalysisTyped
<1>19. PhaseRight'
  BY <1>1 DEF PhaseRight
<1>20. PagesRight'
  BY <1>1, PagesRightKept
<1> QED
  BY <1>17, <1>18, <1>19, <1>20 DEF AnalysisInv

\* The end of the traversal, and a step that is not the analysis'.
LEMMA NothingFound ==
  ASSUME AnalysisInv, UNCHANGED <<analysis, page, tables, kind, labels, worklist>>,
         \/ phase' = phase
         \/ phase = "traverse" /\ phase' = "done" /\ worklist = <<>>
  PROVE  AnalysisInv'
<1>1. /\ image' = image /\ mode' = mode /\ EntryPoints' = EntryPoints /\ Within' = Within /\ Starts' = Starts
      /\ \A x : /\ InImage(x)' <=> InImage(x)
                /\ Valid(x)' <=> Valid(x)
                /\ Successors(x)' = Successors(x)
                /\ Targets(x)' = Targets(x)
  BY ImageKept, EntriesGrow DEF Starts
<1>2. Follow' = Follow
  BY <1>1 DEF Follow
<1>3. phase' # "start" => phase # "start"
  OBVIOUS
<1>4. OnItsWay'
  <2>1. ASSUME phase' # "start"
        PROVE  /\ labels' = EntryPoints' \cup UNION {ToSet(Targets(x))' : x \in Starts'}
               /\ ToSet(worklist') \cup Starts' \subseteq Within'[Cardinality(Starts')]
               /\ \A x \in Follow' : InImage(x)' /\ Valid(x)' /\ kind'[x] = "unknown" => x \in ToSet(worklist')
    <3>1. /\ labels = EntryPoints \cup UNION {ToSet(Targets(x)) : x \in Starts}
          /\ ToSet(worklist) \cup Starts \subseteq Within[Cardinality(Starts)]
          /\ \A x \in Follow : InImage(x) /\ Valid(x) /\ kind[x] = "unknown" => x \in ToSet(worklist)
      BY <1>3, <2>1 DEF AnalysisInv, OnItsWay
    <3>2. labels' = EntryPoints' \cup UNION {ToSet(Targets(x))' : x \in Starts'}
      BY <1>1, <3>1
    <3> QED
      BY <1>1, <1>2, <3>1, <3>2
  <2>2. \A b \in DOMAIN kind' : kind'[b] = "continuation" =>
           \E x \in Starts' : x < b /\ b < x + image'.code[x].length
    BY <1>1 DEF AnalysisInv, OnItsWay
  <2> QED
    BY <2>1, <2>2, Zenon DEF OnItsWay
<1>5. AnalysisTyped'
  BY <1>1 DEF AnalysisInv, AnalysisTyped
<1>6. PhaseRight'
  BY <1>1 DEF AnalysisInv, PhaseRight
<1>7. PagesRight'
  BY PagesRightKept
<1> QED
  BY <1>4, <1>5, <1>6, <1>7 DEF AnalysisInv

\* Every step keeps the invariant.
LEMMA AnalysisStep ==
  ASSUME AnalysisInv, [AnalyzerNext]_analyzerVars
  PROVE  AnalysisInv'
<1>1. CASE AnalyzeProgram
  BY <1>1, ProgramStarts
<1>2. CASE AnalyzeBaseRom
  BY <1>2, BaseRomStarts
<1>3. CASE AnalyzeModuleRom
  BY <1>3, ModuleStarts
<1>4. CASE ScanPage
  BY <1>4, PageScanned
<1>5. CASE PagesEnd
  BY <1>5, PagesAreDone
<1>6. CASE Traverse
  <2>1. worklist # <<>>
    BY <1>6 DEF Traverse
  <2>2. CASE LET a == Head(worklist) IN ~InImage(a) \/ kind[a] # "unknown" \/ ~Valid(a)
    BY <1>6, <2>1, <2>2, Skipped
  <2>3. CASE ~LET a == Head(worklist) IN ~InImage(a) \/ kind[a] # "unknown" \/ ~Valid(a)
    <3>1. InImage(Head(worklist)) /\ kind[Head(worklist)] = "unknown" /\ Valid(Head(worklist))
      BY <2>3
    <3> QED
      BY <1>6, <2>1, <3>1, Decoded
  <2> QED
    BY <2>2, <2>3
<1>7. CASE AnalysisDone
  BY <1>7, NothingFound DEF AnalysisDone
<1>8. CASE UNCHANGED analyzerVars
  BY <1>8, NothingFound DEF analyzerVars
<1> QED
  BY <1>1, <1>2, <1>3, <1>4, <1>5, <1>6, <1>7, <1>8 DEF AnalyzerNext

LEMMA FoundRight ==
  ASSUME AnalysisInv
  PROVE  FoundExactly
<1> SUFFICES ASSUME phase = "done"
             PROVE  /\ Starts \subseteq Reachable
                    /\ \A a \in Follow : InImage(a) /\ Valid(a) => kind[a] # "unknown"
                    /\ \A b \in DOMAIN kind : kind[b] = "continuation" =>
                         \E a \in Starts : a < b /\ b < a + image.code[a].length
                    /\ labels = EntryPoints \cup UNION {ToSet(Targets(a)) : a \in Starts}
  BY Zenon DEF FoundExactly, Starts, Follow
<1>1. /\ labels = EntryPoints \cup UNION {ToSet(Targets(x)) : x \in Starts}
      /\ ToSet(worklist) \cup Starts \subseteq Within[Cardinality(Starts)]
      /\ \A x \in Follow : InImage(x) /\ Valid(x) /\ kind[x] = "unknown" => x \in ToSet(worklist)
      /\ \A b \in DOMAIN kind : kind[b] = "continuation" =>
            \E x \in Starts : x < b /\ b < x + image.code[x].length
  BY DEF AnalysisInv, OnItsWay
<1>2. ToSet(worklist) = {}
  BY SetOfNone DEF AnalysisInv, PhaseRight
<1>3. Within[Cardinality(Starts)] \subseteq Reachable
  <2> DEFINE n == Cardinality(Starts)
  <2>1. n \in 0..image.size /\ image.size \in Nat
    BY StartsFew, ImageBounds DEF AnalysisInv, AnalysisTyped
  <2> HIDE DEF n
  <2>2. WithinOf(image, EntryPoints)[n] \subseteq WithinOf(image, EntryPoints)[image.size]
    BY <2>1, WithinGrows
  <2> QED
    BY <2>2, OfTheImage DEF n, Reachable
<1> QED
  BY <1>1, <1>2, <1>3

LEMMA TablesRight ==
  ASSUME AnalysisInv
  PROVE  TablesAreWhole
<1> SUFFICES ASSUME phase = "done", mode = "module", NEW s \in image.sentinels
             PROVE  /\ SpotsOf(s) # {} => \E e \in ToSet(tables) : e[1] \in SpotsOf(s)
                    /\ \A e \in ToSet(tables), t \in SpotsOf(s) :
                         e[1] \in ToSet(Chain(t)) => t = e[1] \/ e[1] \notin (s + 1)..LastOf(s)
  BY Zenon DEF TablesAreWhole, SpotsOf, LastOf
<1>0. analysis \in Analyses /\ ImageRight(image)
  BY ImageIsRight DEF AnalysisInv, AnalysisTyped
<1>1. SpotsOf(s) # {} => \E e \in ToSet(tables) : e[1] \in SpotsOf(s)
  BY DEF AnalysisInv, PagesRight
<1>2. ASSUME NEW e \in ToSet(tables), NEW t \in SpotsOf(s), e[1] \in ToSet(Chain(t)), e[1] \in (s + 1)..LastOf(s)
      PROVE  t = e[1]
  <2>1. PICK p \in PageStarts : e[1] \in SpotsOf(p) /\ \A u \in SpotsOf(p) : e[1] <= u
    BY DEF AnalysisInv, PagesRight
  <2>2. /\ s \in PageStarts /\ s \in Nat /\ p \in Nat /\ PageSize \in Nat
        /\ End \in Nat /\ AddressSpace \in Nat /\ End <= AddressSpace
    BY <1>0, <2>1, SentinelsFound, ImageBounds DEF PageStarts, Addresses
  <2>3. e[1] \in (p + 1)..LastOf(p) /\ t \in (s + 1)..LastOf(s)
    BY <2>1 DEF SpotsOf
  <2>4. /\ LastOf(p) \in Int /\ LastOf(p) < p + PageSize /\ LastOf(s) \in Int /\ LastOf(s) < s + PageSize
        /\ LastOf(s) < AddressSpace
    BY <2>2 DEF LastOf
  <2>5. p = s
    <3>1. (p < s => p + PageSize <= s) /\ (s < p => s + PageSize <= p)
      BY <2>2, NextPage
    <3>2. e[1] \in Int /\ p < e[1] /\ e[1] < p + PageSize /\ s < e[1] /\ e[1] < s + PageSize
      BY <1>2, <2>2, <2>3, <2>4
    <3> QED
      BY <2>2, <3>1, <3>2
  <2>6. e[1] <= t
    BY <2>1, <2>5
  <2>7. t \in Addresses
    BY <2>2, <2>3, <2>4 DEF Addresses
  <2>8. t <= e[1]
    BY <1>0, <1>2, <2>7, ChainStarts, OfTheImage
  <2> QED
    BY <2>3, <2>6, <2>7, <2>8 DEF Addresses
<1> QED
  BY <1>1, <1>2

\* The analysis of every image is exact: what is decoded is what a processor can
\* reach, and the keyword tables of its pages are whole (analyzer.cpp).
THEOREM AnalysisAlwaysExact == AnalyzerSpec => []AnalysisIsExact
<1>1. AnalyzerInit => AnalysisInv
  BY StartRight
<1>2. AnalysisInv /\ [AnalyzerNext]_analyzerVars => AnalysisInv'
  BY AnalysisStep
<1>3. AnalysisInv => AnalysisIsExact
  BY FoundRight, TablesRight DEF AnalysisIsExact
<1> QED
  BY <1>1, <1>2, <1>3, PTL DEF AnalyzerSpec

\* What the analysis keeps is of its types.
THEOREM AnalysisAlwaysTyped == AnalyzerSpec => []AnalyzerTypeOK
<1>1. AnalyzerInit => AnalysisInv
  BY StartRight
<1>2. AnalysisInv /\ [AnalyzerNext]_analyzerVars => AnalysisInv'
  BY AnalysisStep
<1>3. AnalysisInv => AnalyzerTypeOK
  BY DEF AnalysisInv, AnalysisTyped, AnalyzerTypeOK
<1> QED
  BY <1>1, <1>2, <1>3, PTL DEF AnalyzerSpec
=============================================================================
