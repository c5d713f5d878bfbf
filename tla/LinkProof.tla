----------------------------- MODULE LinkProof -----------------------------
(***************************************************************************)
(* The Link's threads and its sessions, for any interleaving of their      *)
(* calls: the order of LinkCore's two mutexes; the answers of request()    *)
(* for any number of requesting threads, sequence numbers, requests and    *)
(* links; and HELLO, AUTH and pairing, for any number of links, pairings   *)
(* and frames: the two sides are on one session, and a key is kept by both *)
(* users' word.                                                            *)
(***************************************************************************)
EXTENDS LinkLocks, LinkRequest, LinkPairing, FiniteSetTheorems, SequenceTheorems, TLAPS

-----------------------------------------------------------------------------
(* The order of the locks.  A call is followed from where its thread is:   *)
(* lock m is held before step i of s when the next step on m releases it.  *)

Ops == [lock : Locks, take : BOOLEAN]

Held(s, i, m) ==
  \E k \in i..Len(s) : s[k] = Release(m) /\ \A j \in i..k - 1 : s[j].lock # m

\* Each lock is released once for every time it is taken, and the mutex is
\* not taken under sec.
Ordered(s) ==
  \A i \in 1..Len(s) : \A m \in Locks :
    /\ s[i] = Acquire(m) => Held(s, i + 1, m)
    /\ s[i] = Release(m) => ~Held(s, i + 1, m)
    /\ s[i] = Acquire("mutex") => ~Held(s, i, "sec")

\* A call, which begins with no lock held.
Proper == {s \in Seq(Ops) : Ordered(s) /\ \A m \in Locks : ~Held(s, 1, m)}

LEMMA OpsTyped ==
  \A m \in Locks : /\ Acquire(m) \in Ops /\ Release(m) \in Ops
                   /\ Acquire(m).lock = m /\ Release(m).lock = m
                   /\ Acquire(m).take /\ ~Release(m).take
BY DEF Acquire, Release, Ops

LEMMA BriefProper == ASSUME NEW m \in Locks PROVE Brief(m) \in Proper
<1> DEFINE s == Brief(m)
<1>1. s \in Seq(Ops) /\ Len(s) = 2 /\ s[1] = Acquire(m) /\ s[2] = Release(m)
  BY OpsTyped DEF Brief
<1> HIDE DEF s
<1>2. \A n \in Locks : ~Held(s, 1, n) /\ ~Held(s, 3, n) /\ (Held(s, 2, n) <=> n = m)
  BY <1>1, OpsTyped DEF Held, Acquire, Release
<1>3. Ordered(s)
  <2> SUFFICES ASSUME NEW i \in 1..2, NEW n \in Locks
               PROVE  /\ s[i] = Acquire(n) => Held(s, i + 1, n)
                      /\ s[i] = Release(n) => ~Held(s, i + 1, n)
                      /\ s[i] = Acquire("mutex") => ~Held(s, i, "sec")
    BY <1>1 DEF Ordered
  <2> QED BY <1>1, <1>2, OpsTyped, i = 1 \/ i = 2 DEF Acquire, Release, Locks
<1> QED BY <1>1, <1>2, <1>3 DEF Proper, s

LEMMA NestedProper == Nested("mutex", "sec") \in Proper
<1> DEFINE s == Nested("mutex", "sec")
<1>1. /\ s \in Seq(Ops) /\ Len(s) = 4 /\ s[1] = Acquire("mutex") /\ s[2] = Acquire("sec")
      /\ s[3] = Release("sec") /\ s[4] = Release("mutex")
  BY OpsTyped DEF Nested, Locks
<1> HIDE DEF s
<1>2. /\ \A m \in Locks : ~Held(s, 1, m) /\ ~Held(s, 5, m)
      /\ Held(s, 2, "mutex") /\ ~Held(s, 2, "sec")
      /\ Held(s, 3, "mutex") /\ Held(s, 3, "sec")
      /\ Held(s, 4, "mutex") /\ ~Held(s, 4, "sec")
  BY <1>1, OpsTyped DEF Held, Acquire, Release, Locks
<1>3. Ordered(s)
  <2> SUFFICES ASSUME NEW i \in 1..4, NEW n \in Locks
               PROVE  /\ s[i] = Acquire(n) => Held(s, i + 1, n)
                      /\ s[i] = Release(n) => ~Held(s, i + 1, n)
                      /\ s[i] = Acquire("mutex") => ~Held(s, i, "sec")
    BY <1>1 DEF Ordered
  <2> QED BY <1>1, <1>2, OpsTyped, i = 1 \/ i = 2 \/ i = 3 \/ i = 4 DEF Acquire, Release, Locks
<1> QED BY <1>1, <1>2, <1>3 DEF Proper, s

\* One call after another, or a call's parts: what is held in the first part
\* is what was, for the second begins with no lock held.
LEMMA HeldInParts ==
  ASSUME NEW s \in Seq(Ops), NEW t \in Seq(Ops), NEW m \in Locks, ~Held(t, 1, m)
  PROVE  /\ \A i \in 1..Len(s) + 1 : Held(s \o t, i, m) <=> Held(s, i, m)
         /\ \A i \in 1..Len(t) + 1 : Held(s \o t, Len(s) + i, m) <=> Held(t, i, m)
<1> DEFINE u == s \o t
<1>1. /\ Len(u) = Len(s) + Len(t) /\ Len(s) \in Nat /\ Len(t) \in Nat
      /\ \A i \in 1..Len(s) : u[i] = s[i]
      /\ \A i \in 1..Len(t) : u[Len(s) + i] = t[i]
  OBVIOUS
<1> HIDE DEF u
<1>2. ASSUME NEW i \in 1..Len(s) + 1, Held(s, i, m) PROVE Held(u, i, m)
  <2> PICK k \in i..Len(s) : s[k] = Release(m) /\ \A j \in i..k - 1 : s[j].lock # m
    BY <1>2 DEF Held
  <2>1. k \in i..Len(u) /\ u[k] = Release(m)
    BY <1>1
  <2>2. ASSUME NEW j \in i..k - 1 PROVE u[j].lock # m
    BY <1>1, j \in 1..Len(s)
  <2> QED BY <2>1, <2>2 DEF Held
<1>3. ASSUME NEW i \in 1..Len(t) + 1, Held(t, i, m) PROVE Held(u, Len(s) + i, m)
  <2> PICK k \in i..Len(t) : t[k] = Release(m) /\ \A j \in i..k - 1 : t[j].lock # m
    BY <1>3 DEF Held
  <2>1. ASSUME NEW j \in Len(s) + i..Len(s) + k - 1 PROVE u[j].lock # m
    <3>1. j - Len(s) \in i..k - 1 /\ j - Len(s) \in 1..Len(t) /\ Len(s) + (j - Len(s)) = j
      OBVIOUS
    <3> QED BY <1>1, <3>1
  <2>2. Len(s) + k \in Len(s) + i..Len(u) /\ u[Len(s) + k] = Release(m)
    BY <1>1
  <2> QED BY <2>1, <2>2 DEF Held
<1>4. ASSUME NEW i \in 1..Len(t) + 1, Held(u, Len(s) + i, m) PROVE Held(t, i, m)
  <2> PICK k \in Len(s) + i..Len(u) : u[k] = Release(m) /\ \A j \in Len(s) + i..k - 1 : u[j].lock # m
    BY <1>4 DEF Held
  <2>1. k - Len(s) \in i..Len(t) /\ t[k - Len(s)] = Release(m)
    BY <1>1, Len(s) + (k - Len(s)) = k
  <2>2. ASSUME NEW j \in i..(k - Len(s)) - 1 PROVE t[j].lock # m
    BY <1>1, Len(s) + j \in Len(s) + i..k - 1, j \in 1..Len(t)
  <2> QED BY <2>1, <2>2 DEF Held
<1>5. ASSUME NEW i \in 1..Len(s) + 1, Held(u, i, m) PROVE Held(s, i, m)
  <2> PICK k \in i..Len(u) : u[k] = Release(m) /\ \A j \in i..k - 1 : u[j].lock # m
    BY <1>5 DEF Held
  <2>1. CASE k <= Len(s)
    <3>1. k \in i..Len(s) /\ s[k] = Release(m)
      BY <1>1, <2>1
    <3>2. \A j \in i..k - 1 : s[j].lock # m
      BY <1>1, <2>1
    <3> QED BY <3>1, <3>2 DEF Held
  <2>2. CASE k > Len(s)
    <3>1. Held(u, Len(s) + 1, m)
      <4>1. k \in Len(s) + 1..Len(u) /\ \A j \in Len(s) + 1..k - 1 : j \in i..k - 1
        BY <1>1, <2>2
      <4> QED BY <4>1 DEF Held
    <3> QED BY <1>4, <3>1
  <2> QED BY <2>1, <2>2
<1> QED BY <1>2, <1>3, <1>4, <1>5 DEF u

LEMMA ConcatProper ==
  ASSUME NEW s \in Proper, NEW t \in Proper PROVE s \o t \in Proper
<1> DEFINE u == s \o t
<1>1. /\ s \in Seq(Ops) /\ t \in Seq(Ops) /\ Ordered(s) /\ Ordered(t)
      /\ \A m \in Locks : ~Held(s, 1, m) /\ ~Held(t, 1, m)
  BY DEF Proper
<1>2. /\ Len(u) = Len(s) + Len(t) /\ u \in Seq(Ops)
      /\ \A i \in 1..Len(s) : u[i] = s[i]
      /\ \A i \in 1..Len(t) : u[Len(s) + i] = t[i]
      /\ Len(s) \in Nat /\ Len(t) \in Nat
  BY <1>1
<1>3. \A m \in Locks :
        /\ \A i \in 1..Len(s) + 1 : Held(u, i, m) <=> Held(s, i, m)
        /\ \A i \in 1..Len(t) + 1 : Held(u, Len(s) + i, m) <=> Held(t, i, m)
  BY <1>1, HeldInParts
<1> HIDE DEF u
<1>4. ASSUME NEW i \in 1..Len(u), NEW m \in Locks
      PROVE  /\ u[i] = Acquire(m) => Held(u, i + 1, m)
             /\ u[i] = Release(m) => ~Held(u, i + 1, m)
             /\ u[i] = Acquire("mutex") => ~Held(u, i, "sec")
  <2>1. CASE i <= Len(s)
    <3>1. i \in 1..Len(s) /\ i \in 1..Len(s) + 1 /\ i + 1 \in 1..Len(s) + 1
      BY <1>2, <2>1
    <3>2. u[i] = s[i] /\ (Held(u, i + 1, m) <=> Held(s, i + 1, m)) /\ (Held(u, i, "sec") <=> Held(s, i, "sec"))
      BY <1>2, <1>3, <3>1 DEF Locks
    <3> QED BY <1>1, <3>1, <3>2 DEF Ordered
  <2>2. CASE i > Len(s)
    <3> DEFINE j == i - Len(s)
    <3>1. j \in 1..Len(t) /\ j + 1 \in 1..Len(t) + 1 /\ Len(s) + j = i /\ Len(s) + (j + 1) = i + 1
      BY <1>1, <1>2, <2>2
    <3> HIDE DEF j
    <3>2. u[i] = t[j] /\ (Held(u, i + 1, m) <=> Held(t, j + 1, m)) /\ (Held(u, i, "sec") <=> Held(t, j, "sec"))
      BY <1>1, <1>2, <1>3, <3>1 DEF Locks
    <3> QED BY <1>1, <3>1, <3>2 DEF Ordered
  <2> QED BY <1>2, <1>1, <2>1, <2>2
<1>5. \A m \in Locks : ~Held(u, 1, m)
  BY <1>1, <1>2, <1>3, 1 \in 1..Len(s) + 1
<1>6. Ordered(u)
  BY <1>4 DEF Ordered
<1> QED BY <1>2, <1>5, <1>6 DEF Proper, u

LEMMA CallsProper ==
  ASSUME ~BadFrames, NEW t \in Threads, NEW c \in Calls(t) PROVE c \in Proper
<1>1. Log \in Proper /\ Sealed \in Proper /\ AuthRefused \in Proper
  BY BriefProper DEF Log, Sealed, AuthRefused, Locks
<1>2. Brief("mutex") \in Proper /\ Brief("sec") \in Proper
  BY BriefProper DEF Locks
<1>3. FrameOpened \in Proper /\ LinkChanged \in Proper /\ RequestAnswered \in Proper
  BY <1>1, <1>2, NestedProper, ConcatProper DEF FrameOpened, LinkChanged, RequestAnswered
<1>4. TimedOut \in Proper /\ HelloServed \in Proper
  BY <1>1, <1>2, <1>3, ConcatProper DEF TimedOut, HelloServed
<1>5. AuthServed \in Proper /\ PairServed \in Proper /\ StatusAsked \in Proper
  BY <1>1, <1>2, NestedProper, ConcatProper DEF AuthServed, PairServed, StatusAsked
<1> QED
  BY <1>1, <1>2, <1>3, <1>4, <1>5 DEF Calls, Threads

-----------------------------------------------------------------------------
(* What each thread has left is in order, and it holds exactly what that   *)
(* releases.                                                               *)

LocksInv ==
  /\ owner \in [Locks -> Threads \cup {"nobody"}]
  /\ todo \in [Threads -> Seq(Ops)]
  /\ \A t \in Threads : Ordered(todo[t])
  /\ \A m \in Locks, t \in Threads : owner[m] = t <=> Held(todo[t], 1, m)

LEMMA HeldInTail ==
  ASSUME NEW s \in Seq(Ops), s # <<>>, NEW m \in Locks
  PROVE  \A i \in 1..Len(s) : Held(Tail(s), i, m) <=> Held(s, i + 1, m)
<1>1. /\ Len(s) \in Nat \ {0} /\ Len(Tail(s)) = Len(s) - 1
      /\ \A i \in 1..Len(s) - 1 : Tail(s)[i] = s[i + 1]
  OBVIOUS
<1> SUFFICES ASSUME NEW i \in 1..Len(s) PROVE Held(Tail(s), i, m) <=> Held(s, i + 1, m)
  OBVIOUS
<1>2. ASSUME Held(Tail(s), i, m) PROVE Held(s, i + 1, m)
  <2> PICK k \in i..Len(s) - 1 : Tail(s)[k] = Release(m) /\ \A j \in i..k - 1 : Tail(s)[j].lock # m
    BY <1>1, <1>2 DEF Held
  <2>1. ASSUME NEW j \in i + 1..k PROVE s[j].lock # m
    BY <1>1, j - 1 \in i..k - 1, j - 1 \in 1..Len(s) - 1, (j - 1) + 1 = j
  <2>2. k + 1 \in i + 1..Len(s) /\ s[k + 1] = Release(m) /\ (k + 1) - 1 = k
    BY <1>1
  <2> QED BY <2>1, <2>2 DEF Held
<1>3. ASSUME Held(s, i + 1, m) PROVE Held(Tail(s), i, m)
  <2> PICK k \in i + 1..Len(s) : s[k] = Release(m) /\ \A j \in i + 1..k - 1 : s[j].lock # m
    BY <1>3 DEF Held
  <2>1. ASSUME NEW j \in i..(k - 1) - 1 PROVE Tail(s)[j].lock # m
    BY <1>1, j + 1 \in i + 1..k - 1, j \in 1..Len(s) - 1
  <2>2. k - 1 \in i..Len(Tail(s)) /\ Tail(s)[k - 1] = Release(m)
    BY <1>1, (k - 1) + 1 = k, k - 1 \in 1..Len(s) - 1
  <2> QED BY <2>1, <2>2 DEF Held
<1> QED BY <1>2, <1>3

LEMMA LocksInitInv == LocksInit => LocksInv
<1>1. <<>> \in Seq(Ops) /\ Len(<<>>) = 0
  OBVIOUS
<1> QED BY <1>1 DEF LocksInit, LocksInv, Ordered, Held, Threads

LEMMA LocksNextInv == ~BadFrames /\ LocksInv /\ [LocksNext]_lockVars => LocksInv'
<1> SUFFICES ASSUME ~BadFrames, LocksInv, [LocksNext]_lockVars PROVE LocksInv'
  OBVIOUS
<1>1. ASSUME NEW t \in Threads, Call(t) PROVE LocksInv'
  <2> PICK c \in Calls(t) : todo' = [todo EXCEPT ![t] = c]
    BY <1>1 DEF Call
  <2>1. c \in Seq(Ops) /\ Ordered(c) /\ \A m \in Locks : ~Held(c, 1, m)
    BY CallsProper DEF Proper
  <2>2. \A m \in Locks : ~Held(<<>>, 1, m)
    <3>1. Len(<<>>) = 0
      OBVIOUS
    <3> QED BY <3>1 DEF Held
  <2>3. owner' = owner /\ todo[t] = <<>>
    BY <1>1 DEF Call
  <2> QED BY <2>1, <2>2, <2>3 DEF LocksInv
<1>2. ASSUME NEW t \in Threads, Step(t) PROVE LocksInv'
  <2> DEFINE s == todo[t]
             step == Head(s)
  <2>1. /\ s \in Seq(Ops) /\ s # <<>> /\ Len(s) \in Nat \ {0} /\ step = s[1] /\ step \in Ops
        /\ Tail(s) \in Seq(Ops) /\ Len(Tail(s)) = Len(s) - 1
        /\ \A i \in 1..Len(s) - 1 : Tail(s)[i] = s[i + 1]
    BY <1>2 DEF LocksInv, Step
  <2>2. /\ owner[step.lock] = IF step.take THEN "nobody" ELSE t
        /\ owner' = [owner EXCEPT ![step.lock] = IF step.take THEN t ELSE "nobody"]
        /\ todo' = [todo EXCEPT ![t] = Tail(s)]
    BY <1>2 DEF Step
  <2>3. Ordered(s) /\ \A m \in Locks : owner[m] = t <=> Held(s, 1, m)
    BY DEF LocksInv
  <2> HIDE DEF s, step
  <2>4. \A m \in Locks : Held(Tail(s), 1, m) <=> Held(s, 2, m)
    BY <2>1, HeldInTail, 1 \in 1..Len(s), 1 + 1 = 2
  <2>5. Ordered(Tail(s))
    <3> SUFFICES ASSUME NEW i \in 1..Len(s) - 1, NEW m \in Locks
                 PROVE  /\ Tail(s)[i] = Acquire(m) => Held(Tail(s), i + 1, m)
                        /\ Tail(s)[i] = Release(m) => ~Held(Tail(s), i + 1, m)
                        /\ Tail(s)[i] = Acquire("mutex") => ~Held(Tail(s), i, "sec")
      BY <2>1 DEF Ordered
    <3>1. i + 1 \in 1..Len(s) /\ i \in 1..Len(s) /\ Tail(s)[i] = s[i + 1]
      BY <2>1
    <3>2. /\ Held(Tail(s), i + 1, m) <=> Held(s, (i + 1) + 1, m)
          /\ Held(Tail(s), i, "sec") <=> Held(s, i + 1, "sec")
      BY <2>1, <3>1, HeldInTail DEF Locks
    <3> QED BY <2>3, <3>1, <3>2 DEF Ordered
  <2>6. step = IF step.take THEN Acquire(step.lock) ELSE Release(step.lock)
    BY <2>1 DEF Ops, Acquire, Release
  <2>7. IF step.take THEN Held(s, 2, step.lock) ELSE ~Held(s, 2, step.lock)
    BY <2>1, <2>3, <2>6, 1 \in 1..Len(s), 1 + 1 = 2 DEF Ordered, Ops
  <2>8. \A m \in Locks : m # step.lock => (Held(s, 1, m) <=> Held(s, 2, m))
    BY <2>1, <2>6, OpsTyped DEF Held, Ops
  <2>9. owner' \in [Locks -> Threads \cup {"nobody"}] /\ todo' \in [Threads -> Seq(Ops)]
    BY <2>1, <2>2 DEF LocksInv, Ops
  <2>10. \A u \in Threads : Ordered(todo'[u])
    BY <2>2, <2>5 DEF LocksInv
  <2>11. ASSUME NEW m \in Locks, NEW u \in Threads PROVE owner'[m] = u <=> Held(todo'[u], 1, m)
    <3> t # "nobody" /\ u # "nobody"
      BY DEF Threads
    <3>1. CASE u = t
      BY <3>1, <2>1, <2>2, <2>3, <2>4, <2>7, <2>8 DEF LocksInv, Ops
    <3>2. CASE u # t
      <4>1. todo'[u] = todo[u]
        BY <2>2, <3>2 DEF LocksInv
      <4> QED BY <4>1, <3>2, <2>1, <2>2 DEF LocksInv, Ops
    <3> QED BY <3>1, <3>2
  <2> QED BY <2>9, <2>10, <2>11 DEF LocksInv
<1>3. CASE UNCHANGED lockVars
  BY <1>3 DEF lockVars, LocksInv
<1> QED BY <1>1, <1>2, <1>3 DEF LocksNext

(* While every frame and proof verifies, the two mutexes are never waited  *)
(* for crosswise, whatever calls the four threads are in and however they  *)
(* interleave: a thread that takes mutex_ holds no sec_->m.                *)
THEOREM LocksKeepTheirOrder == ASSUME ~BadFrames PROVE LocksSpec => []NeverCrossed
<1>1. LocksInv => NeverCrossed
  <2> SUFFICES ASSUME LocksInv, NEW t \in Threads, NEW u \in Threads,
                      WaitsFor(t, u), WaitsFor(u, t)
               PROVE  FALSE
    BY DEF NeverCrossed
  <2>1. ASSUME NEW v \in Threads, todo[v] # <<>>, Head(todo[v]).take
        PROVE  LET m == Head(todo[v]).lock
               IN  m \in Locks /\ ~Held(todo[v], 1, m) /\ (m = "mutex" => ~Held(todo[v], 1, "sec"))
    <3> DEFINE s == todo[v]
               m == Head(s).lock
    <3>1. /\ s \in Seq(Ops) /\ Len(s) \in Nat \ {0} /\ Head(s) = s[1] /\ s[1] \in Ops /\ Ordered(s)
      BY <2>1 DEF LocksInv
    <3> HIDE DEF s
    <3>2. s[1] = Acquire(m) /\ m \in Locks
      BY <2>1, <3>1 DEF Acquire, Ops, s
    <3>3. ~Held(s, 1, m)
      BY <3>1, <3>2, OpsTyped DEF Held
    <3>4. m = "mutex" => ~Held(s, 1, "sec")
      BY <3>1, <3>2, 1 \in 1..Len(s) DEF Ordered
    <3> QED BY <3>2, <3>3, <3>4 DEF s
  <2>2. \A m \in Locks, v \in Threads : owner[m] = v <=> Held(todo[v], 1, m)
    BY DEF LocksInv
  <2> QED BY <2>1, <2>2 DEF WaitsFor, Locks
<1> QED BY <1>1, LocksInitInv, LocksNextInv, PTL DEF LocksSpec

-----------------------------------------------------------------------------
(* The answers.  A request is given another's answer only if one is left   *)
(* over; none is, for every answer on its way or in the slot is owed to a  *)
(* call that waits for one, and they all go with their link.               *)

OwnFrame(t)    == [id |-> calls[t].id, seq |-> calls[t].seq]
Waiting     == {t \in Requesters : calls[t].at \in {"waiting", "gaveUp"}}
UnderWay    == Len(toPeer) + Len(toUs) + (IF answerSlot.ready THEN 1 ELSE 0)

\* No call lives through the end of its link and the start of another.
OwnLink ==
  /\ ~requestLinked => UnderWay = 0
  /\ \A t \in Requesters : calls[t].at # "idle" /\ requestLinked => calls[t].gen = linkGen
Owed == UnderWay <= Cardinality(Waiting)
Numbered ==
  /\ \A t \in Requesters : calls[t].id <= requestsMade
  /\ \A n \in arrived : n <= requestsMade
  /\ \A i \in 1..Len(toPeer) : toPeer[i].id <= requestsMade
  /\ \A i \in 1..Len(toUs) : toUs[i].id <= requestsMade
AloneIsAlone ==
  \A t \in Requesters : calls[t].at # "idle" /\ calls[t].alone
    => \A u \in Requesters : u # t => calls[u].at = "idle"
AloneGetsItsOwn ==
  \A t \in Requesters : calls[t].alone =>
    /\ calls[t].at = "numbered" => calls[t].id \notin arrived
    /\ calls[t].at = "waiting" =>
         /\ \A i \in 1..Len(toPeer) : toPeer[i] = OwnFrame(t)
         /\ \A i \in 1..Len(toUs) : toUs[i] = OwnFrame(t)
         /\ answerSlot.ready => answerSlot.of = calls[t].id /\ answerSlot.seq = calls[t].seq
         /\ calls[t].id \in arrived => answerSlot.ready
    /\ calls[t].at = "answered" => answerSlot.of = calls[t].id

RequestInv ==
  RequestTypeOK /\ OwnLink /\ Owed /\ Numbered /\ AloneIsAlone /\ AloneGetsItsOwn

LEMMA ThreadsFinite ==
  ASSUME NEW W \in SUBSET Requesters PROVE IsFiniteSet(W) /\ Cardinality(W) \in Nat
<1>1. IsFiniteSet(W)
  BY FS_Subset, RequestAssumption
<1> QED BY <1>1, FS_CardinalityType

LEMMA WaitingFinite == IsFiniteSet(Waiting) /\ Cardinality(Waiting) \in Nat
BY ThreadsFinite DEF Waiting

LEMMA NoneOwed == UnderWay' = 0 => Owed'
<1>1. Cardinality(Waiting') \in Nat
  BY ThreadsFinite DEF Waiting
<1> QED BY <1>1 DEF Owed

LEMMA RequestInitInv == RequestInit => RequestInv
<1> SUFFICES ASSUME RequestInit PROVE RequestInv
  OBVIOUS
<1>1. UnderWay = 0
  BY DEF RequestInit, UnderWay
<1>2. NoCall \in RequestRecords
  BY RequestAssumption DEF RequestRecords, NoCall, Places
<1>3. answerSlot \in AnswerSlots
  BY RequestAssumption DEF RequestInit, AnswerSlots
<1>4. RequestTypeOK
  <2>1. 0 \in 0..SeqNumbers - 1 /\ <<>> \in Seq(RequestFrames)
    BY RequestAssumption
  <2>2. 0 \in 0..MaxRequests /\ 0 \in 0..MaxLinksUp
    BY RequestAssumption
  <2> QED BY <1>2, <1>3, <2>1, <2>2 DEF RequestInit, RequestTypeOK
<1> QED
  BY <1>1, <1>4, WaitingFinite
     DEF RequestInit, RequestInv, OwnLink, Owed, Numbered, AloneIsAlone, AloneGetsItsOwn, NoCall

(* What the steps the actions share do to calls, slot and link.            *)
LEMMA MoveEffect ==
  ASSUME RequestTypeOK, NEW t \in Requesters, NEW place \in Places, Move(t, place)
  PROVE  /\ calls' \in [Requesters -> RequestRecords]
         /\ calls'[t].at = place /\ calls'[t].id = calls[t].id /\ calls'[t].seq = calls[t].seq
         /\ calls'[t].gen = calls[t].gen /\ calls'[t].alone = calls[t].alone
         /\ \A u \in Requesters : u # t => calls'[u] = calls[u]
<1> DEFINE r == [calls[t] EXCEPT !.at = place]
<1>1. calls[t] \in RequestRecords /\ calls' = [calls EXCEPT ![t] = r]
  BY DEF RequestTypeOK, Move
<1>2. /\ r \in RequestRecords /\ r.at = place /\ r.id = calls[t].id /\ r.seq = calls[t].seq
      /\ r.gen = calls[t].gen /\ r.alone = calls[t].alone
  BY <1>1 DEF RequestRecords
<1> HIDE DEF r
<1> QED BY <1>1, <1>2 DEF RequestTypeOK

LEMMA ReturnEffect ==
  ASSUME RequestTypeOK, NEW t \in Requesters, Return(t)
  PROVE  /\ calls' \in [Requesters -> RequestRecords]
         /\ calls'[t].at = "idle" /\ calls'[t].id = 0 /\ calls'[t].alone
         /\ \A u \in Requesters : u # t => calls'[u] = calls[u]
<1>1. NoCall \in RequestRecords /\ NoCall.at = "idle" /\ NoCall.id = 0 /\ NoCall.alone
  BY RequestAssumption DEF RequestRecords, NoCall, Places
<1> QED BY <1>1 DEF RequestTypeOK, Return

LEMMA SlotCleared ==
  ASSUME RequestTypeOK, answerSlot' = [answerSlot EXCEPT !.ready = FALSE]
  PROVE  answerSlot' \in AnswerSlots /\ ~answerSlot'.ready /\ answerSlot'.of = answerSlot.of
BY DEF RequestTypeOK, AnswerSlots

LEMMA NumberEffect ==
  ASSUME RequestTypeOK, NEW t \in Requesters, Number(t)
  PROVE  /\ calls' \in [Requesters -> RequestRecords]
         /\ calls'[t].at = "numbered" /\ calls'[t].id = requestsMade + 1
         /\ calls'[t].gen = linkGen /\ calls'[t].alone = AllIdle
         /\ \A u \in Requesters : u # t =>
              /\ calls'[u].at = calls[u].at /\ calls'[u].id = calls[u].id
              /\ calls'[u].gen = calls[u].gen
              /\ calls'[u].alone = (calls[u].alone /\ calls[u].at = "idle")
<1> DEFINE r == [at |-> "numbered", id |-> requestsMade + 1, seq |-> txSeq,
                 gen |-> linkGen, alone |-> AllIdle]
           s(u) == [calls[u] EXCEPT !.alone = (calls[u].alone /\ calls[u].at = "idle")]
<1>1. /\ r \in RequestRecords /\ r.at = "numbered" /\ r.id = requestsMade + 1
      /\ r.gen = linkGen /\ r.alone = AllIdle
  BY RequestAssumption DEF RequestTypeOK, RequestRecords, Places, Number, AllIdle
<1>2. ASSUME NEW u \in Requesters
      PROVE  /\ s(u) \in RequestRecords /\ s(u).at = calls[u].at /\ s(u).id = calls[u].id
             /\ s(u).gen = calls[u].gen /\ s(u).alone = (calls[u].alone /\ calls[u].at = "idle")
  <2>1. calls[u] \in RequestRecords
    BY DEF RequestTypeOK
  <2> QED BY <2>1 DEF RequestRecords
<1>3. calls' = [u \in Requesters |-> IF u = t THEN r ELSE s(u)]
  BY DEF Number
<1> HIDE DEF r, s
<1> QED BY <1>1, <1>2, <1>3

LEMMA OnLinkEffect ==
  ASSUME RequestTypeOK, NEW u \in BOOLEAN, OnLink(u)
  PROVE  /\ requestLinked' = u /\ linkGen' \in Nat /\ txSeq' = 0 /\ answerSlot' \in AnswerSlots
         /\ toPeer' = <<>> /\ toUs' = <<>> /\ arrived' = {} /\ ~answerSlot'.ready
         /\ UnderWay' = 0 /\ answerSlot'.of = answerSlot.of
BY SlotCleared DEF OnLink, UnderWay, RequestTypeOK

LEMMA RequestTyped == RequestTypeOK /\ [RequestNext]_requestVars => RequestTypeOK'
<1> SUFFICES ASSUME RequestTypeOK, [RequestNext]_requestVars PROVE RequestTypeOK'
  OBVIOUS
<1>0. NextSeq \in 0..SeqNumbers - 1 /\ 0 \in 0..SeqNumbers - 1 /\ <<>> \in Seq(RequestFrames)
  BY RequestAssumption DEF NextSeq, RequestTypeOK
<1>1. ASSUME NEW t \in Requesters, Number(t) PROVE RequestTypeOK'
  <2>1. calls' \in [Requesters -> RequestRecords]
    BY <1>1, NumberEffect
  <2>2. answerSlot' \in AnswerSlots
    BY <1>1, SlotCleared DEF Number
  <2>3. /\ requestsMade' = requestsMade + 1 /\ requestsMade < MaxRequests /\ txSeq' = NextSeq
        /\ UNCHANGED <<requestLinked, linkGen, toPeer, toUs, linksUp, arrived>>
    BY <1>1 DEF Number
  <2>4. requestsMade' \in 0..MaxRequests
    BY <2>3, RequestAssumption DEF RequestTypeOK
  <2> QED
    BY <1>0, <2>1, <2>2, <2>3, <2>4 DEF RequestTypeOK
<1>2. ASSUME NEW t \in Requesters, Send(t) PROVE RequestTypeOK'
  <2>1. CASE requestLinked /\ Move(t, "waiting") /\ toPeer' = Append(toPeer, OwnFrame(t))
    <3>1. OwnFrame(t) \in RequestFrames
      BY <1>2 DEF Send, OwnFrame, RequestTypeOK, RequestRecords, RequestFrames
    <3> QED BY <1>2, <2>1, <3>1, MoveEffect DEF Send, RequestTypeOK, Places
  <2>2. CASE ~requestLinked /\ Return(t) /\ UNCHANGED toPeer
    BY <1>2, <2>2, ReturnEffect DEF Send, RequestTypeOK
  <2> QED BY <1>2, <2>1, <2>2 DEF Send, OwnFrame
<1>3. ASSUME NEW t \in Requesters, WaitEnds(t) PROVE RequestTypeOK'
  BY <1>3, MoveEffect, ReturnEffect, SlotCleared DEF WaitEnds, RequestTypeOK, Places, linkVars
<1>4. ASSUME NEW t \in Requesters, ReadAnswer(t) \/ TimesOut(t) PROVE RequestTypeOK'
  <2>1. /\ Return(t) \/ Move(t, "gaveUp")
        /\ UNCHANGED <<linkVars, answerSlot, requestsMade, linksUp>>
    BY <1>4 DEF ReadAnswer, TimesOut
  <2> QED BY <2>1, MoveEffect, ReturnEffect DEF RequestTypeOK, Places, linkVars
<1>5. ASSUME NEW t \in Requesters, DropLink(t) PROVE RequestTypeOK'
  BY <1>0, <1>5, ReturnEffect, OnLinkEffect DEF DropLink, RequestTypeOK
<1>6. CASE PeerAnswers
  <2>1. Head(toPeer) \in RequestFrames /\ Tail(toPeer) \in Seq(RequestFrames)
    BY <1>6 DEF PeerAnswers, RequestTypeOK
  <2> QED BY <1>6, <2>1 DEF PeerAnswers, RequestTypeOK
<1>7. CASE Deliver
  <2>1. Head(toUs) \in RequestFrames /\ Tail(toUs) \in Seq(RequestFrames)
    BY <1>7 DEF Deliver, RequestTypeOK
  <2>2. [ready |-> TRUE, seq |-> Head(toUs).seq, of |-> Head(toUs).id] \in AnswerSlots
        /\ Head(toUs).id \in 0..MaxRequests
    BY <2>1 DEF RequestFrames, AnswerSlots
  <2> QED BY <1>7, <2>1, <2>2 DEF Deliver, RequestTypeOK
<1>8. CASE RequestLinkLost \/ LinkUp
  <2>1. CASE RequestLinkLost
    BY <1>0, <2>1, OnLinkEffect DEF RequestLinkLost, RequestTypeOK
  <2>2. CASE LinkUp
    <3>1. OnLink(TRUE) /\ linksUp < MaxLinksUp /\ linksUp' = linksUp + 1 /\ UNCHANGED <<calls, requestsMade>>
      BY <2>2 DEF LinkUp
    <3>2. linksUp' \in 0..MaxLinksUp
      BY <3>1, RequestAssumption DEF RequestTypeOK
    <3> QED BY <1>0, <3>1, <3>2, OnLinkEffect DEF RequestTypeOK
  <2> QED BY <1>8, <2>1, <2>2
<1>9. CASE UNCHANGED requestVars
  BY <1>9 DEF requestVars, linkVars, RequestTypeOK
<1> QED BY <1>1, <1>2, <1>3, <1>4, <1>5, <1>6, <1>7, <1>8, <1>9 DEF RequestNext, Request

\* With the other threads idle there is at most one answer under way, and
\* none before this request's frame is sent or after its answer is taken.
LEMMA NothingUnderWay ==
  ASSUME RequestInv, \A u \in Requesters : calls[u].at \in {"idle", "numbered", "answered"}
  PROVE  UnderWay = 0 /\ toPeer = <<>> /\ toUs = <<>> /\ ~answerSlot.ready
<1>1. Cardinality(Waiting) = 0
  <2>1. Waiting = {}
    BY DEF Waiting
  <2> QED BY <2>1, FS_EmptySet
<1>2. Len(toPeer) \in Nat /\ Len(toUs) \in Nat
  BY DEF RequestInv, RequestTypeOK
<1>3. UnderWay = 0 /\ Len(toPeer) = 0 /\ Len(toUs) = 0 /\ ~answerSlot.ready
  BY <1>1, <1>2 DEF RequestInv, Owed, UnderWay
<1> QED BY <1>3 DEF RequestInv, RequestTypeOK

LEMMA OneUnderWay ==
  ASSUME RequestInv, NEW t \in Requesters, calls[t].at = "waiting", calls[t].alone
  PROVE  UnderWay <= 1
<1>1. Waiting = {t}
  BY DEF RequestInv, AloneIsAlone, Waiting
<1> QED BY <1>1, FS_Singleton DEF RequestInv, Owed

LEMMA WaitingChanges ==
  ASSUME NEW t \in Requesters, \A u \in Requesters : u # t => calls'[u] = calls[u]
  PROVE  /\ calls'[t].at \in {"waiting", "gaveUp"} => Waiting' = Waiting \cup {t}
         /\ calls'[t].at \notin {"waiting", "gaveUp"} => Waiting' = Waiting \ {t}
BY DEF Waiting

LEMMA IdsTyped ==
  ASSUME RequestTypeOK
  PROVE  /\ \A n \in arrived : n \in Nat
         /\ \A i \in 1..Len(toPeer) : toPeer[i] \in RequestFrames /\ toPeer[i].id \in Nat
         /\ \A i \in 1..Len(toUs) : toUs[i] \in RequestFrames /\ toUs[i].id \in Nat
<1>1. /\ \A i \in 1..Len(toPeer) : toPeer[i] \in RequestFrames
      /\ \A i \in 1..Len(toUs) : toUs[i] \in RequestFrames
  BY DEF RequestTypeOK
<1>2. \A f \in RequestFrames : f.id \in Nat
  BY DEF RequestFrames
<1>3. \A n \in arrived : n \in Nat
  BY DEF RequestTypeOK
<1> QED BY <1>1, <1>2, <1>3

LEMMA NumberInv == ASSUME RequestInv, NEW t \in Requesters, Number(t) PROVE RequestInv'
<1>1. RequestTypeOK'
  BY RequestTyped DEF RequestInv, RequestNext, Request
<1>2. /\ requestLinked /\ calls[t].at = "idle" /\ requestsMade' = requestsMade + 1
      /\ answerSlot' = [answerSlot EXCEPT !.ready = FALSE]
      /\ UNCHANGED <<requestLinked, linkGen, toPeer, toUs, linksUp, arrived>>
  BY DEF Number
<1>3. RequestTypeOK /\ requestsMade \in Nat
  BY RequestAssumption DEF RequestInv, RequestTypeOK
<1>4. /\ calls'[t].at = "numbered" /\ calls'[t].id = requestsMade + 1
      /\ calls'[t].gen = linkGen /\ (calls'[t].alone <=> AllIdle)
      /\ \A u \in Requesters : u # t =>
           /\ calls'[u].at = calls[u].at /\ calls'[u].id = calls[u].id
           /\ calls'[u].gen = calls[u].gen
           /\ calls'[u].alone => calls'[u].at = "idle"
  BY <1>3, NumberEffect
<1>5. ~answerSlot'.ready
  BY <1>2, <1>3, SlotCleared
<1>6. OwnLink'
  BY <1>2, <1>4 DEF RequestInv, OwnLink
<1>7. Owed'
  <2>1. Waiting' = Waiting
    BY <1>2, <1>4 DEF Waiting
  <2>2. UnderWay' <= UnderWay
    BY <1>2, <1>3, <1>5 DEF UnderWay, RequestTypeOK
  <2>3. UnderWay \in Nat /\ UnderWay' \in Nat
    BY <1>1, <1>3 DEF UnderWay, RequestTypeOK
  <2> QED BY <2>1, <2>2, <2>3, WaitingFinite DEF RequestInv, Owed
<1>8. Numbered'
  <2>1. ASSUME NEW n \in Nat, n <= requestsMade PROVE n <= requestsMade'
    BY <1>2, <1>3, <2>1
  <2>2. \A u \in Requesters : calls[u].id \in Nat
    BY <1>3 DEF RequestTypeOK, RequestRecords
  <2>3. /\ \A n \in arrived : n \in Nat
        /\ \A i \in 1..Len(toPeer) : toPeer[i].id \in Nat
        /\ \A i \in 1..Len(toUs) : toUs[i].id \in Nat
    BY <1>3, IdsTyped
  <2>4. \A u \in Requesters : calls'[u].id <= requestsMade'
    BY <1>2, <1>3, <1>4, <2>1, <2>2 DEF RequestInv, Numbered
  <2> QED BY <1>2, <2>1, <2>3, <2>4 DEF RequestInv, Numbered
<1>9. AloneIsAlone'
  BY <1>4 DEF AloneIsAlone, AllIdle
<1>10. AloneGetsItsOwn'
  <2>1. requestsMade + 1 \notin arrived
    BY <1>3 DEF RequestInv, Numbered, RequestTypeOK
  <2> QED BY <1>2, <1>4, <2>1 DEF AloneGetsItsOwn
<1> QED BY <1>1, <1>6, <1>7, <1>8, <1>9, <1>10 DEF RequestInv

\* Steps of t's own call past its number.  The others' calls stay, and are
\* idle if it is alone, so what is left to show is about t and the counts.
LEMMA OwnStepInv ==
  ASSUME RequestInv, RequestTypeOK', NEW t \in Requesters, calls[t].at # "idle",
         \A u \in Requesters : u # t => calls'[u] = calls[u],
         calls'[t].at = "idle" \/ (calls'[t].alone = calls[t].alone /\ calls'[t].gen = calls[t].gen),
         calls'[t].id \in {0, calls[t].id},
         UNCHANGED <<linkGen, requestLinked, arrived, requestsMade>> \/ (~requestLinked' /\ arrived' = {} /\ UNCHANGED requestsMade),
         ~requestLinked' => UnderWay' = 0,
         Owed',
         \A i \in 1..Len(toPeer') : toPeer'[i].id <= requestsMade,
         \A i \in 1..Len(toUs') : toUs'[i].id <= requestsMade,
         calls'[t].alone =>
           /\ calls'[t].at # "numbered"
           /\ calls'[t].at = "waiting" =>
                /\ \A i \in 1..Len(toPeer') : toPeer'[i] = OwnFrame(t)'
                /\ \A i \in 1..Len(toUs') : toUs'[i] = OwnFrame(t)'
                /\ answerSlot'.ready => answerSlot'.of = calls'[t].id /\ answerSlot'.seq = calls'[t].seq
                /\ calls'[t].id \in arrived' => answerSlot'.ready
           /\ calls'[t].at = "answered" => answerSlot'.of = calls'[t].id
  PROVE  RequestInv'
<1>1. OwnLink'
  BY DEF RequestInv, OwnLink
<1>2. Numbered'
  <2>1. requestsMade' = requestsMade /\ requestsMade \in Nat
    BY RequestAssumption DEF RequestInv, RequestTypeOK
  <2>2. \A u \in Requesters : calls'[u].id <= requestsMade
    BY <2>1 DEF RequestInv, Numbered
  <2> QED BY <2>1, <2>2 DEF RequestInv, Numbered
<1>3. AloneIsAlone'
  BY DEF RequestInv, AloneIsAlone
<1>4. AloneGetsItsOwn'
  <2>1. ASSUME NEW u \in Requesters, u # t, calls'[u].alone PROVE calls'[u].at = "idle"
    BY <2>1 DEF RequestInv, AloneIsAlone
  <2> QED BY <2>1 DEF AloneGetsItsOwn
<1> QED BY <1>1, <1>2, <1>3, <1>4 DEF RequestInv

LEMMA SendInv == ASSUME RequestInv, NEW t \in Requesters, Send(t) PROVE RequestInv'
<1>1. RequestTypeOK' /\ RequestTypeOK
  BY RequestTyped DEF RequestInv, RequestNext, Request
<1>2. /\ calls[t].at = "numbered"
      /\ UNCHANGED <<requestLinked, linkGen, txSeq, toUs, arrived, answerSlot, requestsMade, linksUp>>
  BY DEF Send
<1>3. CASE requestLinked /\ toPeer' = Append(toPeer, OwnFrame(t)) /\ Move(t, "waiting")
  <2>1. /\ calls'[t].at = "waiting" /\ calls'[t].id = calls[t].id /\ calls'[t].seq = calls[t].seq
        /\ calls'[t].gen = calls[t].gen /\ calls'[t].alone = calls[t].alone
        /\ \A u \in Requesters : u # t => calls'[u] = calls[u]
    BY <1>1, <1>3, MoveEffect DEF Places
  <2>2. Owed'
    <3>1. Waiting' = Waiting \cup {t} /\ t \notin Waiting
      BY <1>2, <2>1, WaitingChanges DEF Waiting
    <3>2. Cardinality(Waiting') = Cardinality(Waiting) + 1
      BY <3>1, WaitingFinite, FS_AddElement
    <3>3. UnderWay' = UnderWay + 1 /\ UnderWay \in Nat
      BY <1>1, <1>2, <1>3 DEF UnderWay, RequestTypeOK
    <3> QED BY <3>2, <3>3, WaitingFinite DEF RequestInv, Owed
  <2>3. /\ Len(toPeer') = Len(toPeer) + 1 /\ toPeer'[Len(toPeer) + 1] = OwnFrame(t)
        /\ \A i \in 1..Len(toPeer) : toPeer'[i] = toPeer[i]
        /\ Len(toPeer) \in Nat
    BY <1>1, <1>3 DEF RequestTypeOK
  <2>4. OwnFrame(t).id = calls[t].id /\ OwnFrame(t)' = OwnFrame(t)
    BY <2>1 DEF OwnFrame
  <2>5. \A i \in 1..Len(toPeer') : toPeer'[i].id <= requestsMade
    BY <2>3, <2>4 DEF RequestInv, Numbered
  <2>6. calls[t].alone => toPeer = <<>> /\ toUs = <<>> /\ ~answerSlot.ready /\ calls[t].id \notin arrived
    BY <1>2, NothingUnderWay DEF RequestInv, AloneIsAlone, AloneGetsItsOwn
  <2>7. toPeer = <<>> => Len(toPeer) = 0
    OBVIOUS
  <2>8. toUs = <<>> => Len(toUs) = 0
    OBVIOUS
  <2> HIDE DEF Owed
  <2>9. \A i \in 1..Len(toUs') : toUs'[i].id <= requestsMade
    BY <1>2 DEF RequestInv, Numbered
  <2>10. calls'[t].alone =>
           /\ \A i \in 1..Len(toPeer') : toPeer'[i] = OwnFrame(t)'
           /\ \A i \in 1..Len(toUs') : toUs'[i] = OwnFrame(t)'
           /\ ~answerSlot'.ready /\ calls'[t].id \notin arrived'
    BY <1>2, <2>1, <2>3, <2>4, <2>6, <2>7, <2>8
  <2> QED BY <1>1, <1>2, <1>3, <2>1, <2>2, <2>5, <2>9, <2>10, OwnStepInv
<1>4. CASE ~requestLinked /\ Return(t) /\ UNCHANGED toPeer
  <2>1. /\ calls'[t].at = "idle" /\ calls'[t].id = 0
        /\ \A u \in Requesters : u # t => calls'[u] = calls[u]
    BY <1>1, <1>4, ReturnEffect
  <2>2. UnderWay' = 0
    BY <1>2, <1>4 DEF RequestInv, OwnLink, UnderWay
  <2>3. Owed'
    BY <2>2, NoneOwed
  <2> QED BY <1>1, <1>2, <1>4, <2>1, <2>2, <2>3, OwnStepInv DEF RequestInv, Numbered
<1> QED BY <1>3, <1>4 DEF Send, OwnFrame

LEMMA WaitEndsInv == ASSUME RequestInv, NEW t \in Requesters, WaitEnds(t) PROVE RequestInv'
<1>1. RequestTypeOK' /\ RequestTypeOK
  BY RequestTyped DEF RequestInv, RequestNext, Request
<1>2. calls[t].at = "waiting" /\ UNCHANGED <<linkVars, requestsMade, linksUp>>
  BY <1>1 DEF WaitEnds
<1>3. CASE linkGen # calls[t].gen /\ Return(t) /\ UNCHANGED answerSlot
  <2>1. /\ calls'[t].at = "idle" /\ calls'[t].id = 0
        /\ \A u \in Requesters : u # t => calls'[u] = calls[u]
    BY <1>1, <1>3, ReturnEffect
  <2>2. UnderWay' = 0
    BY <1>2, <1>3 DEF RequestInv, OwnLink, UnderWay, linkVars
  <2> QED BY <1>1, <1>2, <2>1, <2>2, NoneOwed, OwnStepInv DEF RequestInv, Numbered, linkVars
<1>4. CASE HasAnswer(t) /\ answerSlot' = [answerSlot EXCEPT !.ready = FALSE] /\ Move(t, "answered")
  <2>1. /\ calls'[t].at = "answered" /\ calls'[t].id = calls[t].id
        /\ calls'[t].gen = calls[t].gen /\ calls'[t].alone = calls[t].alone
        /\ \A u \in Requesters : u # t => calls'[u] = calls[u]
    BY <1>1, <1>4, MoveEffect DEF Places
  <2>2. answerSlot.ready /\ ~answerSlot'.ready /\ answerSlot'.of = answerSlot.of
    BY <1>1, <1>4, SlotCleared DEF HasAnswer
  <2>3. Owed' /\ (~requestLinked' => UnderWay' = 0)
    <3>1. Waiting' = Waiting \ {t} /\ t \in Waiting
      BY <1>2, <2>1, WaitingChanges DEF Waiting
    <3>2. Cardinality(Waiting') = Cardinality(Waiting) - 1
      BY <3>1, WaitingFinite, FS_RemoveElement
    <3>3. UnderWay' = UnderWay - 1 /\ UnderWay \in Nat
      BY <1>1, <1>2, <2>2 DEF UnderWay, RequestTypeOK, linkVars
    <3>4. requestLinked
      BY <3>3, <2>2, <1>1 DEF RequestInv, OwnLink, UnderWay, RequestTypeOK
    <3> QED BY <1>2, <3>2, <3>3, <3>4, WaitingFinite DEF RequestInv, Owed, linkVars
  <2>4. calls[t].alone => answerSlot.of = calls[t].id
    BY <1>2, <2>2 DEF RequestInv, AloneGetsItsOwn
  <2> QED BY <1>1, <1>2, <2>1, <2>2, <2>3, <2>4, OwnStepInv DEF RequestInv, Numbered, linkVars
<1> QED BY <1>3, <1>4 DEF WaitEnds

LEMMA EndsInv ==
  ASSUME RequestInv, NEW t \in Requesters, ReadAnswer(t) \/ TimesOut(t) \/ DropLink(t)
  PROVE  RequestInv'
<1>1. RequestTypeOK' /\ RequestTypeOK
  BY RequestTyped DEF RequestInv, RequestNext, Request
<1>2. CASE ReadAnswer(t)
  <2>1. /\ calls[t].at = "answered" /\ Return(t)
        /\ UNCHANGED <<linkVars, answerSlot, requestsMade, linksUp>>
    BY <1>2 DEF ReadAnswer
  <2>2. /\ calls'[t].at = "idle" /\ calls'[t].id = 0
        /\ \A u \in Requesters : u # t => calls'[u] = calls[u]
    BY <1>1, <2>1, ReturnEffect
  <2>3. Waiting' = Waiting /\ UnderWay' = UnderWay
    BY <2>1, <2>2, WaitingChanges DEF Waiting, UnderWay, linkVars
  <2> QED BY <1>1, <2>1, <2>2, <2>3, OwnStepInv DEF RequestInv, Numbered, OwnLink, Owed, linkVars
<1>3. CASE TimesOut(t)
  <2>1. /\ calls[t].at = "waiting" /\ linkGen = calls[t].gen
        /\ IF requestLinked THEN Move(t, "gaveUp") ELSE Return(t)
        /\ UNCHANGED <<linkVars, answerSlot, requestsMade, linksUp>>
    BY <1>3 DEF TimesOut
  <2>2. UnderWay' = UnderWay
    BY <2>1 DEF UnderWay, linkVars
  <2>3. CASE requestLinked
    <3>1. /\ calls'[t].at = "gaveUp" /\ calls'[t].id = calls[t].id
          /\ calls'[t].gen = calls[t].gen /\ calls'[t].alone = calls[t].alone
          /\ \A u \in Requesters : u # t => calls'[u] = calls[u]
      BY <1>1, <2>1, <2>3, MoveEffect DEF Places
    <3>2. Waiting' = Waiting
      BY <2>1, <3>1, WaitingChanges DEF Waiting
    <3> QED
      BY <1>1, <2>1, <2>2, <2>3, <3>1, <3>2, OwnStepInv DEF RequestInv, Numbered, OwnLink, Owed, linkVars
  <2>4. CASE ~requestLinked
    <3>1. /\ calls'[t].at = "idle" /\ calls'[t].id = 0
          /\ \A u \in Requesters : u # t => calls'[u] = calls[u]
      BY <1>1, <2>1, <2>4, ReturnEffect
    <3>2. UnderWay' = 0
      BY <2>2, <2>4 DEF RequestInv, OwnLink
    <3> QED BY <1>1, <2>1, <3>1, <3>2, NoneOwed, OwnStepInv DEF RequestInv, Numbered, linkVars
  <2> QED BY <2>3, <2>4
<1>4. CASE DropLink(t)
  <2>1. calls[t].at = "gaveUp" /\ Return(t) /\ OnLink(FALSE) /\ UNCHANGED <<requestsMade, linksUp>>
    BY <1>4 DEF DropLink
  <2>2. /\ calls'[t].at = "idle" /\ calls'[t].id = 0
        /\ \A u \in Requesters : u # t => calls'[u] = calls[u]
    BY <1>1, <2>1, ReturnEffect
  <2>3. /\ ~requestLinked' /\ toPeer' = <<>> /\ toUs' = <<>> /\ arrived' = {} /\ UnderWay' = 0
    BY <1>1, <2>1, OnLinkEffect, Zenon
  <2>4. Len(toPeer') = 0 /\ Len(toUs') = 0
    BY <2>3
  <2> QED BY <1>1, <2>1, <2>2, <2>3, <2>4, NoneOwed, OwnStepInv
<1> QED BY <1>2, <1>3, <1>4

\* The peer answers what it was sent, in its order.
LEMMA PeerAnswersInv == RequestInv /\ PeerAnswers => RequestInv'
<1> SUFFICES ASSUME RequestInv, PeerAnswers PROVE RequestInv'
  OBVIOUS
<1>1. RequestTypeOK' /\ RequestTypeOK
  BY RequestTyped DEF RequestInv, RequestNext
<1>2. /\ toPeer # <<>> /\ toUs' = Append(toUs, Head(toPeer)) /\ toPeer' = Tail(toPeer)
      /\ UNCHANGED <<requestLinked, linkGen, txSeq, arrived, answerSlot, calls, requestsMade, linksUp>>
  BY DEF PeerAnswers
<1>3. /\ Len(toPeer) \in Nat \ {0} /\ Len(toUs) \in Nat
      /\ Len(toPeer') = Len(toPeer) - 1 /\ Len(toUs') = Len(toUs) + 1
      /\ \A i \in 1..Len(toPeer) - 1 : toPeer'[i] = toPeer[i + 1]
      /\ \A i \in 1..Len(toUs) : toUs'[i] = toUs[i]
      /\ toUs'[Len(toUs) + 1] = toPeer[1]
  BY <1>1, <1>2 DEF RequestTypeOK
<1>4. UnderWay' = UnderWay /\ Waiting' = Waiting
  BY <1>2, <1>3 DEF UnderWay, Waiting
<1>5. /\ \A i \in 1..Len(toPeer') : \E j \in 1..Len(toPeer) : toPeer'[i] = toPeer[j]
      /\ \A i \in 1..Len(toUs') : (\E j \in 1..Len(toUs) : toUs'[i] = toUs[j])
                                   \/ (\E j \in 1..Len(toPeer) : toUs'[i] = toPeer[j])
  <2>1. ASSUME NEW i \in 1..Len(toPeer') PROVE \E j \in 1..Len(toPeer) : toPeer'[i] = toPeer[j]
    BY <1>3, i \in 1..Len(toPeer) - 1, i + 1 \in 1..Len(toPeer)
  <2>2. ASSUME NEW i \in 1..Len(toUs')
        PROVE  (\E j \in 1..Len(toUs) : toUs'[i] = toUs[j])
                 \/ (\E j \in 1..Len(toPeer) : toUs'[i] = toPeer[j])
    BY <1>3, i \in 1..Len(toUs) \/ i = Len(toUs) + 1, 1 \in 1..Len(toPeer)
  <2> QED BY <2>1, <2>2
<1>6. OwnLink' /\ Owed' /\ AloneIsAlone'
  BY <1>2, <1>4 DEF RequestInv, OwnLink, Owed, AloneIsAlone
<1>7. Numbered'
  BY <1>2, <1>5 DEF RequestInv, Numbered
<1>8. AloneGetsItsOwn'
  BY <1>2, <1>5 DEF RequestInv, AloneGetsItsOwn, OwnFrame
<1> QED BY <1>1, <1>6, <1>7, <1>8 DEF RequestInv

LEMMA DeliverInv == RequestInv /\ Deliver => RequestInv'
<1> SUFFICES ASSUME RequestInv, Deliver PROVE RequestInv'
  OBVIOUS
<1>1. RequestTypeOK' /\ RequestTypeOK
  BY RequestTyped DEF RequestInv, RequestNext
<1>2. /\ toUs # <<>> /\ toUs' = Tail(toUs) /\ arrived' = arrived \cup {toUs[1].id}
      /\ answerSlot'.ready /\ answerSlot'.seq = toUs[1].seq /\ answerSlot'.of = toUs[1].id
      /\ UNCHANGED <<requestLinked, linkGen, txSeq, toPeer, calls, requestsMade, linksUp>>
  BY <1>1 DEF Deliver, RequestTypeOK
<1>3. /\ Len(toPeer) \in Nat /\ Len(toUs) \in Nat \ {0} /\ Len(toUs') = Len(toUs) - 1
      /\ \A i \in 1..Len(toUs) - 1 : toUs'[i] = toUs[i + 1]
  BY <1>1, <1>2 DEF RequestTypeOK
<1>4. UnderWay' \in Nat /\ UnderWay \in Nat \ {0} /\ UnderWay' <= UnderWay /\ Waiting' = Waiting
  BY <1>2, <1>3 DEF UnderWay, Waiting
<1>5. OwnLink'
  BY <1>2, <1>4 DEF RequestInv, OwnLink
<1>6. Owed'
  BY <1>4, WaitingFinite DEF RequestInv, Owed
<1>7. Numbered'
  <2>1. \A i \in 1..Len(toUs') : toUs'[i].id <= requestsMade
    BY <1>3 DEF RequestInv, Numbered
  <2>2. toUs[1].id <= requestsMade
    BY <1>3 DEF RequestInv, Numbered
  <2> QED BY <1>2, <2>1, <2>2 DEF RequestInv, Numbered
<1>8. AloneIsAlone'
  BY <1>2 DEF RequestInv, AloneIsAlone
<1>9. AloneGetsItsOwn'
  <2> SUFFICES ASSUME NEW t \in Requesters, calls[t].alone,
                      calls[t].at \in {"numbered", "waiting", "answered"}
               PROVE  /\ calls[t].at = "waiting"
                      /\ \A i \in 1..Len(toPeer) : toPeer[i] = OwnFrame(t)
                      /\ \A i \in 1..Len(toUs') : toUs'[i] = OwnFrame(t)
                      /\ toUs[1].id = calls[t].id /\ toUs[1].seq = calls[t].seq
    BY <1>2 DEF AloneGetsItsOwn, OwnFrame
  <2>1. calls[t].at = "waiting"
    BY <1>4, NothingUnderWay DEF RequestInv, AloneIsAlone
  <2>2. /\ \A i \in 1..Len(toPeer) : toPeer[i] = OwnFrame(t)
        /\ \A i \in 1..Len(toUs) : toUs[i] = OwnFrame(t)
    BY <2>1 DEF RequestInv, AloneGetsItsOwn
  <2>3. \A i \in 1..Len(toUs') : toUs'[i] = OwnFrame(t)
    BY <1>3, <2>2
  <2>4. toUs[1] = OwnFrame(t)
    BY <1>3, <2>2
  <2> QED BY <2>1, <2>2, <2>3, <2>4 DEF OwnFrame
<1> QED BY <1>1, <1>5, <1>6, <1>7, <1>8, <1>9 DEF RequestInv

\* A link lost, or one brought up while no call is made.
LEMMA LinkChangesInv ==
  ASSUME ~PeerReconnects, RequestInv, RequestLinkLost \/ LinkUp PROVE RequestInv'
<1>1. RequestTypeOK' /\ RequestTypeOK
  BY RequestTyped DEF RequestInv, RequestNext
<1>2. UNCHANGED <<calls, requestsMade>>
  BY DEF RequestLinkLost, LinkUp
<1>3. ~requestLinked' \/ AllIdle
  BY <1>1, OnLinkEffect DEF RequestLinkLost, LinkUp
<1>4. /\ toPeer' = <<>> /\ toUs' = <<>> /\ arrived' = {} /\ UnderWay' = 0 /\ ~answerSlot'.ready
      /\ answerSlot'.of = answerSlot.of
  BY <1>1, OnLinkEffect DEF RequestLinkLost, LinkUp
<1>5. Len(toPeer') = 0 /\ Len(toUs') = 0
  BY <1>4
<1>6. OwnLink' /\ Owed'
  BY <1>2, <1>3, <1>4, NoneOwed DEF OwnLink, AllIdle
<1>7. Numbered' /\ AloneIsAlone' /\ AloneGetsItsOwn'
  BY <1>2, <1>4, <1>5 DEF RequestInv, Numbered, AloneIsAlone, AloneGetsItsOwn
<1> QED BY <1>1, <1>6, <1>7 DEF RequestInv

LEMMA RequestNextInv == ~PeerReconnects /\ RequestInv /\ [RequestNext]_requestVars => RequestInv'
<1> SUFFICES ASSUME ~PeerReconnects, RequestInv, [RequestNext]_requestVars PROVE RequestInv'
  OBVIOUS
<1>1. CASE UNCHANGED requestVars
  BY <1>1 DEF requestVars, linkVars, RequestInv, RequestTypeOK, OwnLink, Owed, Numbered, AloneIsAlone,
     AloneGetsItsOwn, OwnFrame, Waiting, UnderWay
<1> QED
  BY <1>1, NumberInv, SendInv, WaitEndsInv, EndsInv, PeerAnswersInv, DeliverInv, LinkChangesInv
     DEF RequestNext, Request

(* Where the link cannot come up during a call, a request made while no    *)
(* other is under way returns the answer to itself, however the sequence   *)
(* numbers wrap and whatever links and timeouts came before it ...         *)
THEOREM RequestsGetTheirOwnAnswer == ASSUME ~PeerReconnects PROVE RequestSpec => []OwnAnswer
<1>1. RequestInv => OwnAnswer
  BY DEF RequestInv, AloneGetsItsOwn, OwnAnswer
<1> QED BY <1>1, RequestInitInv, RequestNextInv, PTL DEF RequestSpec

(* ... and does not time out, and cost the link, once its answer came in.  *)
THEOREM LoneRequestsAreNotMissed == ASSUME ~PeerReconnects PROVE RequestSpec => LoneAnswerTaken
<1>1. ASSUME RequestInv, [RequestNext]_requestVars, NEW t \in Requesters, TimesOut(t), calls[t].alone
      PROVE  calls[t].id \notin arrived
  BY <1>1 DEF TimesOut, HasAnswer, RequestInv, AloneGetsItsOwn
<1>2. RequestInv /\ [RequestNext]_requestVars
        => [\A t \in Requesters : TimesOut(t) /\ calls[t].alone => calls[t].id \notin arrived]_requestVars
  BY <1>1
<1> QED BY <1>2, RequestInitInv, RequestNextInv, PTL DEF RequestSpec, LoneAnswerTaken

-----------------------------------------------------------------------------
(* Queues of frames, whatever the frames are.                              *)

IsSeq(q) == q \in Seq(Range(q))

LEMMA SeqRange ==
  ASSUME NEW q, IsSeq(q)
  PROVE  /\ Len(q) \in Nat /\ \A i \in 1..Len(q) : q[i] \in Range(q)
         /\ \A e \in Range(q) : \E i \in 1..Len(q) : q[i] = e
BY DEF IsSeq, Range

LEMMA EmptyIsSeq == IsSeq(<<>>) /\ Range(<<>>) = {} /\ Len(<<>>) = 0
BY DEF IsSeq, Range

LEMMA AppendSeq ==
  ASSUME NEW q, IsSeq(q), NEW e
  PROVE  /\ IsSeq(Append(q, e)) /\ Range(Append(q, e)) = Range(q) \cup {e}
         /\ Len(Append(q, e)) = Len(q) + 1 /\ Append(q, e)[Len(q) + 1] = e
         /\ \A i \in 1..Len(q) : Append(q, e)[i] = q[i]
<1> DEFINE S == Range(q) \cup {e}
           r == Append(q, e)
<1>1. q \in Seq(S)
  BY DEF IsSeq
<1>2. /\ r \in Seq(S) /\ Len(r) = Len(q) + 1 /\ Len(q) \in Nat /\ r[Len(q) + 1] = e
      /\ \A i \in 1..Len(q) : r[i] = q[i]
  BY <1>1
<1>3. DOMAIN r = 1..Len(q) + 1 /\ DOMAIN q = 1..Len(q)
  BY <1>1, <1>2
<1> HIDE DEF r
<1>4. Range(r) = S
  <2>1. ASSUME NEW x \in S PROVE x \in Range(r)
    <3>1. CASE x = e
      BY <3>1, <1>2, <1>3, Len(q) + 1 \in DOMAIN r DEF Range
    <3>2. CASE x \in Range(q)
      <4>1. PICK i \in DOMAIN q : x = q[i]
        BY <3>2 DEF Range
      <4> QED BY <4>1, <1>2, <1>3, i \in DOMAIN r, r[i] = x DEF Range
    <3> QED BY <3>1, <3>2
  <2>2. Range(r) \subseteq S
    BY <1>2, <1>3 DEF Range
  <2> QED BY <2>1, <2>2
<1> QED BY <1>2, <1>4 DEF IsSeq, r

LEMMA TailSeq ==
  ASSUME NEW q, IsSeq(q), q # <<>>
  PROVE  /\ IsSeq(Tail(q)) /\ Range(q) = {Head(q)} \cup Range(Tail(q))
         /\ Len(q) \in Nat \ {0} /\ Len(Tail(q)) = Len(q) - 1 /\ Head(q) = q[1]
         /\ \A i \in 1..Len(q) - 1 : Tail(q)[i] = q[i + 1]
<1> DEFINE S == Range(q)
           r == Tail(q)
<1>1. q \in Seq(S)
  BY DEF IsSeq
<1>2. /\ r \in Seq(S) /\ Len(r) = Len(q) - 1 /\ Len(q) \in Nat \ {0} /\ Head(q) = q[1]
      /\ \A i \in 1..Len(q) - 1 : r[i] = q[i + 1]
  BY <1>1
<1>3. DOMAIN r = 1..Len(q) - 1 /\ DOMAIN q = 1..Len(q)
  BY <1>1, <1>2
<1> HIDE DEF r
<1>4. Range(q) = {q[1]} \cup Range(r)
  <2>1. ASSUME NEW x \in Range(q) PROVE x = q[1] \/ x \in Range(r)
    <3>1. PICK i \in DOMAIN q : x = q[i]
      BY DEF Range
    <3>2. CASE i = 1
      BY <3>1, <3>2
    <3>3. CASE i # 1
      BY <3>1, <3>3, <1>2, <1>3, i - 1 \in DOMAIN r, (i - 1) + 1 = i DEF Range
    <3> QED BY <3>2, <3>3
  <2>2. q[1] \in Range(q) /\ Range(r) \subseteq Range(q)
    BY <1>2, <1>3 DEF Range
  <2> QED BY <2>1, <2>2
<1>5. IsSeq(r)
  BY <1>2, SeqOfRange DEF IsSeq
<1> QED BY <1>2, <1>4, <1>5 DEF r

LEMMA RemoveAtSeq ==
  ASSUME NEW q, IsSeq(q), NEW i \in 1..Len(q)
  PROVE  /\ IsSeq(RemoveAt(q, i)) /\ Range(RemoveAt(q, i)) \subseteq Range(q)
         /\ Len(q) \in Nat \ {0} /\ Len(RemoveAt(q, i)) = Len(q) - 1
         /\ \A j \in 1..Len(q) - 1 : RemoveAt(q, i)[j] = IF j < i THEN q[j] ELSE q[j + 1]
<1> DEFINE S == Range(q)
           r == RemoveAt(q, i)
           a == SubSeq(q, 1, i - 1)
           b == SubSeq(q, i + 1, Len(q))
<1>1. q \in Seq(S) /\ Len(q) \in Nat \ {0}
  BY DEF IsSeq
<1>2. /\ a \in Seq(S) /\ Len(a) = i - 1 /\ \A j \in 1..i - 1 : a[j] = q[j]
      /\ b \in Seq(S) /\ Len(b) = Len(q) - i /\ \A j \in 1..Len(q) - i : b[j] = q[i + j]
  BY <1>1
<1> HIDE DEF a, b
<1>3. r = a \o b
  BY DEF RemoveAt, a, b
<1> HIDE DEF r
<1>4. /\ r \in Seq(S) /\ Len(r) = Len(q) - 1
      /\ \A j \in 1..Len(a) : r[j] = a[j]
      /\ \A j \in 1..Len(b) : r[Len(a) + j] = b[j]
  <2>1. a \o b \in Seq(S) /\ Len(a \o b) = Len(a) + Len(b)
    BY <1>2, ConcatProperties
  <2>2. \A j \in 1..Len(a) : (a \o b)[j] = a[j]
    BY <1>2
  <2>3. \A j \in 1..Len(b) : (a \o b)[Len(a) + j] = b[j]
    BY <1>2
  <2>4. Len(a) + Len(b) = Len(q) - 1
    BY <1>1, <1>2
  <2> QED BY <1>3, <2>1, <2>2, <2>3, <2>4
<1>5. ASSUME NEW j \in 1..Len(q) - 1 PROVE r[j] = IF j < i THEN q[j] ELSE q[j + 1]
  <2>1. CASE j < i
    BY <1>1, <1>2, <1>4, <2>1, j \in 1..i - 1
  <2>2. CASE ~(j < i)
    <3>1. j - (i - 1) \in 1..Len(b) /\ j = Len(a) + (j - (i - 1)) /\ i + (j - (i - 1)) = j + 1
      BY <1>1, <1>2, <2>2
    <3>2. r[j] = b[j - (i - 1)]
      BY <1>4, <3>1
    <3>3. b[j - (i - 1)] = q[j + 1]
      BY <1>2, <3>1
    <3> QED BY <2>2, <3>2, <3>3
  <2> QED BY <2>1, <2>2
<1>6. Range(r) \subseteq S /\ IsSeq(r)
  BY <1>4, SeqOfRange, RangeOfSeq DEF IsSeq
<1> QED BY <1>1, <1>4, <1>5, <1>6 DEF r

TwoLonger(r, q, e, f) ==
  /\ IsSeq(r) /\ Range(r) = Range(q) \cup {e, f} /\ Len(q) \in Nat /\ Len(r) = Len(q) + 2
  /\ r[Len(q) + 1] = e /\ r[Len(q) + 2] = f /\ \A i \in 1..Len(q) : r[i] = q[i]

LEMMA TwoAppended ==
  ASSUME NEW q, IsSeq(q), NEW e, NEW f, NEW r, r = q \o <<e, f>>
  PROVE  TwoLonger(r, q, e, f)
<1> DEFINE S == Range(q) \cup {e, f}
           a == Append(q, e)
<1>1. r = Append(a, f)
  <2>1. q \in Seq(S) /\ <<e, f>> \in Seq(S) /\ e \in S /\ f \in S
    BY DEF IsSeq
  <2> QED BY <2>1
<1>2. /\ IsSeq(a) /\ Range(a) = Range(q) \cup {e} /\ Len(a) = Len(q) + 1 /\ a[Len(q) + 1] = e
      /\ \A i \in 1..Len(q) : a[i] = q[i]
  BY AppendSeq
<1>3. Len(q) \in Nat
  BY SeqRange
<1> HIDE DEF a
<1>4. /\ IsSeq(r) /\ Range(r) = Range(a) \cup {f} /\ Len(r) = Len(a) + 1 /\ r[Len(a) + 1] = f
      /\ \A i \in 1..Len(a) : r[i] = a[i]
  <2>1. /\ IsSeq(Append(a, f)) /\ Range(Append(a, f)) = Range(a) \cup {f}
        /\ Len(Append(a, f)) = Len(a) + 1 /\ Append(a, f)[Len(a) + 1] = f
        /\ \A i \in 1..Len(a) : Append(a, f)[i] = a[i]
    BY <1>2, AppendSeq
  <2> QED BY <1>1, <2>1, Zenon
<1>5. Range(r) = Range(q) \cup {e, f}
  BY <1>2, <1>4
<1>6. Len(r) = Len(q) + 2 /\ r[Len(q) + 2] = f
  BY <1>2, <1>3, <1>4
<1>7. \A i \in 1..Len(q) : r[i] = q[i]
  BY <1>2, <1>3, <1>4
<1>8. r[Len(q) + 1] = e
  BY <1>2, <1>3, <1>4
<1> QED BY <1>3, <1>4, <1>5, <1>6, <1>7, <1>8 DEF TwoLonger

-----------------------------------------------------------------------------
(* The inductive invariant.  Pairings: a key the advertiser stored, both   *)
(* users confirmed, and only such a key is acknowledged to the connector.  *)

Pending == Range(toS) \cup {taken}   \* what the server thread has still to serve
Coming  == Range(toC) \cup {answer}  \* what the connector has still to look at

StoredByBoth == stored \subseteq yes["C"] \cap yes["S"]
KeptIsStored == \A s \in Sides : kept[s] # NoKey => kept[s] \in stored
SaidYes      == adv.said = "yes" => adv.key \in yes["S"]
ConfirmedByUser ==
  \A f \in Pending : f.kind = "CONFIRM" /\ f.data[1] = 1 => f.data[2] \in yes["C"]
AckedIsStored ==
  \A f \in Coming : f.kind = "ACK" /\ Len(f.data) = 2 => f.data[2] \in stored

PairingInv == StoredByBoth /\ KeptIsStored /\ SaidYes /\ ConfirmedByUser /\ AckedIsStored

(* Sessions: the nonces of the HELLOs to be served grow, up to the         *)
(* connector's own, so that once one answers that, no other is to be       *)
(* served and the advertiser's nonces are those the connector goes by.     *)
NoHelloPending == \A f \in Pending : f.kind # "HELLO"
HellosGrow ==
  /\ nonces["C"][1] \in 0..parts
  /\ \A f \in Pending : f.kind = "HELLO" => f.data[1] \in 1..nonces["C"][1]
  /\ \A j \in 1..Len(toS) : toS[j].kind = "HELLO" =>
       /\ taken.kind = "HELLO" => taken.data[1] < toS[j].data[1]
       /\ \A i \in 1..j - 1 : toS[i].kind = "HELLO" => toS[i].data[1] < toS[j].data[1]
HelloIsAnswered ==
  \A f \in Range(toC) : f.kind = "HELLO" =>
    /\ f.data[3] \in 1..nonces["C"][1]
    /\ f.data[3] = nonces["C"][1] =>
         nonces["S"] = <<nonces["C"][1], f.data[1]>> /\ NoHelloPending

(* An answer to a lost link's frame, which the server thread had taken, may*)
(* carry the number of one not yet sent on this link: it comes in before   *)
(* the answer to the HELLO.                                                *)
NoStale == taken.seq <= seqC /\ \A f \in Range(toC) : f.kind \in Answers => f.seq <= seqC
AnswersInOrder ==
  /\ \A f \in Range(toS) : f.kind \notin Answers => f.seq <= seqC
  /\ Answered \/ con.active => NoStale
  /\ \A i \in 1..Len(toC) : toC[i].kind \in Answers /\ toC[i].seq = seqC =>
       /\ taken.seq <= seqC
       /\ \A j \in i + 1..Len(toC) : toC[j].kind \in Answers => toC[j].seq <= seqC

(* So the acknowledgement the connector's AUTH waits for is that AUTH's.   *)
Proof(f) == f.data = <<con.ltk, nonces["C"][1], nonces["C"][2]>>
Agreed   == [on |-> TRUE, key |-> con.ltk, nc |-> nonces["C"][1], ns |-> nonces["C"][2]]
AuthInv ==
  /\ session["C"].on => doing = "idle" /\ ~con.active
  /\ con.active => doing \in {"idle", "confirm"}
  /\ doing = "auth" \/ session["C"].on => NoHelloPending /\ nonces["S"] = nonces["C"]
  /\ doing = "auth" =>
       /\ seqC # 0
       /\ \A f \in Pending : f.seq = seqC /\ f.kind \notin Answers => f.kind = "AUTH" /\ Proof(f)
       /\ \A f \in Coming : f.kind = "ACK" /\ f.seq = seqC => session["S"] = Agreed

SessionInv == HellosGrow /\ HelloIsAnswered /\ AnswersInOrder /\ AuthInv /\ SameSession

(* The shape of the state, and what is left of it without a link.          *)
Shapes ==
  /\ \A f \in {kept, yes, session, nonces} : DOMAIN f = Sides
  /\ con = [active |-> con.active, key |-> con.key, ltk |-> con.ltk, wants |-> con.wants]
  /\ adv = [step |-> adv.step, said |-> adv.said, key |-> adv.key] /\ adv.said \in {"none", "yes", "no"}
  /\ IsSeq(toS) /\ IsSeq(toC)
  /\ seqC \in Nat /\ seqS \in Nat /\ parts \in Nat
  /\ \A f \in Pending \cup Coming : f.seq \in Nat
DownIsDown ==
  ~up => toS = <<>> /\ toC = <<>> /\ doing = "idle" /\ ~con.active /\ ~session["C"].on
           /\ answer = NoSlot

PairInv == Shapes /\ DownIsDown /\ PairingInv /\ SessionInv

LEMMA PairInitInv == PairInit => PairInv
<1> SUFFICES ASSUME PairInit PROVE PairInv
  OBVIOUS
<1> USE EmptyIsSeq DEF PairInit
<1>1. Pending = {NoFrame} /\ Coming = {NoSlot}
  BY DEF Pending, Coming
<1>2. NoFrame.kind = "NONE" /\ NoFrame.seq = 0 /\ NoSlot.kind = "none" /\ NoSlot.seq = 0
  BY DEF NoFrame, NoSlot, PFrame
<1>3. Shapes
  BY <1>1, <1>2 DEF Shapes, NoCon, NoAdv
<1>4. DownIsDown
  BY DEF DownIsDown, NoCon, Down, Sides
<1>5. PairingInv
  BY <1>1, <1>2 DEF PairingInv, StoredByBoth, KeptIsStored, SaidYes, ConfirmedByUser, AckedIsStored, NoAdv
<1>6. SessionInv
  BY <1>1, <1>2 DEF SessionInv, HellosGrow, HelloIsAnswered, AnswersInOrder, AuthInv, SameSession,
     Sides, Answered, NoCon, Down, Answers
<1> QED BY <1>3, <1>4, <1>5, <1>6 DEF PairInv

\* A lost link, and a new one before its HELLO.
LEMMA DropInv == ASSUME PairInv, Drop, UNCHANGED ghosts PROVE PairInv'
<1>1. /\ ~up' /\ toS' = <<>> /\ toC' = <<>> /\ seqC' = 0 /\ seqS' = 0 /\ con' = NoCon /\ adv' = NoAdv
      /\ session' = [s \in Sides |-> Down] /\ doing' = "idle" /\ answer' = NoSlot
      /\ UNCHANGED <<taken, kept, nonces, parts, yes, stored>>
  BY DEF Drop, Reset, ghosts
<1>2. Pending' = {taken} /\ Coming' = {NoSlot} /\ taken \in Pending
  BY <1>1, EmptyIsSeq DEF Pending, Coming
<1>3. NoSlot.kind = "none" /\ NoSlot.seq = 0
  BY DEF NoSlot
<1>4. Shapes'
  BY <1>1, <1>2, <1>3, EmptyIsSeq DEF PairInv, Shapes, NoCon, NoAdv
<1>5. DownIsDown'
  BY <1>1 DEF DownIsDown, NoCon, Down, Sides
<1>6. PairingInv'
  BY <1>1, <1>2, <1>3
     DEF PairInv, PairingInv, StoredByBoth, KeptIsStored, SaidYes, ConfirmedByUser, AckedIsStored, NoAdv
<1>7. HellosGrow' /\ HelloIsAnswered'
  BY <1>1, <1>2, EmptyIsSeq DEF PairInv, SessionInv, HellosGrow, HelloIsAnswered
<1>8. AnswersInOrder' /\ AuthInv' /\ SameSession'
  BY <1>1, <1>2, <1>3, EmptyIsSeq
     DEF AnswersInOrder, AuthInv, SameSession, Answered, NoCon, Down, Sides
<1> QED BY <1>4, <1>5, <1>6, <1>7, <1>8 DEF PairInv, SessionInv

\* A request of the connector, when no stale answer can be taken for its.
LEMMA RequestSent ==
  ASSUME PairInv, NoStale, NEW kind, NEW data, kind # "HELLO", kind \notin Answers,
         toS' = Append(toS, PFrame(kind, seqC + 1, data)), seqC' = seqC + 1, answer' = NoSlot,
         UNCHANGED <<toC, taken, nonces, parts>>
  PROVE  /\ Pending' = Pending \cup {PFrame(kind, seqC + 1, data)} /\ Coming' \subseteq Coming \cup {NoSlot}
         /\ IsSeq(toS') /\ IsSeq(toC') /\ seqC' \in Nat /\ \A f \in Pending' \cup Coming' : f.seq \in Nat
         /\ HellosGrow' /\ HelloIsAnswered' /\ AnswersInOrder'
<1> DEFINE new == PFrame(kind, seqC + 1, data)
<1>1. new.kind = kind /\ new.seq = seqC + 1 /\ NoSlot.kind = "none" /\ NoSlot.seq = 0
  BY DEF PFrame, NoSlot
<1>2. IsSeq(toS) /\ IsSeq(toC) /\ seqC \in Nat /\ \A f \in Pending \cup Coming : f.seq \in Nat
  BY DEF PairInv, Shapes
<1> HIDE DEF new
<1>3. /\ IsSeq(toS') /\ Range(toS') = Range(toS) \cup {new}
      /\ Len(toS') = Len(toS) + 1 /\ toS'[Len(toS) + 1] = new /\ Len(toS) \in Nat
      /\ \A i \in 1..Len(toS) : toS'[i] = toS[i]
  BY <1>2, AppendSeq, SeqRange DEF new
<1>4. Pending' = Pending \cup {new} /\ Coming' \subseteq Coming \cup {NoSlot}
  BY <1>3 DEF Pending, Coming
<1>5. HellosGrow'
  <2>1. \A f \in Pending' : f.kind = "HELLO" => f.data[1] \in 1..nonces["C"][1]
    BY <1>1, <1>4 DEF PairInv, SessionInv, HellosGrow
  <2>2. ASSUME NEW j \in 1..Len(toS'), toS'[j].kind = "HELLO"
        PROVE  /\ taken.kind = "HELLO" => taken.data[1] < toS'[j].data[1]
               /\ \A i \in 1..j - 1 : toS'[i].kind = "HELLO" => toS'[i].data[1] < toS'[j].data[1]
    <3>1. j \in 1..Len(toS)
      BY <1>1, <1>3, <2>2
    <3> QED BY <1>3, <2>2, <3>1 DEF PairInv, SessionInv, HellosGrow
  <2> QED BY <2>1, <2>2 DEF PairInv, SessionInv, HellosGrow
<1>6. HelloIsAnswered'
  BY <1>1, <1>4 DEF PairInv, SessionInv, HelloIsAnswered, NoHelloPending
<1>7. AnswersInOrder'
  <2>1. \A f \in Range(toC) \cup {taken} : f.seq \in Nat
    BY <1>2 DEF Pending, Coming
  <2>2. \A f \in Range(toS) : f.seq \in Nat
    BY <1>2 DEF Pending
  <2>3. NoStale'
    BY <1>2, <2>1 DEF NoStale
  <2>4. \A i \in 1..Len(toC) : toC[i].kind \in Answers => toC[i].seq # seqC + 1
    BY <1>2, <2>1, SeqRange DEF NoStale
  <2>5. \A f \in Range(toS') : f.kind \notin Answers => f.seq <= seqC'
    BY <1>1, <1>2, <1>3, <2>2 DEF PairInv, SessionInv, AnswersInOrder
  <2> QED BY <2>3, <2>4, <2>5 DEF AnswersInOrder
<1> QED BY <1>1, <1>2, <1>3, <1>4, <1>5, <1>6, <1>7 DEF new

\* An answer of the advertiser to the frame it served.
LEMMA ReplySent ==
  ASSUME PairInv, NEW kind \in {"ACK", "ERR", "BUSY"}, NEW data,
         taken' = NoFrame, Reply(kind, data),
         parts' \in {parts, parts + 1}, UNCHANGED <<toS, seqC, answer, nonces, con>>
  PROVE  /\ Pending' \subseteq Pending \cup {NoFrame}
         /\ Coming' \subseteq Coming \cup {PFrame(kind, taken.seq, data)}
         /\ IsSeq(toC') /\ \A f \in Pending' \cup Coming' : f.seq \in Nat
         /\ toC' = toC \/ up
         /\ HellosGrow' /\ HelloIsAnswered' /\ AnswersInOrder'
<1> DEFINE new == PFrame(kind, taken.seq, data)
<1>1. new.kind = kind /\ new.seq = taken.seq /\ NoFrame.kind = "NONE" /\ NoFrame.seq = 0
  BY DEF PFrame, NoFrame
<1>2. /\ IsSeq(toS) /\ IsSeq(toC) /\ seqC \in Nat /\ \A f \in Pending \cup Coming : f.seq \in Nat
      /\ taken.seq \in Nat
  BY DEF PairInv, Shapes, Pending
<1>5. nonces'["C"][1] \in 0..parts'
  <2>1. nonces["C"][1] \in 0..parts /\ parts \in Nat
    BY DEF PairInv, Shapes, SessionInv, HellosGrow
  <2> QED BY <2>1
<1>3. CASE toC' = toC
  <2>1. Pending' \subseteq Pending \cup {NoFrame} /\ Coming' = Coming
    BY <1>3 DEF Pending, Coming
  <2>2. HellosGrow' /\ HelloIsAnswered'
    BY <1>1, <1>3, <1>5, <2>1 DEF PairInv, SessionInv, HellosGrow, HelloIsAnswered, NoHelloPending
  <2>3. AnswersInOrder'
    BY <1>1, <1>2, <1>3 DEF PairInv, SessionInv, AnswersInOrder, NoStale, Answered
  <2> QED BY <1>1, <1>2, <1>3, <2>1, <2>2, <2>3
<1>4. CASE up /\ toC' = Append(toC, new)
  <2> HIDE DEF new
  <2>1. /\ IsSeq(toC') /\ Range(toC') = Range(toC) \cup {new}
        /\ Len(toC') = Len(toC) + 1 /\ toC'[Len(toC) + 1] = new /\ Len(toC) \in Nat
        /\ \A i \in 1..Len(toC) : toC'[i] = toC[i]
    BY <1>2, <1>4, AppendSeq, SeqRange
  <2>2. Pending' \subseteq Pending \cup {NoFrame} /\ Coming' = Coming \cup {new}
    BY <2>1 DEF Pending, Coming
  <2>3. HellosGrow'
    BY <1>1, <1>5, <2>2 DEF PairInv, SessionInv, HellosGrow
  <2>4. HelloIsAnswered'
    BY <1>1, <2>1, <2>2 DEF PairInv, SessionInv, HelloIsAnswered, NoHelloPending
  <2>5. AnswersInOrder'
    <3>1. Answered' \/ con'.active => NoStale'
      BY <1>1, <1>2, <2>1 DEF PairInv, SessionInv, AnswersInOrder, NoStale, Answered
    <3>2. ASSUME NEW i \in 1..Len(toC'), toC'[i].kind \in Answers, toC'[i].seq = seqC
          PROVE  \A j \in i + 1..Len(toC') : toC'[j].kind \in Answers => toC'[j].seq <= seqC
      <4>1. CASE i = Len(toC) + 1
        BY <2>1, <4>1
      <4>2. CASE i \in 1..Len(toC)
        <5>1. /\ taken.seq <= seqC
              /\ \A j \in i + 1..Len(toC) : toC[j].kind \in Answers => toC[j].seq <= seqC
          BY <2>1, <3>2, <4>2 DEF PairInv, SessionInv, AnswersInOrder
        <5> QED BY <1>1, <2>1, <4>2, <5>1
      <4> QED BY <2>1, <4>1, <4>2
    <3> QED BY <1>1, <1>2, <3>1, <3>2 DEF PairInv, SessionInv, AnswersInOrder
  <2> QED BY <1>1, <1>2, <1>4, <2>1, <2>2, <2>3, <2>4, <2>5 DEF new
<1> QED BY <1>3, <1>4 DEF Reply

\* Steps that send and take nothing.
LEMMA QuietStep ==
  ASSUME PairInv, UNCHANGED <<toS, toC, taken, seqC, nonces, parts>>,
         answer' \in {answer, NoSlot}, con'.active => NoStale
  PROVE  /\ Pending' = Pending /\ Coming' \subseteq Coming \cup {NoSlot}
         /\ \A f \in Pending' \cup Coming' : f.seq \in Nat
         /\ HellosGrow' /\ HelloIsAnswered' /\ AnswersInOrder'
<1>1. NoSlot.kind = "none" /\ NoSlot.seq = 0
  BY DEF NoSlot
<1>2. Pending' = Pending /\ Coming' \subseteq Coming \cup {NoSlot}
  BY DEF Pending, Coming
<1>3. HellosGrow' /\ HelloIsAnswered'
  BY <1>2 DEF PairInv, SessionInv, HellosGrow, HelloIsAnswered, NoHelloPending
<1>4. Answered' => Answered
  BY <1>1 DEF Answered
<1>5. AnswersInOrder'
  BY <1>4 DEF PairInv, SessionInv, AnswersInOrder, NoStale
<1> QED BY <1>1, <1>2, <1>3, <1>5 DEF PairInv, Shapes

LEMMA ConShape ==
  ASSUME Shapes, NEW k
  PROVE  /\ [con EXCEPT !.key = k] = [active |-> con.active, key |-> k, ltk |-> con.ltk, wants |-> con.wants]
         /\ [con EXCEPT !.ltk = k] = [active |-> con.active, key |-> con.key, ltk |-> k, wants |-> con.wants]
         /\ [con EXCEPT !.active = k] = [active |-> k, key |-> con.key, ltk |-> con.ltk, wants |-> con.wants]
         /\ [con EXCEPT !.wants = k] = [active |-> con.active, key |-> con.key, ltk |-> con.ltk, wants |-> k]
<1> DEFINE r == [active |-> con.active, key |-> con.key, ltk |-> con.ltk, wants |-> con.wants]
<1>1. con = r
  BY DEF Shapes
<1>2. /\ [r EXCEPT !.key = k] = [active |-> con.active, key |-> k, ltk |-> con.ltk, wants |-> con.wants]
      /\ [r EXCEPT !.ltk = k] = [active |-> con.active, key |-> con.key, ltk |-> k, wants |-> con.wants]
      /\ [r EXCEPT !.active = k] = [active |-> k, key |-> con.key, ltk |-> con.ltk, wants |-> con.wants]
      /\ [r EXCEPT !.wants = k] = [active |-> con.active, key |-> con.key, ltk |-> con.ltk, wants |-> k]
  OBVIOUS
<1> QED BY <1>1, <1>2, Zenon

LEMMA AuthDoneInv == ASSUME PairInv, AuthDone PROVE PairInv'
<1>1. CASE answer.kind # "ACK"
  BY <1>1, DropInv DEF AuthDone
<1>2. CASE answer.kind = "ACK"
  <2>1. /\ doing = "auth" /\ Answered
        /\ session' = [session EXCEPT !["C"] = Agreed]
        /\ con' = NoCon /\ doing' = "idle" /\ answer' = NoSlot
        /\ UNCHANGED <<up, toS, toC, seqC, seqS, taken, helloOut, kept, nonces, known, adv, parts, yes, stored>>
    BY <1>2 DEF AuthDone, Agreed, SessionKey, wires, ghosts
  <2>2. /\ Pending' = Pending /\ Coming' \subseteq Coming \cup {NoSlot}
        /\ \A f \in Pending' \cup Coming' : f.seq \in Nat
        /\ HellosGrow' /\ HelloIsAnswered' /\ AnswersInOrder'
    BY <2>1, QuietStep DEF NoCon
  <2>3. session["S"] = Agreed
    BY <1>2, <2>1 DEF PairInv, SessionInv, AuthInv, Answered, Coming
  <2>4. session'["C"] = Agreed /\ session'["S"] = Agreed /\ DOMAIN session' = Sides
    BY <2>1, <2>3 DEF PairInv, Shapes, Sides
  <2>5. AuthInv' /\ SameSession'
    BY <2>1, <2>2, <2>4 DEF NoCon, AuthInv, SameSession, PairInv, SessionInv, NoHelloPending
  <2>6. Shapes'
    BY <2>1, <2>2, <2>4 DEF PairInv, Shapes, NoCon
  <2>7. DownIsDown'
    BY <2>1 DEF PairInv, DownIsDown
  <2>8. PairingInv'
    BY <2>1, <2>2 DEF PairInv, PairingInv, StoredByBoth, KeptIsStored, SaidYes, ConfirmedByUser,
       AckedIsStored, NoSlot
  <2> QED BY <2>2, <2>5, <2>6, <2>7, <2>8 DEF PairInv, SessionInv
<1> QED BY <1>1, <1>2

\* Steps of a pairing at the connector: its request goes out.
LEMMA PairingRequestInv ==
  ASSUME PairInv, up, NoStale, ~session["C"].on, NEW kind \in {"START", "NONCE", "CONFIRM"}, NEW data,
         toS' = Append(toS, PFrame(kind, seqC + 1, data)), seqC' = seqC + 1, answer' = NoSlot,
         doing' # "auth", con'.active => doing' = "confirm",
         con' = [active |-> con'.active, key |-> con'.key, ltk |-> con'.ltk, wants |-> con'.wants],
         DOMAIN yes' = Sides, yes'["S"] = yes["S"], yes["C"] \subseteq yes'["C"],
         kind = "CONFIRM" /\ data[1] = 1 => data[2] \in yes'["C"],
         UNCHANGED <<up, toC, seqS, taken, kept, session, nonces, adv, parts, stored>>
  PROVE  PairInv'
<1> DEFINE new == PFrame(kind, seqC + 1, data)
<1>1. new.kind = kind /\ new.data = data /\ NoSlot.kind = "none" /\ kind # "HELLO" /\ kind \notin Answers
  BY DEF PFrame, NoSlot, Answers
<1>2. /\ Pending' = Pending \cup {new} /\ Coming' \subseteq Coming \cup {NoSlot}
      /\ IsSeq(toS') /\ IsSeq(toC') /\ seqC' \in Nat /\ \A f \in Pending' \cup Coming' : f.seq \in Nat
      /\ HellosGrow' /\ HelloIsAnswered' /\ AnswersInOrder'
  BY <1>1, RequestSent
<1> HIDE DEF new
<1>3. Shapes'
  BY <1>2 DEF PairInv, Shapes
<1>4. DownIsDown'
  BY DEF DownIsDown
<1>5. PairingInv'
  BY <1>1, <1>2 DEF PairInv, PairingInv, StoredByBoth, KeptIsStored, SaidYes, ConfirmedByUser, AckedIsStored
<1>6. AuthInv' /\ SameSession'
  BY <1>1, <1>2 DEF PairInv, SessionInv, AuthInv, SameSession, NoHelloPending
<1> QED BY <1>2, <1>3, <1>4, <1>5, <1>6 DEF PairInv, SessionInv

LEMMA StartDoneInv == ASSUME PairInv, StartDone PROVE PairInv'
<1>1. CASE Drop
  BY <1>1, DropInv DEF StartDone
<1>2. CASE ~Drop
  <2>1. /\ doing = "start" /\ Answered
        /\ con' = [con EXCEPT !.key = <<con.key[1], answer.data[1]>>]
        /\ AskFor("nonce", "NONCE", <<con.key[1]>>)
        /\ UNCHANGED <<up, toC, seqS, taken, helloOut, kept, session, nonces, known, adv, ghosts>>
    BY <1>2 DEF StartDone
  <2>2. con' = [active |-> con'.active, key |-> con'.key, ltk |-> con'.ltk, wants |-> con'.wants]
    BY <2>1, ConShape DEF PairInv
  <2>3. up /\ NoStale /\ DOMAIN yes = Sides /\ ~session["C"].on /\ ~con.active
    BY <2>1 DEF PairInv, DownIsDown, SessionInv, AnswersInOrder, AuthInv, Shapes
  <2>4. ~con'.active
    BY <2>1, <2>3, ConShape DEF PairInv
  <2> QED BY <2>1, <2>2, <2>3, <2>4, PairingRequestInv DEF AskFor, ghosts
<1> QED BY <1>1, <1>2

LEMMA PairConfirmInv == ASSUME PairInv, NEW ok \in BOOLEAN, PairConfirm(ok) PROVE PairInv'
<1> DEFINE data == <<IF ok THEN 1 ELSE 0, con.key>>
<1>1. /\ con.active /\ up
      /\ con' = [con EXCEPT !.wants = IF ok THEN "yes" ELSE "no"]
      /\ yes' = IF ok THEN [yes EXCEPT !["C"] = yes["C"] \union {con.key}] ELSE yes
      /\ AskFor("confirm", "CONFIRM", data)
      /\ UNCHANGED <<up, toC, seqS, taken, helloOut, kept, session, nonces, known, adv, links, parts, stored>>
  BY DEF PairConfirm
<1>2. con' = [active |-> con'.active, key |-> con'.key, ltk |-> con'.ltk, wants |-> con'.wants]
  BY <1>1, ConShape DEF PairInv
<1>3. /\ DOMAIN yes' = Sides /\ yes'["S"] = yes["S"] /\ yes["C"] \subseteq yes'["C"]
      /\ data[1] = 1 => data[2] \in yes'["C"]
  BY <1>1 DEF PairInv, Shapes, Sides
<1> HIDE DEF data
<1>4. NoStale /\ ~session["C"].on
  BY <1>1 DEF PairInv, SessionInv, AnswersInOrder, AuthInv
<1> QED BY <1>1, <1>2, <1>3, <1>4, PairingRequestInv DEF AskFor

LEMMA NonceDoneInv == ASSUME PairInv, NonceDone PROVE PairInv'
<1>1. CASE answer.kind # "ACK"
  BY <1>1, DropInv DEF NonceDone
<1>2. CASE answer.kind = "ACK"
  <2>1. /\ doing = "nonce" /\ Answered
        /\ con' = [con EXCEPT !.active = TRUE]
        /\ doing' = "idle" /\ answer' = NoSlot
        /\ UNCHANGED <<up, toS, toC, seqC, seqS, taken, kept, session, nonces, adv, parts, yes, stored>>
    BY <1>2 DEF NonceDone, wires, ghosts
  <2>2. /\ Pending' = Pending /\ Coming' \subseteq Coming \cup {NoSlot}
        /\ \A f \in Pending' \cup Coming' : f.seq \in Nat
        /\ HellosGrow' /\ HelloIsAnswered' /\ AnswersInOrder'
    BY <2>1, QuietStep DEF PairInv, SessionInv, AnswersInOrder
  <2>3. Shapes'
    BY <2>1, <2>2, ConShape DEF PairInv, Shapes
  <2>4. DownIsDown'
    BY <2>1 DEF PairInv, DownIsDown
  <2>5. PairingInv'
    BY <2>1, <2>2 DEF PairInv, PairingInv, StoredByBoth, KeptIsStored, SaidYes, ConfirmedByUser,
       AckedIsStored, NoSlot
  <2>6. AuthInv' /\ SameSession'
    BY <2>1, <2>2 DEF PairInv, SessionInv, AuthInv, SameSession, NoHelloPending
  <2> QED BY <2>2, <2>3, <2>4, <2>5, <2>6 DEF PairInv, SessionInv
<1> QED BY <1>1, <1>2

\* A HELLO of the connector, with a nonce greater than any there was.
LEMMA HelloSent ==
  ASSUME PairInv, toC = <<>> \/ NoStale,
         toS' = Append(toS, PFrame("HELLO", seqC + 1, <<Fresh>>)), seqC' = seqC + 1, answer' = NoSlot,
         nonces' = [nonces EXCEPT !["C"] = <<Fresh, 0>>], parts' = Fresh,
         ~con'.active, doing' = "hello", session'["C"] = Down,
         UNCHANGED <<toC, taken>>
  PROVE  /\ Pending' = Pending \cup {PFrame("HELLO", seqC + 1, <<Fresh>>)}
         /\ Coming' \subseteq Coming \cup {NoSlot}
         /\ IsSeq(toS') /\ IsSeq(toC') /\ seqC' \in Nat /\ parts' \in Nat /\ DOMAIN nonces' = Sides
         /\ \A f \in Pending' \cup Coming' : f.seq \in Nat
         /\ SessionInv'
<1> DEFINE new == PFrame("HELLO", seqC + 1, <<Fresh>>)
<1>1. /\ new.kind = "HELLO" /\ new.seq = seqC + 1 /\ new.data[1] = parts + 1 /\ Fresh = parts + 1
      /\ NoSlot.kind = "none" /\ NoSlot.seq = 0 /\ "HELLO" \notin Answers
  BY DEF PFrame, NoSlot, Fresh, Answers
<1>2. /\ IsSeq(toS) /\ IsSeq(toC) /\ seqC \in Nat /\ parts \in Nat /\ DOMAIN nonces = Sides
      /\ \A f \in Pending \cup Coming : f.seq \in Nat
  BY DEF PairInv, Shapes
<1>3. nonces'["C"][1] = parts + 1 /\ DOMAIN nonces' = Sides
  BY <1>1, <1>2 DEF Sides
<1> HIDE DEF new
<1>4. /\ IsSeq(toS') /\ Range(toS') = Range(toS) \cup {new}
      /\ Len(toS') = Len(toS) + 1 /\ toS'[Len(toS) + 1] = new /\ Len(toS) \in Nat
      /\ \A i \in 1..Len(toS) : toS'[i] = toS[i] /\ toS[i] \in Range(toS)
  BY <1>2, AppendSeq, SeqRange DEF new
<1>5. Pending' = Pending \cup {new} /\ Coming' \subseteq Coming \cup {NoSlot}
  BY <1>4 DEF Pending, Coming
<1>6. HellosGrow'
  <2>1. \A f \in Pending : f.kind = "HELLO" => f.data[1] \in 1..parts
    BY <1>2 DEF PairInv, SessionInv, HellosGrow
  <2>2. ASSUME NEW j \in 1..Len(toS'), toS'[j].kind = "HELLO"
        PROVE  /\ taken.kind = "HELLO" => taken.data[1] < toS'[j].data[1]
               /\ \A i \in 1..j - 1 : toS'[i].kind = "HELLO" => toS'[i].data[1] < toS'[j].data[1]
    <3>1. CASE j = Len(toS) + 1
      <4>1. toS'[j].data[1] = parts + 1
        BY <1>1, <1>4, <3>1
      <4>2. \A i \in 1..j - 1 : toS'[i] \in Pending
        BY <1>4, <3>1 DEF Pending
      <4> QED BY <1>2, <2>1, <4>1, <4>2 DEF Pending
    <3>2. CASE j \in 1..Len(toS)
      BY <1>4, <2>2, <3>2 DEF PairInv, SessionInv, HellosGrow
    <3> QED BY <1>4, <3>1, <3>2
  <2>3. \A f \in Pending' : f.kind = "HELLO" => f.data[1] \in 1..parts + 1
    BY <1>1, <1>2, <1>5, <2>1
  <2> QED BY <1>1, <1>2, <1>3, <2>2, <2>3 DEF HellosGrow
<1>7. HelloIsAnswered'
  BY <1>2, <1>3 DEF PairInv, SessionInv, HelloIsAnswered, HellosGrow
<1>8. AnswersInOrder'
  <2>1. \A f \in Range(toC) \cup Range(toS) \cup {taken} : f.seq \in Nat
    BY <1>2 DEF Pending, Coming
  <2>2. \A i \in 1..Len(toC) : toC[i].kind \in Answers => toC[i].seq # seqC + 1
    BY <1>2, <2>1, SeqRange, EmptyIsSeq DEF NoStale
  <2>3. \A f \in Range(toS') : f.kind \notin Answers => f.seq <= seqC'
    BY <1>1, <1>2, <1>4, <2>1 DEF PairInv, SessionInv, AnswersInOrder
  <2>4. ~Answered'
    BY <1>1 DEF Answered
  <2> QED BY <2>2, <2>3, <2>4 DEF AnswersInOrder
<1>9. AuthInv' /\ SameSession'
  BY DEF AuthInv, SameSession, Down
<1> QED BY <1>1, <1>2, <1>3, <1>4, <1>5, <1>6, <1>7, <1>8, <1>9 DEF SessionInv, new

LEMMA ConnectInv == ASSUME PairInv, NEW wants \in {"auth", "pair"}, Connect(wants) PROVE PairInv'
<1>1. /\ ~up /\ up' /\ parts' = Fresh
      /\ session' = [s \in Sides |-> Down] /\ adv' = NoAdv
      /\ con' = [NoCon EXCEPT !.wants = wants]
      /\ nonces' = [nonces EXCEPT !["C"] = <<Fresh, 0>>]
      /\ toS' = Append(toS, PFrame("HELLO", seqC + 1, <<Fresh>>)) /\ seqC' = seqC + 1
      /\ doing' = "hello" /\ answer' = NoSlot
      /\ UNCHANGED <<toC, seqS, taken, kept, yes, stored>>
  BY DEF Connect, Reset, AskFor, Drawn, Fresh
<1>2. toC = <<>> /\ ~con'.active
      /\ con' = [active |-> con'.active, key |-> con'.key, ltk |-> con'.ltk, wants |-> con'.wants]
      /\ session'["C"] = Down
  BY <1>1 DEF PairInv, DownIsDown, NoCon, Sides
<1>3. /\ Pending' = Pending \cup {PFrame("HELLO", seqC + 1, <<Fresh>>)}
      /\ Coming' \subseteq Coming \cup {NoSlot}
      /\ IsSeq(toS') /\ IsSeq(toC') /\ seqC' \in Nat /\ parts' \in Nat /\ DOMAIN nonces' = Sides
      /\ \A f \in Pending' \cup Coming' : f.seq \in Nat
      /\ SessionInv'
  BY <1>1, <1>2, HelloSent
<1>4. Shapes' /\ DownIsDown'
  BY <1>1, <1>2, <1>3 DEF PairInv, Shapes, DownIsDown, NoAdv
<1>5. PairingInv'
  BY <1>1, <1>3 DEF PairInv, PairingInv, StoredByBoth, KeptIsStored, SaidYes, ConfirmedByUser,
     AckedIsStored, NoAdv, PFrame, NoSlot
<1> QED BY <1>3, <1>4, <1>5 DEF PairInv

LEMMA ConfirmDoneInv == ASSUME PairInv, ConfirmDone PROVE PairInv'
<1>1. CASE Drop /\ UNCHANGED ghosts
  BY <1>1, DropInv
<1>2. CASE answer.kind = "BUSY"
  <2>1. /\ doing' = "idle" /\ answer' = NoSlot /\ doing = "confirm"
        /\ UNCHANGED <<up, toS, toC, seqC, seqS, taken, kept, session, nonces, adv, con, parts, yes, stored>>
    BY <1>2 DEF ConfirmDone, wires, ghosts
  <2>2. /\ Pending' = Pending /\ Coming' \subseteq Coming \cup {NoSlot}
        /\ \A f \in Pending' \cup Coming' : f.seq \in Nat
        /\ HellosGrow' /\ HelloIsAnswered' /\ AnswersInOrder'
    BY <2>1, QuietStep DEF PairInv, SessionInv, AnswersInOrder
  <2>3. Shapes' /\ DownIsDown'
    BY <2>1, <2>2 DEF PairInv, Shapes, DownIsDown
  <2>4. PairingInv'
    BY <2>1, <2>2 DEF PairInv, PairingInv, StoredByBoth, KeptIsStored, SaidYes, ConfirmedByUser,
       AckedIsStored, NoSlot
  <2>5. AuthInv' /\ SameSession'
    BY <2>1, <2>2 DEF PairInv, SessionInv, AuthInv, SameSession, NoHelloPending
  <2> QED BY <2>2, <2>3, <2>4, <2>5 DEF PairInv, SessionInv
<1>3. CASE answer.kind = "ACK" /\ con.wants = "yes" /\ answer.data = <<1, con.key>>
  <2>1. /\ doing = "confirm" /\ Answered /\ parts' = Fresh
        /\ kept' = [kept EXCEPT !["C"] = con.key]
        /\ session' = [session EXCEPT !["C"] = Down]
        /\ con' = [NoCon EXCEPT !.wants = "auth"]
        /\ nonces' = [nonces EXCEPT !["C"] = <<Fresh, 0>>]
        /\ toS' = Append(toS, PFrame("HELLO", seqC + 1, <<Fresh>>)) /\ seqC' = seqC + 1
        /\ doing' = "hello" /\ answer' = NoSlot
        /\ UNCHANGED <<up, toC, seqS, taken, adv, yes, stored>>
    BY <1>3 DEF ConfirmDone, AskFor, Drawn, Fresh
  <2>2. NoStale /\ up
    BY <2>1 DEF PairInv, SessionInv, AnswersInOrder, DownIsDown
  <2>3. /\ ~con'.active
        /\ con' = [active |-> con'.active, key |-> con'.key, ltk |-> con'.ltk, wants |-> con'.wants]
        /\ session'["C"] = Down /\ DOMAIN session' = Sides /\ DOMAIN kept' = Sides
    BY <2>1 DEF PairInv, Shapes, NoCon, Sides
  <2>4. /\ Pending' = Pending \cup {PFrame("HELLO", seqC + 1, <<Fresh>>)}
        /\ Coming' \subseteq Coming \cup {NoSlot}
        /\ IsSeq(toS') /\ IsSeq(toC') /\ seqC' \in Nat /\ parts' \in Nat /\ DOMAIN nonces' = Sides
        /\ \A f \in Pending' \cup Coming' : f.seq \in Nat
        /\ SessionInv'
    BY <2>1, <2>2, <2>3, HelloSent
  <2>5. Shapes' /\ DownIsDown'
    BY <2>1, <2>2, <2>3, <2>4 DEF PairInv, Shapes, DownIsDown
  <2>6. con.key \in stored
    <3>1. Len(answer.data) = 2 /\ answer.data[2] = con.key /\ answer \in Coming
      BY <1>3 DEF Coming
    <3> QED BY <1>3, <3>1 DEF PairInv, PairingInv, AckedIsStored
  <2>7. PairingInv'
    BY <2>1, <2>4, <2>6 DEF PairInv, PairingInv, StoredByBoth, KeptIsStored, SaidYes, ConfirmedByUser,
       AckedIsStored, PFrame, NoSlot, Shapes
  <2> QED BY <2>4, <2>5, <2>7 DEF PairInv
<1>4. CASE answer.kind # "BUSY" /\ ~(answer.kind = "ACK" /\ con.wants = "yes" /\ answer.data = <<1, con.key>>)
  BY <1>1, <1>4 DEF ConfirmDone
<1> QED BY <1>2, <1>3, <1>4

\* The connector answers the advertiser's HELLO and sends the next request.
LEMMA HelloDoneSent ==
  ASSUME PairInv, NoStale, up, ~con.active, ~session["C"].on, NEW i \in 1..Len(toC), toC[i].kind = "HELLO",
         NEW kind \in {"AUTH", "START"}, NEW data,
         toS' = toS \o <<PFrame("ACK", toC[i].seq, <<>>), PFrame(kind, seqC + 1, data)>>,
         toC' = RemoveAt(toC, i), seqC' = seqC + 1, answer' = NoSlot,
         nonces' = [nonces EXCEPT !["C"] = <<nonces["C"][1], toC[i].data[1]>>],
         parts' \in {parts, parts + 1},
         doing' = IF kind = "AUTH" THEN "auth" ELSE "start",
         con' = [active |-> con'.active, key |-> con'.key, ltk |-> con'.ltk, wants |-> con'.wants],
         ~con'.active,
         kind = "AUTH" => /\ data = <<con'.ltk, nonces["C"][1], toC[i].data[1]>>
                          /\ toC[i].data[3] = nonces["C"][1],
         UNCHANGED <<up, seqS, taken, kept, session, adv, yes, stored>>
  PROVE  PairInv'
<1> DEFINE ack == PFrame("ACK", toC[i].seq, <<>>)
           req == PFrame(kind, seqC + 1, data)
           d   == toC[i].data
<1>1. /\ ack.kind = "ACK" /\ ack.seq = toC[i].seq
      /\ req.kind = kind /\ req.seq = seqC + 1 /\ req.data = data
      /\ NoSlot.kind = "none" /\ NoSlot.seq = 0 /\ "ACK" \in Answers /\ "HELLO" \notin Answers
      /\ kind \notin Answers /\ kind \notin {"HELLO", "CONFIRM"} /\ (kind = "AUTH" <=> doing' = "auth")
  BY DEF PFrame, NoSlot, Answers
<1>2. /\ IsSeq(toS) /\ IsSeq(toC) /\ seqC \in Nat /\ parts \in Nat /\ DOMAIN nonces = Sides
      /\ \A f \in Pending \cup Coming : f.seq \in Nat
      /\ \A f \in Range(toC) \cup Range(toS) \cup {taken} : f.seq \in Nat
  BY DEF PairInv, Shapes, Pending, Coming
<1>3. toC[i] \in Range(toC) /\ toC[i].seq \in Nat
  BY <1>2, SeqRange
<1>4. nonces'["C"] = <<nonces["C"][1], d[1]>> /\ nonces'["S"] = nonces["S"] /\ DOMAIN nonces' = Sides
  BY <1>2 DEF Sides
<1> HIDE DEF ack, req, d
<1>5. toS' = toS \o <<ack, req>>
  BY DEF ack, req
<1>6. /\ IsSeq(toS') /\ Range(toS') = Range(toS) \cup {ack, req}
      /\ Len(toS) \in Nat /\ Len(toS') = Len(toS) + 2
      /\ toS'[Len(toS) + 1] = ack /\ toS'[Len(toS) + 2] = req
      /\ \A j \in 1..Len(toS) : toS'[j] = toS[j]
  <2>1. IsSeq(toS)
    BY <1>2
  <2>2. TwoLonger(toS', toS, ack, req)
    BY ONLY <1>5, <2>1, TwoAppended, Zenon
  <2> QED BY <2>2 DEF TwoLonger
<1>7. /\ IsSeq(toC') /\ Range(toC') \subseteq Range(toC) /\ Len(toC') = Len(toC) - 1 /\ Len(toC) \in Nat \ {0}
      /\ \A j \in 1..Len(toC') : toC'[j] \in Range(toC)
  <2>1. /\ IsSeq(toC') /\ Range(toC') \subseteq Range(toC) /\ Len(toC') = Len(toC) - 1 /\ Len(toC) \in Nat \ {0}
    BY <1>2, RemoveAtSeq
  <2> QED BY <2>1, SeqRange
<1>8. Pending' = Pending \cup {ack, req} /\ Coming' \subseteq Coming \cup {NoSlot}
  BY <1>6, <1>7 DEF Pending, Coming
<1>9. HellosGrow'
  <2>1. \A f \in Pending' : f.kind = "HELLO" => f.data[1] \in 1..nonces'["C"][1]
    BY <1>1, <1>4, <1>8 DEF PairInv, SessionInv, HellosGrow
  <2>2. ASSUME NEW j \in 1..Len(toS'), toS'[j].kind = "HELLO"
        PROVE  /\ taken.kind = "HELLO" => taken.data[1] < toS'[j].data[1]
               /\ \A k \in 1..j - 1 : toS'[k].kind = "HELLO" => toS'[k].data[1] < toS'[j].data[1]
    <3>1. j \in 1..Len(toS)
      BY <1>1, <1>6, <2>2
    <3> QED BY <1>6, <2>2, <3>1 DEF PairInv, SessionInv, HellosGrow
  <2>3. nonces["C"][1] \in 0..parts /\ nonces'["C"][1] = nonces["C"][1]
    BY <1>4 DEF PairInv, SessionInv, HellosGrow
  <2>4. nonces'["C"][1] \in 0..parts'
    BY <1>2, <2>3
  <2> QED BY <2>1, <2>2, <2>4 DEF HellosGrow
<1>10. NoHelloPending => NoHelloPending'
  BY <1>1, <1>8 DEF NoHelloPending
<1>11. HelloIsAnswered'
  BY <1>4, <1>7, <1>10 DEF PairInv, SessionInv, HelloIsAnswered
<1>12. AnswersInOrder'
  <2>1. NoStale' /\ ~Answered' /\ ~con'.active
    BY <1>1, <1>2, <1>7 DEF NoStale, Answered
  <2>2. \A j \in 1..Len(toC') : toC'[j].kind \in Answers => toC'[j].seq # seqC + 1
    BY <1>2, <1>7 DEF NoStale
  <2>3. \A f \in Range(toS) : f.kind \notin Answers => f.seq <= seqC
    BY DEF PairInv, SessionInv, AnswersInOrder
  <2>4. \A f \in Range(toS') : f.kind \notin Answers => f.seq <= seqC + 1
    <3>1. ASSUME NEW f \in Range(toS'), f.kind \notin Answers PROVE f.seq <= seqC + 1
      <4>1. CASE f = req
        BY <1>1, <1>2, <4>1
      <4>2. CASE f \in Range(toS)
        BY <1>2, <2>3, <3>1, <4>2
      <4> QED BY <1>1, <1>6, <3>1, <4>1, <4>2
    <3> QED BY <3>1
  <2> QED BY <2>1, <2>2, <2>4 DEF AnswersInOrder
<1>13. AuthInv' /\ SameSession'
  <2>1. SameSession'
    BY DEF SameSession
  <2>4. ~session'["C"].on /\ ~con'.active
    OBVIOUS
  <2>2. CASE kind = "START"
    <3>1. doing' # "auth"
      BY <1>1, <2>2
    <3> QED BY <2>1, <2>4, <3>1 DEF AuthInv
  <2>3. CASE kind = "AUTH"
    <3>1. nonces["S"] = <<nonces["C"][1], d[1]>> /\ NoHelloPending
      BY <1>1, <1>3, <2>3 DEF PairInv, SessionInv, HelloIsAnswered, d
    <3>2. \A f \in Pending' : f.seq = seqC' /\ f.kind \notin Answers => f.kind = "AUTH" /\ Proof(f)'
      <4>1. ASSUME NEW f \in Pending, f.kind \notin Answers PROVE f.seq # seqC'
        BY <1>2, <4>1 DEF PairInv, SessionInv, AnswersInOrder, NoStale, Pending
      <4>2. req.kind = "AUTH" /\ req.data = <<con'.ltk, nonces'["C"][1], nonces'["C"][2]>>
        BY <1>1, <1>4, <2>3 DEF d
      <4> QED BY <1>1, <1>8, <4>1, <4>2 DEF Proof
    <3>3. \A f \in Coming' : f.kind = "ACK" => f.seq # seqC'
      BY <1>1, <1>2, <1>7 DEF Coming, NoStale
    <3>4. NoHelloPending' /\ nonces'["S"] = nonces'["C"]
      BY <1>4, <1>10, <3>1
    <3>5. seqC' # 0
      BY <1>2
    <3> QED BY <2>1, <2>4, <3>2, <3>3, <3>4, <3>5 DEF AuthInv
  <2> QED BY <2>1, <2>2, <2>3
<1>14. Shapes'
  <2>1. \A f \in Pending' \cup Coming' : f.seq \in Nat
    BY <1>1, <1>2, <1>3, <1>8
  <2> QED BY <1>2, <1>4, <1>6, <1>7, <2>1 DEF PairInv, Shapes
<1>15. DownIsDown'
  BY DEF DownIsDown
<1>16. PairingInv'
  BY <1>1, <1>8 DEF PairInv, PairingInv, StoredByBoth, KeptIsStored, SaidYes, ConfirmedByUser, AckedIsStored
<1> QED BY <1>9, <1>11, <1>12, <1>13, <1>14, <1>15, <1>16 DEF PairInv, SessionInv

LEMMA HelloDoneInv == ASSUME PairInv, HelloDone PROVE PairInv'
<1>1. PICK i \in FirstOf(toC, {"HELLO"}) :
        LET f == toC[i]  d == f.data IN
        IF con.wants = "auth" /\ ~(d[2] # NoKey /\ kept["C"] # NoKey /\ Proven(d))
        THEN Drop /\ UNCHANGED ghosts
        ELSE /\ seqC < MaxFrames /\ Bounded
             /\ nonces' = [nonces EXCEPT !["C"] = <<nonces["C"][1], d[1]>>]
             /\ toC' = RemoveAt(toC, i)
             /\ answer' = NoSlot /\ seqC' = seqC + 1
             /\ IF con.wants = "auth"
                THEN /\ toS' = toS \o <<PFrame("ACK", f.seq, <<>>),
                                       PFrame("AUTH", seqC + 1, <<kept["C"], nonces["C"][1], d[1]>>)>>
                     /\ con' = [con EXCEPT !.ltk = kept["C"]]
                     /\ doing' = "auth" /\ UNCHANGED parts
                ELSE /\ toS' = toS \o <<PFrame("ACK", f.seq, <<>>), PFrame("START", seqC + 1, <<Fresh>>)>>
                     /\ con' = [con EXCEPT !.key = <<Fresh, 0>>]
                     /\ doing' = "start" /\ Drawn
             /\ UNCHANGED <<up, seqS, taken, helloOut, kept, session, known, adv, links, yes, stored>>
  BY DEF HelloDone
<1>2. i \in 1..Len(toC) /\ toC[i].kind = "HELLO"
  BY DEF FirstOf, PairInv, Shapes, IsSeq
<1>3. doing = "hello" /\ Answered
  BY DEF HelloDone
<1>4. NoStale /\ up /\ ~con.active /\ ~session["C"].on
  BY <1>3 DEF PairInv, SessionInv, AnswersInOrder, AuthInv, DownIsDown
<1> DEFINE d == toC[i].data
<1>5. CASE con.wants = "auth" /\ ~(d[2] # NoKey /\ kept["C"] # NoKey /\ Proven(d))
  BY <1>1, <1>5, DropInv
<1>6. CASE con.wants = "auth" /\ d[2] # NoKey /\ kept["C"] # NoKey /\ Proven(d)
  <2>1. d[3] = nonces["C"][1]
    <3>1. SubSeq(d, 2, 4)[2] = d[3]
      OBVIOUS
    <3> DEFINE three == SubSeq(d, 2, 4)
    <3>2. three = <<kept["C"], nonces["C"][1], d[1]>>
      BY <1>6 DEF Proven
    <3> HIDE DEF three
    <3>3. three[2] = nonces["C"][1]
      BY <3>2
    <3> QED BY <3>1, <3>3 DEF three
  <2>2. /\ toS' = toS \o <<PFrame("ACK", toC[i].seq, <<>>),
                           PFrame("AUTH", seqC + 1, <<kept["C"], nonces["C"][1], d[1]>>)>>
        /\ nonces' = [nonces EXCEPT !["C"] = <<nonces["C"][1], d[1]>>]
        /\ toC' = RemoveAt(toC, i) /\ answer' = NoSlot /\ seqC' = seqC + 1
        /\ con' = [con EXCEPT !.ltk = kept["C"]] /\ doing' = "auth"
        /\ UNCHANGED <<up, seqS, taken, kept, session, adv, parts, yes, stored>>
    BY <1>1, <1>6
  <2>3. con' = [active |-> con.active, key |-> con.key, ltk |-> kept["C"], wants |-> con.wants]
    BY <2>2, ConShape DEF PairInv
  <2> HIDE DEF d
  <2>4. ~con'.active /\ con' = [active |-> con'.active, key |-> con'.key, ltk |-> con'.ltk, wants |-> con'.wants]
        /\ con'.ltk = kept["C"]
    BY <1>4, <2>3
  <2> QED BY <1>2, <1>4, <2>1, <2>2, <2>4, HelloDoneSent DEF d
<1>7. CASE con.wants # "auth"
  <2>1. /\ toS' = toS \o <<PFrame("ACK", toC[i].seq, <<>>), PFrame("START", seqC + 1, <<Fresh>>)>>
        /\ nonces' = [nonces EXCEPT !["C"] = <<nonces["C"][1], d[1]>>]
        /\ toC' = RemoveAt(toC, i) /\ answer' = NoSlot /\ seqC' = seqC + 1
        /\ con' = [con EXCEPT !.key = <<Fresh, 0>>] /\ doing' = "start" /\ parts' = parts + 1
        /\ UNCHANGED <<up, seqS, taken, kept, session, adv, yes, stored>>
    BY <1>1, <1>7 DEF Drawn
  <2>2. con' = [active |-> con.active, key |-> <<Fresh, 0>>, ltk |-> con.ltk, wants |-> con.wants]
    BY <2>1, ConShape DEF PairInv
  <2> HIDE DEF d
  <2>3. ~con'.active /\ con' = [active |-> con'.active, key |-> con'.key, ltk |-> con'.ltk, wants |-> con'.wants]
    BY <1>4, <2>2
  <2> QED BY <1>2, <1>4, <2>1, <2>3, HelloDoneSent DEF d
<1> QED BY <1>5, <1>6, <1>7

-----------------------------------------------------------------------------
(* Frames move.                                                            *)

LEMMA ConnectorFrameInv == ASSUME PairInv, ConnectorFrame PROVE PairInv'
<1>1. PICK i \in FirstOf(toC, Answers) : answer' = toC[i] /\ toC' = RemoveAt(toC, i)
  BY DEF ConnectorFrame
<1>2. UNCHANGED <<up, toS, seqC, seqS, taken, kept, session, nonces, adv, con, doing, parts, yes, stored>>
  BY DEF ConnectorFrame, ghosts
<1>3. /\ IsSeq(toC) /\ seqC \in Nat /\ \A f \in Pending \cup Coming : f.seq \in Nat
      /\ \A f \in Range(toC) : f.seq \in Nat
  BY DEF PairInv, Shapes, Coming
<1>4. Len(toC) \in Nat /\ \A j \in 1..Len(toC) : toC[j] \in Range(toC)
  BY <1>3, SeqRange
<1>5. i \in 1..Len(toC) /\ toC[i].kind \in Answers /\ \A j \in 1..i - 1 : toC[j].kind \notin Answers
  BY <1>3 DEF FirstOf, IsSeq
<1>6. /\ IsSeq(toC') /\ Range(toC') \subseteq Range(toC) /\ Len(toC') = Len(toC) - 1
      /\ \A j \in 1..Len(toC) - 1 : toC'[j] = IF j < i THEN toC[j] ELSE toC[j + 1]
  <2>1. /\ IsSeq(RemoveAt(toC, i)) /\ Range(RemoveAt(toC, i)) \subseteq Range(toC)
        /\ Len(RemoveAt(toC, i)) = Len(toC) - 1
        /\ \A j \in 1..Len(toC) - 1 : RemoveAt(toC, i)[j] = IF j < i THEN toC[j] ELSE toC[j + 1]
    BY <1>3, <1>5, RemoveAtSeq
  <2> QED BY <1>1, <2>1, Zenon
<1>7. Pending' = Pending /\ Coming' \subseteq Coming
  BY <1>1, <1>2, <1>4, <1>5, <1>6 DEF Pending, Coming
<1>8. HellosGrow' /\ HelloIsAnswered'
  BY <1>2, <1>6, <1>7 DEF PairInv, SessionInv, HellosGrow, HelloIsAnswered, NoHelloPending
<1>9. AnswersInOrder'
  <2>1. NoStale => NoStale'
    BY <1>2, <1>6 DEF NoStale
  <2>2. Answered' => NoStale
    <3>1. SUFFICES ASSUME toC[i].seq = seqC PROVE NoStale
      BY <1>1, <1>2 DEF Answered
    <3>2. /\ taken.seq <= seqC
          /\ \A j \in i + 1..Len(toC) : toC[j].kind \in Answers => toC[j].seq <= seqC
      BY <1>5, <3>1 DEF PairInv, SessionInv, AnswersInOrder
    <3>3. ASSUME NEW f \in Range(toC), f.kind \in Answers PROVE f.seq <= seqC
      <4>1. PICK j \in 1..Len(toC) : toC[j] = f
        BY <1>3, SeqRange
      <4>2. j = i \/ j \in i + 1..Len(toC)
        BY <1>4, <1>5, <3>3, <4>1
      <4> QED BY <1>3, <3>1, <3>2, <3>3, <4>1, <4>2
    <3> QED BY <3>2, <3>3 DEF NoStale
  <2>3. ASSUME NEW k \in 1..Len(toC'), toC'[k].kind \in Answers, toC'[k].seq = seqC
        PROVE  /\ taken.seq <= seqC
               /\ \A j \in k + 1..Len(toC') : toC'[j].kind \in Answers => toC'[j].seq <= seqC
    <3> DEFINE h == IF k < i THEN k ELSE k + 1
    <3>1. h \in 1..Len(toC) /\ toC'[k] = toC[h]
      BY <1>4, <1>5, <1>6
    <3>2. /\ taken.seq <= seqC
          /\ \A j \in h + 1..Len(toC) : toC[j].kind \in Answers => toC[j].seq <= seqC
      <4> HIDE DEF h
      <4> QED BY <2>3, <3>1 DEF PairInv, SessionInv, AnswersInOrder
    <3>3. ASSUME NEW j \in k + 1..Len(toC'), toC'[j].kind \in Answers PROVE toC'[j].seq <= seqC
      <4>1. PICK g \in h + 1..Len(toC) : toC'[j] = toC[g]
        <5>1. CASE j < i
          BY <1>4, <1>5, <1>6, <5>1, j \in h + 1..Len(toC), toC'[j] = toC[j]
        <5>2. CASE ~(j < i)
          BY <1>4, <1>5, <1>6, <5>2, j + 1 \in h + 1..Len(toC), toC'[j] = toC[j + 1]
        <5> QED BY <5>1, <5>2
      <4> QED BY <3>2, <3>3, <4>1
    <3> QED BY <3>2, <3>3
  <2>4. con'.active => NoStale
    BY <1>2 DEF PairInv, SessionInv, AnswersInOrder
  <2>5. \A f \in Range(toS') : f.kind \notin Answers => f.seq <= seqC'
    BY <1>2 DEF PairInv, SessionInv, AnswersInOrder
  <2> QED BY <1>2, <2>1, <2>2, <2>3, <2>4, <2>5 DEF AnswersInOrder
<1>10. AuthInv' /\ SameSession'
  BY <1>2, <1>7 DEF PairInv, SessionInv, AuthInv, SameSession, NoHelloPending, Proof, Agreed
<1>11. Shapes'
  BY <1>2, <1>3, <1>6, <1>7 DEF PairInv, Shapes
<1>12. DownIsDown'
  BY <1>2, <1>5, EmptyIsSeq DEF PairInv, DownIsDown
<1>13. PairingInv'
  BY <1>2, <1>7 DEF PairInv, PairingInv, StoredByBoth, KeptIsStored, SaidYes, ConfirmedByUser, AckedIsStored
<1> QED BY <1>8, <1>9, <1>10, <1>11, <1>12, <1>13 DEF PairInv, SessionInv

\* Frames on their way to the advertiser grow fewer, or the first is taken.
LEMMA FewerToServe ==
  ASSUME PairInv, IsSeq(toS'), Range(toS') \subseteq Range(toS), Pending' \subseteq Pending,
         taken'.seq <= seqC \/ taken' = taken, HellosGrow', toS # <<>>,
         UNCHANGED <<up, toC, seqC, seqS, kept, session, nonces, adv, con, doing, answer, parts, yes, stored>>
  PROVE  PairInv'
<1>1. Coming' = Coming
  BY DEF Coming
<1>2. Shapes'
  BY <1>1 DEF PairInv, Shapes
<1>3. DownIsDown'
  BY DEF PairInv, DownIsDown
<1>4. PairingInv'
  BY <1>1 DEF PairInv, PairingInv, StoredByBoth, KeptIsStored, SaidYes, ConfirmedByUser, AckedIsStored
<1>5. HelloIsAnswered'
  BY DEF PairInv, SessionInv, HelloIsAnswered, NoHelloPending
<1>6. AnswersInOrder'
  <2>1. NoStale => NoStale'
    BY DEF NoStale
  <2> QED BY <2>1 DEF PairInv, SessionInv, AnswersInOrder, Answered
<1>7. AuthInv' /\ SameSession'
  BY <1>1 DEF PairInv, SessionInv, AuthInv, SameSession, NoHelloPending, Proof, Agreed
<1> QED BY <1>2, <1>3, <1>4, <1>5, <1>6, <1>7 DEF PairInv, SessionInv

LEMMA HelloAnsweredInv == ASSUME PairInv, HelloAnswered PROVE PairInv'
<1>1. PICK i \in FirstOf(toS, Answers) : toS' = RemoveAt(toS, i)
  BY DEF HelloAnswered
<1>2. UNCHANGED <<up, toC, seqC, seqS, taken, kept, session, nonces, adv, con, doing, answer, parts, yes, stored>>
  BY DEF HelloAnswered, ghosts
<1>3. IsSeq(toS) /\ i \in 1..Len(toS) /\ Len(toS) \in Nat \ {0} /\ toS # <<>>
  <2>1. IsSeq(toS) /\ i \in 1..Len(toS)
    BY DEF PairInv, Shapes, FirstOf, IsSeq
  <2> QED BY <2>1, RemoveAtSeq, EmptyIsSeq
<1>4. /\ IsSeq(toS') /\ Range(toS') \subseteq Range(toS) /\ Len(toS') = Len(toS) - 1
      /\ \A j \in 1..Len(toS) - 1 : toS'[j] = IF j < i THEN toS[j] ELSE toS[j + 1]
  <2>1. /\ IsSeq(RemoveAt(toS, i)) /\ Range(RemoveAt(toS, i)) \subseteq Range(toS)
        /\ Len(RemoveAt(toS, i)) = Len(toS) - 1
        /\ \A j \in 1..Len(toS) - 1 : RemoveAt(toS, i)[j] = IF j < i THEN toS[j] ELSE toS[j + 1]
    BY <1>3, RemoveAtSeq
  <2> QED BY <1>1, <2>1, Zenon
<1>5. Pending' \subseteq Pending
  BY <1>2, <1>4 DEF Pending
<1>6. HellosGrow'
  <2> DEFINE at(j) == IF j < i THEN j ELSE j + 1
  <2>1. \A j \in 1..Len(toS') : at(j) \in 1..Len(toS) /\ toS'[j] = toS[at(j)]
    BY <1>3, <1>4
  <2>2. \A j \in 1..Len(toS') : \A k \in 1..j - 1 : at(k) \in 1..at(j) - 1 /\ k \in 1..Len(toS')
    BY <1>3, <1>4
  <2> HIDE DEF at
  <2>3. ASSUME NEW j \in 1..Len(toS'), toS'[j].kind = "HELLO"
        PROVE  /\ taken.kind = "HELLO" => taken.data[1] < toS'[j].data[1]
               /\ \A k \in 1..j - 1 : toS'[k].kind = "HELLO" => toS'[k].data[1] < toS'[j].data[1]
    BY <2>1, <2>2, <2>3 DEF PairInv, SessionInv, HellosGrow
  <2> QED BY <1>2, <1>5, <2>3 DEF PairInv, SessionInv, HellosGrow
<1> QED BY <1>2, <1>3, <1>4, <1>5, <1>6, FewerToServe

LEMMA TakeFrameInv == ASSUME PairInv, TakeFrame PROVE PairInv'
<1>1. /\ taken = NoFrame /\ toS # <<>> /\ Head(toS).kind \notin Answers /\ taken' = Head(toS) /\ toS' = Tail(toS)
      /\ UNCHANGED <<up, toC, seqC, seqS, kept, session, nonces, adv, con, doing, answer, parts, yes, stored>>
  BY DEF TakeFrame, ghosts
<1>2. /\ IsSeq(toS') /\ Range(toS) = {taken'} \cup Range(toS') /\ Len(toS) \in Nat \ {0}
      /\ Len(toS') = Len(toS) - 1 /\ taken' = toS[1]
      /\ \A i \in 1..Len(toS) - 1 : toS'[i] = toS[i + 1]
  <2>1. /\ IsSeq(Tail(toS)) /\ Range(toS) = {Head(toS)} \cup Range(Tail(toS)) /\ Len(toS) \in Nat \ {0}
        /\ Len(Tail(toS)) = Len(toS) - 1 /\ Head(toS) = toS[1]
        /\ \A i \in 1..Len(toS) - 1 : Tail(toS)[i] = toS[i + 1]
    BY <1>1, TailSeq DEF PairInv, Shapes
  <2> QED BY <1>1, <2>1, Zenon
<1>3. Pending' \subseteq Pending
  BY <1>2 DEF Pending
<1>4. taken'.seq <= seqC
  BY <1>1, <1>2 DEF PairInv, SessionInv, AnswersInOrder
<1>5. HellosGrow'
  <2>1. ASSUME NEW j \in 1..Len(toS'), toS'[j].kind = "HELLO"
        PROVE  /\ taken'.kind = "HELLO" => taken'.data[1] < toS'[j].data[1]
               /\ \A k \in 1..j - 1 : toS'[k].kind = "HELLO" => toS'[k].data[1] < toS'[j].data[1]
    <3>1. j + 1 \in 1..Len(toS) /\ toS'[j] = toS[j + 1] /\ 1 \in 1..(j + 1) - 1
      BY <1>2
    <3>2. \A k \in 1..j - 1 : k + 1 \in 1..(j + 1) - 1 /\ toS'[k] = toS[k + 1]
      BY <1>2
    <3>3. \A k \in 1..(j + 1) - 1 : toS[k].kind = "HELLO" => toS[k].data[1] < toS[j + 1].data[1]
      BY <2>1, <3>1 DEF PairInv, SessionInv, HellosGrow
    <3> QED BY <1>2, <3>1, <3>2, <3>3
  <2> QED BY <1>1, <1>3, <2>1 DEF PairInv, SessionInv, HellosGrow
<1> QED BY <1>1, <1>2, <1>3, <1>4, <1>5, FewerToServe

-----------------------------------------------------------------------------
(* The advertiser serves.                                                  *)

LEMMA ServeHelloInv == ASSUME PairInv, ServeHello PROVE PairInv'
<1> DEFINE ack   == PFrame("ACK", taken.seq, <<>>)
           hello == PFrame("HELLO", seqS + 1, <<Fresh, kept["S"], taken.data[1], Fresh>>)
           both  == toC \o <<ack, hello>>
<1>1. /\ taken.kind = "HELLO" /\ taken' = NoFrame /\ parts' = parts + 1
      /\ session' = [session EXCEPT !["S"] = Down] /\ adv' = NoAdv
      /\ nonces' = [nonces EXCEPT !["S"] = <<taken.data[1], Fresh>>]
      /\ UNCHANGED <<up, toS, seqC, kept, con, doing, answer, yes, stored>>
  BY DEF ServeHello, Serving, Drawn
<1>2. \/ ~up /\ UNCHANGED <<toC, seqS>>
      \/ up /\ toC' = both /\ seqS' = seqS + 1
  BY DEF ServeHello
<1>3. /\ ack.kind = "ACK" /\ ack.seq = taken.seq /\ ack.data = <<>>
      /\ hello.kind = "HELLO" /\ hello.seq = seqS + 1
      /\ hello.data[1] = Fresh /\ hello.data[3] = taken.data[1]
      /\ NoFrame.kind = "NONE" /\ NoFrame.seq = 0 /\ "HELLO" \notin Answers /\ "ACK" \in Answers
  BY DEF PFrame, NoFrame, Answers
<1>4. /\ IsSeq(toS) /\ IsSeq(toC) /\ seqC \in Nat /\ seqS \in Nat /\ parts \in Nat
      /\ \A f \in Pending \cup Coming : f.seq \in Nat
      /\ taken.seq \in Nat /\ DOMAIN nonces = Sides
  BY DEF PairInv, Shapes, Pending
<1> HIDE DEF ack, hello
<1>5. TwoLonger(both, toC, ack, hello)
  <2>1. IsSeq(toC)
    BY <1>4
  <2> QED BY ONLY <2>1, TwoAppended, Zenon DEF both
<1> HIDE DEF both
<1>6. IsSeq(toC') /\ Range(toC') \subseteq Range(toC) \cup {ack, hello}
  BY <1>2, <1>4, <1>5 DEF TwoLonger
<1>7. Pending' \subseteq Pending \cup {NoFrame} /\ Coming' \subseteq Coming \cup {ack, hello}
  BY <1>1, <1>6 DEF Pending, Coming
<1>8. nonces'["C"] = nonces["C"] /\ nonces'["S"] = <<taken.data[1], Fresh>> /\ DOMAIN nonces' = Sides
  BY <1>1, <1>4 DEF Sides
<1>9. ~NoHelloPending /\ taken \in Pending
  BY <1>1 DEF NoHelloPending, Pending
<1>10. HellosGrow'
  <2>1. nonces["C"][1] \in 0..parts + 1
    BY <1>4 DEF PairInv, SessionInv, HellosGrow
  <2> QED BY <1>1, <1>3, <1>7, <1>8, <2>1 DEF PairInv, SessionInv, HellosGrow
<1>11. HelloIsAnswered'
  <2>1. ASSUME taken.data[1] = nonces["C"][1] PROVE NoHelloPending'
    <3>1. ASSUME NEW f \in Range(toS), f.kind = "HELLO" PROVE FALSE
      <4>1. PICK j \in 1..Len(toS) : toS[j] = f
        BY <1>4, SeqRange
      <4>2. taken.data[1] < f.data[1] /\ f.data[1] \in 1..nonces["C"][1] /\ nonces["C"][1] \in 0..parts
        BY <1>1, <3>1, <4>1 DEF PairInv, SessionInv, HellosGrow, Pending
      <4> QED BY <1>4, <2>1, <4>2
    <3> QED BY <1>1, <1>3, <3>1 DEF NoHelloPending, Pending
  <2>2. taken.data[1] \in 1..nonces["C"][1]
    BY <1>1, <1>9 DEF PairInv, SessionInv, HellosGrow
  <2>3. ASSUME NEW f \in Range(toC), f.kind = "HELLO"
        PROVE  f.data[3] \in 1..nonces["C"][1] /\ f.data[3] # nonces["C"][1]
    BY <1>9, <2>3 DEF PairInv, SessionInv, HelloIsAnswered
  <2> QED BY <1>3, <1>6, <1>8, <2>1, <2>2, <2>3 DEF HelloIsAnswered
<1>12. AnswersInOrder'
  <2>1. /\ NoStale => NoStale'
        /\ taken.seq <= seqC => taken'.seq <= seqC
    BY <1>1, <1>3, <1>4, <1>6 DEF NoStale
  <2>2. Answered' => Answered
    BY <1>1 DEF Answered
  <2>3. ASSUME NEW i \in 1..Len(toC'), toC'[i].kind \in Answers, toC'[i].seq = seqC
        PROVE  \A j \in i + 1..Len(toC') : toC'[j].kind \in Answers => toC'[j].seq <= seqC
    <3>1. CASE toC' = toC
      BY <2>3, <3>1 DEF PairInv, SessionInv, AnswersInOrder
    <3>2. CASE TwoLonger(toC', toC, ack, hello)
      <4>1. /\ Len(toC) \in Nat /\ Len(toC') = Len(toC) + 2
            /\ toC'[Len(toC) + 1] = ack /\ toC'[Len(toC) + 2] = hello
            /\ \A j \in 1..Len(toC) : toC'[j] = toC[j]
        BY <3>2 DEF TwoLonger
      <4>2. CASE i \in 1..Len(toC)
        <5>1. /\ taken.seq <= seqC
              /\ \A j \in i + 1..Len(toC) : toC[j].kind \in Answers => toC[j].seq <= seqC
          BY <2>3, <4>1, <4>2 DEF PairInv, SessionInv, AnswersInOrder
        <5>2. ASSUME NEW j \in i + 1..Len(toC'), toC'[j].kind \in Answers PROVE toC'[j].seq <= seqC
          <6>1. CASE j \in i + 1..Len(toC)
            BY <4>1, <4>2, <5>1, <5>2, <6>1
          <6>2. j = Len(toC) + 1 \/ j = Len(toC) + 2 \/ j \in i + 1..Len(toC)
            BY <4>1, <4>2
          <6> QED BY <1>3, <4>1, <5>1, <5>2, <6>1, <6>2
        <5> QED BY <5>2
      <4>3. CASE i \notin 1..Len(toC)
        BY <1>3, <2>3, <4>1, <4>3
      <4> QED BY <4>2, <4>3
    <3> QED BY <1>2, <1>5, <3>1, <3>2
  <2>4. \A f \in Range(toS) : f.kind \notin Answers => f.seq <= seqC
    BY DEF PairInv, SessionInv, AnswersInOrder
  <2>5. Answered \/ con.active => NoStale
    BY DEF PairInv, SessionInv, AnswersInOrder
  <2>6. taken'.seq <= seqC
    BY <1>1, <1>3, <1>4
  <2> QED BY <1>1, <2>1, <2>2, <2>3, <2>4, <2>5, <2>6 DEF AnswersInOrder
<1>13. doing # "auth" /\ ~session["C"].on
  BY <1>9 DEF PairInv, SessionInv, AuthInv
<1>14. AuthInv' /\ SameSession'
  <2>1. session'["C"] = session["C"]
    BY <1>1 DEF PairInv, Shapes, Sides
  <2> QED BY <1>1, <1>13, <2>1 DEF PairInv, SessionInv, AuthInv, SameSession
<1>15. Shapes'
  <2>1. \A f \in Pending' \cup Coming' : f.seq \in Nat
    BY <1>3, <1>4, <1>7
  <2> QED BY <1>1, <1>2, <1>4, <1>6, <1>8, <2>1 DEF PairInv, Shapes, NoAdv, Sides
<1>16. DownIsDown'
  <2>1. session'["C"] = session["C"]
    BY <1>1 DEF PairInv, Shapes, Sides
  <2> QED BY <1>1, <1>2, <2>1 DEF PairInv, DownIsDown
<1>17. PairingInv'
  BY <1>1, <1>3, <1>7
     DEF PairInv, PairingInv, StoredByBoth, KeptIsStored, SaidYes, ConfirmedByUser, AckedIsStored, NoAdv
<1> QED BY <1>10, <1>11, <1>12, <1>14, <1>15, <1>16, <1>17 DEF PairInv, SessionInv

LEMMA ServeAuthInv == ASSUME PairInv, ServeAuth PROVE PairInv'
<1> DEFINE kind == IF Accepts THEN "ACK" ELSE "ERR"
           new  == PFrame(kind, taken.seq, <<>>)
           here == [on |-> TRUE, key |-> known, nc |-> nonces["S"][1], ns |-> nonces["S"][2]]
<1>1. /\ taken.kind = "AUTH" /\ taken' = NoFrame
      /\ Reply(kind, <<>>)
      /\ session' = IF Accepts THEN [session EXCEPT !["S"] = here] ELSE session
      /\ UNCHANGED <<up, toS, seqC, seqS, kept, nonces, adv, con, doing, answer, parts, yes, stored>>
  BY DEF ServeAuth, Serving, ghosts
<1>2. /\ new.kind = kind /\ new.seq = taken.seq /\ new.data = <<>> /\ kind \in {"ACK", "ERR", "BUSY"}
      /\ NoFrame.kind = "NONE"
  BY DEF PFrame, NoFrame
<1>3. /\ session'["C"] = session["C"] /\ DOMAIN session' = Sides
      /\ session'["S"] = IF Accepts THEN here ELSE session["S"]
  BY <1>1 DEF PairInv, Shapes, Sides
<1> HIDE DEF kind
<1>4. /\ Pending' \subseteq Pending \cup {NoFrame} /\ Coming' \subseteq Coming \cup {new}
      /\ IsSeq(toC') /\ \A f \in Pending' \cup Coming' : f.seq \in Nat
      /\ toC' = toC \/ up
      /\ HellosGrow' /\ HelloIsAnswered' /\ AnswersInOrder'
  BY <1>1, <1>2, ReplySent
<1> HIDE DEF new
<1>5. AuthInv' /\ SameSession'
  <2>1. SameSession'
    <3>1. SUFFICES ASSUME session["C"].on PROVE session'["S"] = session["C"]
      BY <1>3 DEF SameSession
    <3>2. session["S"] = session["C"] /\ ~Accepts
      BY <3>1 DEF PairInv, SessionInv, SameSession, Accepts
    <3> QED BY <1>3, <3>2
  <2>2. NoHelloPending => NoHelloPending'
    BY <1>2, <1>4 DEF NoHelloPending
  <2>3. ASSUME doing = "auth"
        PROVE  /\ seqC # 0
               /\ \A f \in Pending' : f.seq = seqC /\ f.kind \notin Answers => f.kind = "AUTH" /\ Proof(f)'
               /\ \A f \in Coming' : f.kind = "ACK" /\ f.seq = seqC => session'["S"] = Agreed'
    <3>1. \A f \in Pending : f.seq = seqC /\ f.kind \notin Answers => f.kind = "AUTH" /\ Proof(f)
      BY <2>3 DEF PairInv, SessionInv, AuthInv
    <3>2. \A f : Proof(f)' <=> Proof(f)
      BY <1>1 DEF Proof
    <3>3. Agreed' = Agreed
      BY <1>1 DEF Agreed
    <3>5. ASSUME NEW f \in Coming, f.kind = "ACK", f.seq = seqC PROVE session'["S"] = Agreed
      <4>1. session["S"] = Agreed
        BY <2>3, <3>5 DEF PairInv, SessionInv, AuthInv
      <4>2. ~Accepts
        BY <4>1 DEF Accepts, Agreed
      <4> QED BY <1>3, <4>1, <4>2
    <3>6. ASSUME new.kind = "ACK", new.seq = seqC PROVE session'["S"] = Agreed
      <4>1. Accepts
        BY <1>2, <3>6 DEF kind
      <4>2. Proof(taken)
        BY <1>1, <1>2, <3>1, <3>6 DEF Pending, Answers
      <4>3. known = con.ltk /\ nonces["S"][1] = nonces["C"][1] /\ nonces["S"][2] = nonces["C"][2]
        BY <4>1, <4>2 DEF Accepts, Proof
      <4> QED BY <1>3, <4>1, <4>3 DEF Agreed
    <3>7. NoFrame.seq # seqC
      BY <2>3 DEF PairInv, SessionInv, AuthInv, NoFrame, PFrame
    <3>8. seqC # 0
      BY <2>3 DEF PairInv, SessionInv, AuthInv
    <3> QED BY <1>4, <3>8, <3>1, <3>2, <3>3, <3>5, <3>6, <3>7
  <2>4. session'["C"].on => doing = "idle" /\ ~con.active
    BY <1>3 DEF PairInv, SessionInv, AuthInv
  <2>5. doing = "auth" \/ session'["C"].on => NoHelloPending' /\ nonces'["S"] = nonces'["C"]
    BY <1>1, <1>3, <2>2 DEF PairInv, SessionInv, AuthInv
  <2>6. con.active => doing \in {"idle", "confirm"}
    BY DEF PairInv, SessionInv, AuthInv
  <2> QED BY <1>1, <2>1, <2>3, <2>4, <2>5, <2>6 DEF AuthInv
<1>6. Shapes'
  BY <1>1, <1>3, <1>4 DEF PairInv, Shapes
<1>7. DownIsDown'
  BY <1>1, <1>3, <1>4 DEF PairInv, DownIsDown
<1>8. PairingInv'
  BY <1>1, <1>2, <1>4
     DEF PairInv, PairingInv, StoredByBoth, KeptIsStored, SaidYes, ConfirmedByUser, AckedIsStored
<1> QED BY <1>4, <1>5, <1>6, <1>7, <1>8 DEF PairInv, SessionInv

\* Steps of a pairing at the advertiser, with the answer that goes back.
LEMMA PairingReplyInv ==
  ASSUME PairInv, taken.kind \in {"START", "NONCE", "CONFIRM"}, taken' = NoFrame,
         NEW kind \in {"ACK", "ERR", "BUSY"}, NEW data, Reply(kind, data),
         kind = "ACK" /\ Len(data) = 2 => data[2] \in stored',
         DOMAIN kept' = Sides, kept'["C"] = kept["C"], kept'["S"] = kept["S"] \/ kept'["S"] \in stored',
         stored \subseteq stored', stored' \subseteq yes["C"] \cap yes["S"],
         adv' = [step |-> adv'.step, said |-> adv'.said, key |-> adv'.key],
         adv'.said \in {"none", "yes", "no"}, adv'.said = "yes" => adv'.key \in yes["S"],
         parts' \in {parts, parts + 1},
         UNCHANGED <<up, toS, seqC, seqS, session, nonces, con, doing, answer, yes>>
  PROVE  PairInv'
<1> DEFINE new == PFrame(kind, taken.seq, data)
<1>1. new.kind = kind /\ new.seq = taken.seq /\ new.data = data /\ NoFrame.kind = "NONE" /\ NoFrame.seq = 0
  BY DEF PFrame, NoFrame
<1>2. /\ Pending' \subseteq Pending \cup {NoFrame} /\ Coming' \subseteq Coming \cup {new}
      /\ IsSeq(toC') /\ \A f \in Pending' \cup Coming' : f.seq \in Nat
      /\ toC' = toC \/ up
      /\ HellosGrow' /\ HelloIsAnswered' /\ AnswersInOrder'
  BY ReplySent
<1> HIDE DEF new
<1>3. AuthInv' /\ SameSession'
  <2>1. NoHelloPending => NoHelloPending'
    BY <1>1, <1>2 DEF NoHelloPending
  <2>2. ASSUME doing = "auth"
        PROVE  /\ seqC # 0
               /\ \A f \in Pending' : f.seq = seqC /\ f.kind \notin Answers => f.kind = "AUTH" /\ Proof(f)'
               /\ \A f \in Coming' : f.kind = "ACK" /\ f.seq = seqC => session["S"] = Agreed'
    <3>1. /\ seqC # 0
          /\ \A f \in Pending : f.seq = seqC /\ f.kind \notin Answers => f.kind = "AUTH" /\ Proof(f)
          /\ \A f \in Coming : f.kind = "ACK" /\ f.seq = seqC => session["S"] = Agreed
      BY <2>2 DEF PairInv, SessionInv, AuthInv
    <3>2. (\A f : Proof(f)' <=> Proof(f)) /\ Agreed' = Agreed
      BY DEF Proof, Agreed
    <3>3. taken.seq # seqC
      BY <3>1 DEF Pending, Answers
    <3> QED BY <1>1, <1>2, <3>1, <3>2, <3>3
  <2>3. SameSession'
    BY DEF PairInv, SessionInv, SameSession
  <2> QED BY <2>1, <2>2, <2>3 DEF PairInv, SessionInv, AuthInv
<1>4. Shapes'
  <2>1. parts' \in Nat
    BY DEF PairInv, Shapes
  <2> QED BY <1>2, <2>1 DEF PairInv, Shapes
<1>5. DownIsDown'
  BY <1>2 DEF PairInv, DownIsDown
<1>6. PairingInv'
  <2>1. KeptIsStored'
    BY DEF PairInv, PairingInv, KeptIsStored, Sides
  <2>2. ConfirmedByUser' /\ AckedIsStored'
    BY <1>1, <1>2 DEF PairInv, PairingInv, ConfirmedByUser, AckedIsStored
  <2> QED BY <2>1, <2>2 DEF PairingInv, StoredByBoth, SaidYes
<1> QED BY <1>2, <1>3, <1>4, <1>5, <1>6 DEF PairInv, SessionInv

LEMMA AdvShape ==
  ASSUME Shapes, NEW k, NEW n
  PROVE  /\ [adv EXCEPT !.said = k] = [step |-> adv.step, said |-> k, key |-> adv.key]
         /\ [adv EXCEPT !.step = n, !.said = k] = [step |-> n, said |-> k, key |-> adv.key]
<1> DEFINE r == [step |-> adv.step, said |-> adv.said, key |-> adv.key]
<1>1. adv = r
  BY DEF Shapes
<1>2. [r EXCEPT !.said = k] = [step |-> adv.step, said |-> k, key |-> adv.key]
  OBVIOUS
<1>3. [r EXCEPT !.step = n] = [step |-> n, said |-> adv.said, key |-> adv.key]
  OBVIOUS
<1>4. [[step |-> n, said |-> adv.said, key |-> adv.key] EXCEPT !.said = k]
        = [step |-> n, said |-> k, key |-> adv.key]
  OBVIOUS
<1>5. [adv EXCEPT !.step = n, !.said = k] = [[adv EXCEPT !.step = n] EXCEPT !.said = k]
  BY SMT
<1> QED BY <1>1, <1>2, <1>3, <1>4, <1>5, Zenon

\* What the pairing has when a step leaves it as it is.
LEMMA PairingAsItIs ==
  ASSUME PairInv
  PROVE  /\ DOMAIN kept = Sides /\ stored \subseteq yes["C"] \cap yes["S"]
         /\ adv = [step |-> adv.step, said |-> adv.said, key |-> adv.key]
         /\ adv.said \in {"none", "yes", "no"} /\ (adv.said = "yes" => adv.key \in yes["S"])
BY DEF PairInv, Shapes, PairingInv, StoredByBoth, SaidYes

LEMMA ServeStartInv == ASSUME PairInv, ServeStart PROVE PairInv'
<1>1. /\ taken.kind = "START" /\ taken' = NoFrame
      /\ UNCHANGED <<up, toS, seqC, seqS, kept, session, nonces, con, doing, answer, yes, stored>>
  BY DEF ServeStart, Serving
<1>2. CASE session["S"].on
  <2>1. UNCHANGED <<adv, parts>> /\ Reply("ERR", <<>>)
    BY <1>2 DEF ServeStart
  <2> QED BY <1>1, <2>1, PairingAsItIs, PairingReplyInv
<1>3. CASE ~session["S"].on
  <2>1. /\ parts' = parts + 1 /\ Reply("ACK", <<Fresh>>)
        /\ adv' = [step |-> 1, said |-> "none", key |-> <<taken.data[1], Fresh>>]
    BY <1>3 DEF ServeStart, Drawn
  <2>2. Len(<<Fresh>>) # 2
    OBVIOUS
  <2>3. adv'.said = "none" /\ adv' = [step |-> adv'.step, said |-> adv'.said, key |-> adv'.key]
    BY <2>1
  <2> QED BY <1>1, <2>1, <2>2, <2>3, PairingAsItIs, PairingReplyInv
<1> QED BY <1>2, <1>3

LEMMA ServeNonceInv == ASSUME PairInv, ServeNonce PROVE PairInv'
<1>1. /\ taken.kind = "NONCE" /\ taken' = NoFrame
      /\ UNCHANGED <<up, toS, seqC, seqS, kept, session, nonces, con, doing, answer, parts, yes, stored>>
  BY DEF ServeNonce, Serving, ghosts
<1>2. Len(<<>>) # 2
  OBVIOUS
<1>3. CASE session["S"].on
  <2>1. UNCHANGED adv /\ Reply("ERR", <<>>)
    BY <1>3 DEF ServeNonce
  <2> QED BY <1>1, <2>1, PairingAsItIs, PairingReplyInv
<1>4. CASE ~session["S"].on /\ adv.step = 1
  <2>1. adv' = [adv EXCEPT !.step = 2, !.said = "none"] /\ Reply("ACK", <<>>)
    BY <1>4 DEF ServeNonce
  <2>2. adv' = [step |-> 2, said |-> "none", key |-> adv.key]
    BY <2>1, AdvShape DEF PairInv
  <2>3. adv'.said = "none" /\ adv' = [step |-> adv'.step, said |-> adv'.said, key |-> adv'.key]
    BY <2>2
  <2> QED BY <1>1, <1>2, <2>1, <2>3, PairingAsItIs, PairingReplyInv
<1>5. CASE ~session["S"].on /\ adv.step # 1
  <2>1. adv' = NoAdv /\ Reply("ERR", <<>>)
    BY <1>5 DEF ServeNonce
  <2>2. adv'.said = "none" /\ adv' = [step |-> adv'.step, said |-> adv'.said, key |-> adv'.key]
    BY <2>1 DEF NoAdv
  <2> QED BY <1>1, <2>1, <2>2, PairingAsItIs, PairingReplyInv
<1> QED BY <1>3, <1>4, <1>5

LEMMA ServeConfirmInv == ASSUME PairInv, ServeConfirm PROVE PairInv'
<1>1. /\ taken.kind = "CONFIRM" /\ taken' = NoFrame
      /\ UNCHANGED <<up, toS, seqC, seqS, session, nonces, con, doing, answer, parts, yes>>
  BY DEF ServeConfirm, Serving
<1>2. NoAdv.said = "none" /\ NoAdv = [step |-> NoAdv.step, said |-> NoAdv.said, key |-> NoAdv.key]
  BY DEF NoAdv
<1>3. CASE session["S"].on \/ adv.step # 2
  <2>1. adv' \in {adv, NoAdv} /\ Reply("ERR", <<>>) /\ UNCHANGED <<kept, stored>>
    BY <1>3 DEF ServeConfirm
  <2>2. CASE adv' = adv
    BY <1>1, <2>1, <2>2, PairingAsItIs, PairingReplyInv
  <2>3. CASE adv' = NoAdv
    BY <1>1, <1>2, <2>1, <2>3, PairingAsItIs, PairingReplyInv
  <2> QED BY <2>1, <2>2, <2>3
<1>4. CASE ~(session["S"].on \/ adv.step # 2) /\ adv.said = "none"
  <2>1. Reply("BUSY", <<>>) /\ UNCHANGED <<adv, kept, stored>>
    BY <1>4 DEF ServeConfirm
  <2> QED BY <1>1, <2>1, PairingAsItIs, PairingReplyInv
<1>5. CASE ~(session["S"].on \/ adv.step # 2) /\ adv.said # "none" /\ Refused
  <2>1. adv' = NoAdv /\ Reply("ACK", <<0>>) /\ UNCHANGED <<kept, stored>>
    BY <1>5 DEF ServeConfirm
  <2>2. Len(<<0>>) # 2
    OBVIOUS
  <2> QED BY <1>1, <1>2, <2>1, <2>2, PairingAsItIs, PairingReplyInv
<1>6. CASE ~(session["S"].on \/ adv.step # 2) /\ adv.said # "none" /\ ~Refused /\ taken.data[2] # adv.key
  <2>1. adv' = NoAdv /\ Reply("ERR", <<>>) /\ UNCHANGED <<kept, stored>>
    BY <1>6 DEF ServeConfirm
  <2> QED BY <1>1, <1>2, <2>1, PairingAsItIs, PairingReplyInv
<1>7. CASE ~(session["S"].on \/ adv.step # 2) /\ adv.said # "none" /\ ~Refused /\ taken.data[2] = adv.key
  <2>1. /\ adv' = NoAdv /\ Reply("ACK", <<1, adv.key>>)
        /\ kept' = [kept EXCEPT !["S"] = adv.key] /\ stored' = stored \union {adv.key}
    BY <1>7 DEF ServeConfirm
  <2>2. adv.said = "yes" /\ taken.data[1] = 1
    BY <1>7, PairingAsItIs DEF Refused
  <2>3. adv.key \in yes["S"] /\ adv.key \in yes["C"]
    BY <1>1, <1>7, <2>2 DEF PairInv, PairingInv, SaidYes, ConfirmedByUser, Pending
  <2>4. stored' \subseteq yes["C"] \cap yes["S"] /\ stored \subseteq stored'
    BY <2>1, <2>3, PairingAsItIs
  <2>5. DOMAIN kept' = Sides /\ kept'["C"] = kept["C"] /\ kept'["S"] \in stored'
    BY <2>1, PairingAsItIs DEF Sides
  <2>6. <<1, adv.key>>[2] \in stored'
    BY <2>1
  <2> QED BY <1>1, <1>2, <2>1, <2>4, <2>5, <2>6, PairingReplyInv
<1> QED BY <1>3, <1>4, <1>5, <1>6, <1>7

\* A user's word, and a pairing forgotten: no frame moves.
LEMMA AtRest ==
  ASSUME PairInv,
         adv' = [step |-> adv'.step, said |-> adv'.said, key |-> adv'.key],
         adv'.said \in {"none", "yes", "no"}, adv'.said = "yes" => adv'.key \in yes'["S"],
         DOMAIN yes' = Sides, \A s \in Sides : yes[s] \subseteq yes'[s],
         DOMAIN kept' = Sides, \A s \in Sides : kept'[s] \in {kept[s], NoKey},
         UNCHANGED <<up, toS, toC, seqC, seqS, taken, session, nonces, con, doing, answer, parts, stored>>
  PROVE  PairInv'
<1>1. /\ Pending' = Pending /\ Coming' = Coming
      /\ \A f \in Pending' \cup Coming' : f.seq \in Nat
      /\ HellosGrow' /\ HelloIsAnswered' /\ AnswersInOrder'
  <2>1. Pending' = Pending /\ Coming' = Coming
    BY DEF Pending, Coming
  <2> QED BY <2>1, QuietStep DEF PairInv, SessionInv, AnswersInOrder
<1>2. Shapes' /\ DownIsDown'
  BY <1>1 DEF PairInv, Shapes, DownIsDown
<1>3. PairingInv'
  <2>1. StoredByBoth'
    BY DEF PairInv, PairingInv, StoredByBoth, Sides
  <2>2. KeptIsStored'
    BY DEF PairInv, PairingInv, KeptIsStored
  <2>3. ConfirmedByUser' /\ AckedIsStored'
    BY <1>1 DEF PairInv, PairingInv, ConfirmedByUser, AckedIsStored, Sides
  <2> QED BY <2>1, <2>2, <2>3 DEF PairingInv, SaidYes
<1>4. AuthInv' /\ SameSession'
  BY <1>1 DEF PairInv, SessionInv, AuthInv, SameSession, NoHelloPending, Proof, Agreed
<1> QED BY <1>1, <1>2, <1>3, <1>4 DEF PairInv, SessionInv

LEMMA AnswerPairingInv == ASSUME PairInv, NEW accept \in BOOLEAN, AnswerPairing(accept) PROVE PairInv'
<1> DEFINE word == IF accept THEN "yes" ELSE "no"
<1>1. /\ adv' = [adv EXCEPT !.said = word]
      /\ yes' = IF accept THEN [yes EXCEPT !["S"] = yes["S"] \union {adv.key}] ELSE yes
      /\ UNCHANGED <<up, toS, toC, seqC, seqS, taken, kept, session, nonces, con, doing, answer, parts, stored>>
  BY DEF AnswerPairing, wires
<1>2. word \in {"yes", "no"} /\ (word = "yes" <=> accept)
  OBVIOUS
<1> HIDE DEF word
<1>3. adv' = [step |-> adv.step, said |-> word, key |-> adv.key]
  BY <1>1, AdvShape DEF PairInv
<1>4. /\ adv' = [step |-> adv'.step, said |-> adv'.said, key |-> adv'.key]
      /\ adv'.said = word /\ adv'.key = adv.key
  BY <1>3
<1>5. DOMAIN kept = Sides /\ DOMAIN yes' = Sides /\ (\A s \in Sides : yes[s] \subseteq yes'[s])
      /\ (accept => adv.key \in yes'["S"])
  BY <1>1 DEF PairInv, Shapes, Sides
<1> QED BY <1>1, <1>2, <1>4, <1>5, AtRest

LEMMA ForgetInv == ASSUME PairInv, NEW s \in Sides, Forget(s) PROVE PairInv'
<1>1. /\ kept' = [kept EXCEPT ![s] = NoKey]
      /\ UNCHANGED <<up, toS, toC, seqC, seqS, taken, session, nonces, adv, con, doing, answer, parts, yes, stored>>
  BY DEF Forget, wires, ghosts
<1>2. DOMAIN kept' = Sides /\ (\A x \in Sides : kept'[x] \in {kept[x], NoKey}) /\ DOMAIN yes = Sides
  BY <1>1 DEF PairInv, Shapes
<1> QED BY <1>1, <1>2, PairingAsItIs, AtRest

LEMMA PairNextInv == PairInv /\ [PairNext]_pairVars => PairInv'
<1> SUFFICES ASSUME PairInv, [PairNext]_pairVars PROVE PairInv'
  OBVIOUS
<1>1. CASE ConnectorNext
  BY <1>1, ConnectInv, HelloDoneInv, AuthDoneInv, StartDoneInv, NonceDoneInv, ConfirmDoneInv,
     ConnectorFrameInv, PairConfirmInv DEF ConnectorNext
<1>2. CASE AdvertiserNext
  BY <1>2, HelloAnsweredInv, TakeFrameInv, ServeHelloInv, ServeAuthInv, ServeStartInv, ServeNonceInv,
     ServeConfirmInv, AnswerPairingInv DEF AdvertiserNext
<1>3. CASE PairLinkLost
  BY <1>3, DropInv DEF PairLinkLost
<1>4. CASE \E s \in Sides : Forget(s)
  BY <1>4, ForgetInv
<1>5. CASE UNCHANGED pairVars
  <2>1. UNCHANGED <<up, toS, toC, seqC, seqS, taken, kept, session, nonces, adv, con, doing, answer, parts, yes,
                    stored>>
    BY <1>5 DEF pairVars, wires, ghosts
  <2>2. DOMAIN yes = Sides
    BY DEF PairInv, Shapes
  <2> QED BY <2>1, <2>2, PairingAsItIs, AtRest
<1> QED BY <1>1, <1>2, <1>3, <1>4, <1>5 DEF PairNext

LEMMA PairInvAlways == PairSpec => []PairInv
BY PairInitInv, PairNextInv, PTL DEF PairSpec

-----------------------------------------------------------------------------
(* Whatever links are lost, HELLOs crossed and late frames served, a       *)
(* connector that takes the link for authenticated is on the advertiser's  *)
(* very session (helloExchange, serveHello, serveAuth).                    *)
THEOREM SessionsAgree == PairSpec => []SameSession
<1>1. PairInv => SameSession
  BY DEF PairInv, SessionInv
<1> QED BY <1>1, PairInvAlways, PTL

(* A key either side keeps, both users confirmed, and the advertiser kept  *)
(* it first (pairConfirm, servePair).                                      *)
THEOREM KeysAreConfirmed == PairSpec => []PairedByBoth
<1>1. PairInv => PairedByBoth
  BY DEF PairInv, PairingInv, KeptIsStored, StoredByBoth, PairedByBoth, Sides
<1> QED BY <1>1, PairInvAlways, PTL
=============================================================================
