------------------------------ MODULE LinkLocks ------------------------------
(***************************************************************************)
(* The two mutexes of LinkCore: mutex_ (the link, its slots and its log)   *)
(* and sec_->m (the session, the pairings).  Four threads take them: the   *)
(* transport's callbacks, the server thread, the command worker and the    *)
(* user interface.  A call is the sequence of acquisitions and releases it *)
(* makes; what it does under the locks is the other Link modules' subject. *)
(***************************************************************************)
EXTENDS Naturals, Sequences

CONSTANTS
  BadFrames  \* a frame or a proof that doesn't verify may arrive

ASSUME BadFramesAssumption == BadFrames \in BOOLEAN

Threads == {"transport", "server", "worker", "ui"}
Locks   == {"mutex", "sec"}

Acquire(m) == [lock |-> m, take |-> TRUE]
Release(m) == [lock |-> m, take |-> FALSE]
Brief(m)   == <<Acquire(m), Release(m)>>
Nested(outer, inner) ==
  <<Acquire(outer), Acquire(inner), Release(inner), Release(outer)>>

-----------------------------------------------------------------------------
(* The calls.  log() takes mutex_ for itself.                              *)

Log        == Brief("mutex")
Sealed     == Brief("sec")  \* sendFrame and authed

FrameOpened == Brief("sec") \o Brief("mutex")
FrameRejected == Nested("sec", "mutex")  \* log() inside sec_->m's scope
LinkChanged == Nested("mutex", "sec") \o Log

\* request() answered, and timed out: dropLink logs and calls onLink.
RequestAnswered == Brief("mutex") \o Sealed \o Brief("mutex")
TimedOut == RequestAnswered \o Log \o LinkChanged

\* serveHello up to its own HELLO, and that request.
HelloServed == Brief("mutex") \o Brief("mutex") \o Brief("sec") \o Log
                 \o Sealed
AuthServed  == Brief("sec") \o Brief("mutex") \o Log
AuthRefused == Brief("sec")
AuthRejected  == Nested("sec", "mutex")  \* log() inside sec_->m's scope
PairServed  == Brief("mutex") \o Brief("sec") \o Log \o Sealed

\* Slip: status() takes the two locks the other way round.
StatusAskedInside == Nested("sec", "mutex")
StatusAsked == Nested("mutex", "sec")

(* The calls each thread makes.                                            *)
Calls(t) ==
  CASE t = "transport" ->
         {FrameOpened, LinkChanged}
           \cup (IF BadFrames THEN {FrameRejected} ELSE {})
    [] t = "server" ->
         {HelloServed, RequestAnswered, TimedOut, AuthServed, AuthRefused, PairServed}
           \cup (IF BadFrames THEN {AuthRejected} ELSE {})
    [] t = "worker" -> {StatusAsked, RequestAnswered, TimedOut}
    [] t = "ui"     -> {Brief("mutex"), Brief("sec")}

-----------------------------------------------------------------------------
VARIABLES
  owner,  \* lock -> the thread that holds it, or "nobody"
  todo    \* thread -> what is left of its call

lockVars == <<owner, todo>>

\* A call holds exactly the locks it will release before it takes them.
WillRelease(t, m) ==
  \E i \in DOMAIN todo[t] :
    /\ todo[t][i] = Release(m)
    /\ \A j \in 1..i - 1 : todo[t][j].lock # m

LocksTypeOK ==
  /\ owner \in [Locks -> Threads \cup {"nobody"}]
  /\ \A t \in Threads :
       todo[t] \in Seq([lock : Locks, take : BOOLEAN])
  /\ \A m \in Locks, t \in Threads : owner[m] = t <=> WillRelease(t, m)

LocksInit ==
  /\ owner = [m \in Locks |-> "nobody"]
  /\ todo = [t \in Threads |-> <<>>]

Call(t) ==
  /\ todo[t] = <<>>
  /\ \E c \in Calls(t) : todo' = [todo EXCEPT ![t] = c]
  /\ UNCHANGED owner

Step(t) ==
  /\ todo[t] # <<>>
  /\ LET step == Head(todo[t])
     IN  /\ owner[step.lock] = IF step.take THEN "nobody" ELSE t
         /\ owner' = [owner EXCEPT ![step.lock] =
                        IF step.take THEN t ELSE "nobody"]
  /\ todo' = [todo EXCEPT ![t] = Tail(@)]

LocksNext == \E t \in Threads : Call(t) \/ Step(t)

LocksSpec == LocksInit /\ [][LocksNext]_lockVars

-----------------------------------------------------------------------------
\* t can't go on before u releases a lock.
WaitsFor(t, u) ==
  /\ todo[t] # <<>>
  /\ Head(todo[t]).take
  /\ owner[Head(todo[t]).lock] = u

\* No two threads each wait for the other's lock, and none for its own:
\* servePair's comment states the order that is to keep the locks so.
NeverCrossed == ~ \E t, u \in Threads : WaitsFor(t, u) /\ WaitsFor(u, t)

=============================================================================
