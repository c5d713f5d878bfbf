------------------------------- MODULE MCLink -------------------------------
(***************************************************************************)
(* The Link's parts on small instances: LinkCore's two mutexes, its        *)
(* requests and their answers, HELLO, AUTH and pairing until a session is  *)
(* on, what the server thread serves once it is, and the files of two      *)
(* peers.  A behaviour keeps to one of them: each module has the state it  *)
(* is about, and takes from the others what its comments say of it.        *)
(***************************************************************************)
EXTENDS LinkLocks, LinkRequest, LinkPairing, LinkServer, LinkPeers, TLC

CONSTANTS
  Families,       \* of the five below
  workerThread, serverThread  \* the threads that make requests

VARIABLE family

all == <<family, lockVars, requestVars, pairVars, vars, peersVars>>

Init ==
  /\ LocksInit /\ RequestInit /\ PairInit /\ ServerInit /\ PeersInit
  /\ family \in Families

Next ==
  /\ UNCHANGED family
  /\ \/ family = "locks" /\ LocksNext /\ UNCHANGED <<requestVars, pairVars, vars, peersVars>>
     \/ family = "requests" /\ RequestNext /\ UNCHANGED <<lockVars, pairVars, vars, peersVars>>
     \/ family = "pairing" /\ PairNext /\ UNCHANGED <<lockVars, requestVars, vars, peersVars>>
     \/ family = "server" /\ ServerStep /\ UNCHANGED <<lockVars, requestVars, pairVars, peersVars>>
     \/ family = "peers" /\ PeersNext /\ UNCHANGED <<lockVars, requestVars, pairVars, vars>>

Spec == Init /\ [][Next]_all /\ Fairness
=============================================================================
