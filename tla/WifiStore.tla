------------------------------ MODULE WifiStore ------------------------------
(***************************************************************************)
(* The Wi-Fi commands of the CE-163WL mock (src/src/bus/expansion_mock.cpp *)
(* wifiCommand, wifiJoin): the last scan, the network joined, and the few  *)
(* networks and passwords remembered, the most recent first.               *)
(***************************************************************************)
EXTENDS Integers, Sequences, FiniteSets, SequencesExt, Sublists

CONSTANTS
  Networks,    \* [ssid, rssi, security, password]: what may be in range
  Passwords,   \* what a user may type
  Remembered,  \* kWifiRemembered
  NoText       \* no name or password given, no network joined

ASSUME WifiAssumption ==
  /\ Remembered \in Nat \ {0} /\ IsFiniteSet(Networks)
  /\ \A m, n \in Networks : m.ssid = n.ssid \/ m.rssi = n.rssi => m = n

VARIABLES
  air,         \* wifiNetworks_: the networks in range
  found,       \* wifiFound_
  known,       \* wifiKnown_: <<ssid, password>>
  joined       \* wifiSsid_

wifiVars == <<air, found, known, joined>>

Ssids == {n.ssid : n \in Networks}

WifiInit == air = Networks /\ found = <<>> /\ known = <<>> /\ joined = NoText

\* A scan: the networks in range, the strongest first.
Scans == {f \in [1..Cardinality(air) -> air] : \A i, j \in DOMAIN f : i < j => f[i].rssi > f[j].rssi}

Knows(ssid) == \E i \in DOMAIN known : known[i][1] = ssid

KnownPassword(ssid) == known[CHOOSE i \in DOMAIN known : known[i][1] = ssid][2]

Found(f, ssid) == Those(f, {n \in Networks : n.ssid = ssid})

Others(ssid) == Those(known, (Ssids \ {ssid}) \X (Passwords \union {NoText}))

\* Slip: a network joined again is remembered twice.
FiledAgain(ssid, pw) ==
  SubSeq(<<<<ssid, pw>>>> \o known, 1, IF Len(known) >= Remembered THEN Remembered ELSE Len(known) + 1)

Filed(ssid, pw) ==
  LET all == <<<<ssid, pw>>>> \o Others(ssid)
  IN IF Len(all) > Remembered THEN Front(all) ELSE all

\* wifiJoin: the old network is left even when the new one refuses.
Join(f, ssid, pw) ==
  LET at == Found(f, ssid) IN
  IF at # <<>> /\ (at[1].security = "OPEN" \/ pw = at[1].password)
  THEN [joined |-> ssid, known |-> Filed(ssid, pw)]
  ELSE [joined |-> NoText, known |-> known]

Refused == [joined |-> joined, known |-> known]

\* The password given, else the remembered one, else none for an open
\* network or one that is not in range; without one nothing happens.
WithPassword(f, ssid, pw) ==
  IF \E i \in DOMAIN f : f[i].ssid = ssid /\ f[i].security = "WEP" THEN Refused
  ELSE IF pw # NoText THEN Join(f, ssid, pw)
  ELSE IF Knows(ssid) THEN Join(f, ssid, KnownPassword(ssid))
  ELSE IF \E i \in DOMAIN f : f[i].ssid = ssid /\ f[i].security # "OPEN" THEN Refused
  ELSE Join(f, ssid, NoText)

Ends(o) == joined' = o.joined /\ known' = o.known

WifiScan == found' \in Scans /\ UNCHANGED <<air, known, joined>>

\* WFCONNECT by a number of the last listing, which may be old.
WifiConnect(i, pw) ==
  /\ i \in DOMAIN found
  /\ Ends(WithPassword(found, found[i].ssid, pw))
  /\ UNCHANGED <<air, found>>

WifiConnectName(ssid, pw) ==
  /\ found' \in Scans
  /\ Ends(WithPassword(found', ssid, pw))
  /\ UNCHANGED air

\* No name: the network joined already, else the strongest one remembered.
WifiConnectKnown ==
  /\ joined = NoText
  /\ found' \in Scans
  /\ LET mine == Those(found', {n \in Networks : Knows(n.ssid)})
     IN Ends(IF mine = <<>> THEN Refused
             ELSE Join(found', mine[1].ssid, KnownPassword(mine[1].ssid)))
  /\ UNCHANGED air

WifiDisconnect == joined' = NoText /\ UNCHANGED <<air, found, known>>

WifiForget(ssid) ==
  /\ known' = IF ssid = NoText THEN <<>> ELSE Others(ssid)
  /\ UNCHANGED <<air, found, joined>>

\* Networks come into range and go.
AirChanges ==
  /\ air' \in SUBSET Networks
  /\ UNCHANGED <<found, known, joined>>

WifiNext ==
  \/ WifiScan \/ WifiConnectKnown \/ WifiDisconnect \/ AirChanges
  \/ \E i \in DOMAIN found, pw \in Passwords \union {NoText} : WifiConnect(i, pw)
  \/ \E s \in Ssids, pw \in Passwords \union {NoText} : WifiConnectName(s, pw)
  \/ \E s \in Ssids \union {NoText} : WifiForget(s)

WifiSpec == WifiInit /\ [][WifiNext]_wifiVars

-----------------------------------------------------------------------------
WifiTypeOK ==
  /\ air \subseteq Networks
  /\ found \in Seq(Networks)
  /\ known \in Seq(Ssids \X (Passwords \union {NoText}))
  /\ joined \in Ssids \union {NoText}

\* The store of remembered networks: each once, never more than its room,
\* each secured one with a password that joined it, and the network joined
\* first unless it has been forgotten (wifiJoin, after any order of joins,
\* refusals and forgets).
RememberedRight ==
  /\ Len(known) <= Remembered
  /\ \A i, j \in DOMAIN known : known[i][1] = known[j][1] => i = j
  /\ \A i \in DOMAIN known, n \in Networks :
       known[i][1] = n.ssid => n.security = "OPEN" \/ known[i][2] = n.password
  /\ joined # NoText /\ Knows(joined) => known[1][1] = joined
=============================================================================
