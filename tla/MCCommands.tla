----------------------------- MODULE MCCommands -----------------------------
(***************************************************************************)
(* The commands of the CE-163WL mock on small instances.  The families     *)
(* share no state but the worker that runs them one at a time (module      *)
(* ExpansionCommand), so a behaviour keeps to one of them.                 *)
(***************************************************************************)
EXTENDS SdCard, RomStaging, WifiStore, FakePeer, Terminals, TLC

CONSTANTS c1, c2, h1, h2, k1, k2, l1, l2, l3

VARIABLE family

Perms == Permutations(Channels) \cup Permutations(HostKeys)

MCPaths == {<<"A">>, <<"D">>, <<"D", "A">>}
MCArgs == {[abs |-> FALSE, rest |-> <<"A">>], [abs |-> FALSE, rest |-> <<"D">>],
           [abs |-> FALSE, rest |-> <<"..">>], [abs |-> TRUE, rest |-> <<"A">>]}
MCCards == {(<<"A">> :> None) @@ (<<"D">> :> None) @@ (<<"D", "A">> :> None),
            (<<"A">> :> 1) @@ (<<"D">> :> Dir) @@ (<<"D", "A">> :> None)}

MCNetworks ==
  {[ssid |-> "H", rssi |-> 4, security |-> "OPEN", password |-> "-"],
   [ssid |-> "P", rssi |-> 3, security |-> "WPA2", password |-> "p"],
   [ssid |-> "Q", rssi |-> 2, security |-> "WPA2", password |-> "q"],
   [ssid |-> "W", rssi |-> 1, security |-> "WEP", password |-> "w"]}

Init ==
  /\ SdInit /\ RomInit /\ WifiInit /\ PeerInit /\ TerminalInit
  /\ family \in {"sd", "rom", "wifi", "peer files", "peer messages", "ssh", "history"}
  /\ family # "sd" => node = CHOOSE c \in Cards : TRUE
  /\ family # "peer files" => files = [n \in Names |-> NoFile]
  /\ host = h1
  /\ family # "history" => original = l1

Next ==
  /\ UNCHANGED family
  /\ \/ family = "sd" /\ SdNext /\ UNCHANGED <<romVars, wifiVars, peerVars, terminalVars>>
     \/ family = "rom" /\ RomNext /\ UNCHANGED <<sdVars, wifiVars, peerVars, terminalVars>>
     \/ family = "wifi" /\ WifiNext /\ UNCHANGED <<sdVars, romVars, peerVars, terminalVars>>
     \/ /\ family = "peer files" /\ (LinkNext \/ FileNext)
        /\ UNCHANGED <<sdVars, romVars, wifiVars, terminalVars>>
     \/ /\ family = "peer messages" /\ (LinkNext \/ MessageNext)
        /\ UNCHANGED <<sdVars, romVars, wifiVars, terminalVars>>
     \/ family = "ssh" /\ SshNext /\ UNCHANGED <<sdVars, romVars, wifiVars, peerVars>>
     \/ family = "history" /\ HistNext /\ UNCHANGED <<sdVars, romVars, wifiVars, peerVars>>

Spec == Init /\ [][Next]_<<family, sdVars, romVars, wifiVars, peerVars, terminalVars>>

TypeOK == SdTypeOK /\ RomTypeOK /\ WifiTypeOK /\ PeerTypeOK /\ TerminalTypeOK
=============================================================================
