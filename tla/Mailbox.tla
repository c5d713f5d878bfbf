------------------------------- MODULE Mailbox -------------------------------
(***************************************************************************)
(* What the command cell of an expansion module promises the program that  *)
(* writes commands to it and polls it: the latest write wins.  The cell    *)
(* answers the newest command only, never one that a newer write overtook, *)
(* and it reads BUSY before it reads an answer.                            *)
(***************************************************************************)
EXTENDS Naturals

CONSTANT MaxWrites  \* bound on the commands written in one behaviour

(* What the cell reads: a word, and for an answer the command it answers.  *)
Busy      == <<"busy", 0>>
Awake     == <<"awake", 0>>
Answer(n) == <<"answer", n>>

VARIABLES
  owed,   \* the newest command, numbered from 1; 0: none since power-on
  shown   \* what the cell reads

mailboxVars == <<owed, shown>>

Init == owed = 0 /\ shown = Awake

\* A new command; the cell may go on reading the old answer until the BUSY
\* stamp lands.
Write == /\ owed' \in 1..MaxWrites
         /\ owed' > owed
         /\ shown' \in {shown, Busy}

Stamp == /\ owed # 0
         /\ shown' = Busy
         /\ UNCHANGED owed

\* Only the newest command is answered, and only out of BUSY.
Reply == /\ owed # 0
         /\ shown = Busy
         /\ shown' = Answer(owed)
         /\ UNCHANGED owed

\* A wake may replace an answer already given, never the BUSY of a command
\* still owed one.
Wake == /\ shown = Busy => owed = 0
        /\ shown' = Awake
        /\ UNCHANGED owed

\* Power-on: whatever was owed is gone.
Reset == owed' = 0 /\ UNCHANGED shown

Next == Write \/ Stamp \/ Reply \/ Wake \/ Reset

Spec == Init /\ [][Next]_mailboxVars

=============================================================================
