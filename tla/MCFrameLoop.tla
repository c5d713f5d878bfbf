---------------------------- MODULE MCFrameLoop ----------------------------
(***************************************************************************)
(* What the frame loop turns besides the CPU's own steps, on small         *)
(* instances: the expansion mock's command cell, worker and sleep, the     *)
(* timer signal that WAIT and BREAK watch, and the debugger that takes the *)
(* loop over.  A behaviour keeps to one of them: they share no state but   *)
(* the loop.                                                               *)
(***************************************************************************)
EXTENDS ExpansionCommand, TimerPulse, DebugAdapter

CONSTANT Families  \* of "expansion", "pulse" and "debugger"

VARIABLE family

\* One emulator started by the adapter and run at once, one attached to and
\* stopped at its entry.
MCSessions == {<<TRUE, FALSE>>, <<FALSE, TRUE>>}

all == <<family, commandVars, pulseVars, debugVars>>

\* Only its own family starts from more than one state.
Init ==
  /\ CommandInit /\ PulseInit /\ DebugInit /\ family \in Families
  /\ family # "expansion" => missWakes = 0
  /\ family # "debugger" => launches /\ target.pc = Places

InExpansion(A) == family = "expansion" /\ A /\ UNCHANGED <<family, pulseVars, debugVars>>
InPulse(A) == family = "pulse" /\ A /\ UNCHANGED <<family, commandVars, debugVars>>
InDebugger(A) == family = "debugger" /\ A /\ UNCHANGED <<family, commandVars, pulseVars>>

Next == InExpansion(CommandNext) \/ InPulse(PulseNext) \/ InDebugger(DebugNext)

\* The fairness of CommandFairSpec, PulseFairSpec and DebugSpec.
Fairness ==
  /\ WF_all(InExpansion(Worker)) /\ WF_all(InExpansion(Advance))
  /\ \A t \in TimerNames \ {"wait"} :
       WF_all(InExpansion(\E el \in SUBSET timers : t \in el /\ AdvanceCycles(el)))
  /\ WF_all(InPulse(Tick)) /\ WF_all(InPulse(NextFrame)) /\ WF_all(InPulse(RomRuns))
  /\ WF_all(InPulse(HandleMI)) /\ SF_all(InPulse(BreakCheck)) /\ SF_all(InPulse(OtherStatement))
  /\ WF_all(InDebugger(Emulates)) /\ WF_all(InDebugger(Handles)) /\ WF_all(InDebugger(Polls))
  /\ WF_all(InDebugger(Spawn)) /\ SF_all(InDebugger(Asks)) /\ SF_all(InDebugger(Tells))

Spec == Init /\ [][Next]_all /\ Fairness
=============================================================================
