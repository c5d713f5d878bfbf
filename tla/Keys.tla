-------------------------------- MODULE Keys --------------------------------
(***************************************************************************)
(* Keys from the host to the PC-1500's matrix: the event loop's dispatch   *)
(* (src/src/host/main.cpp), the queue of taps it drains a step a frame,    *)
(* and Bus's deferred releases and cursor rollover (src/src/bus/bus.cpp).  *)
(* Time is counted in frames; events come between two of them.             *)
(*                                                                         *)
(* Left has two host keys, and Delete taps Shift and then Left.            *)
(***************************************************************************)
EXTENDS Naturals, Sequences, SequencesExt, Sublists

CONSTANTS
  HostKeys,   \* of "left", "backspace", "right", "letter", "delete", "F10", "F12"
  Hold, Initial, Repeat, Tap, Idle,  \* in frames: 2, 60, 10 and the queue's waits
  MaxEvents   \* bound: key events and changes of a modifier

ASSUME KeysAssumption ==
  /\ {Hold, Initial, Repeat, Tap, Idle} \subseteq Nat \ {0}
  /\ Repeat < Initial /\ MaxEvents \in Nat

Keys == {"Left", "Right", "Shift", "A", "Sml", "Rocker", "Off"}
CursorKeys == {"Left", "Right", "Rocker"}

VARIABLES
  kb,           \* Bus: keys down, pending releases, the rollover's state
  onKeyLine,
  hostDown, shift, ctrl,  \* the host's keyboard
  f10IsRocker,
  queue, wait,  \* symbolActionQueue, symbolActionFramesRemaining
  events,       \* counter
  holders,      \* history: key -> who has pressed and not released it
  shared,       \* history: keys one pressed or released while another held them,
                \* or let go while a release of theirs was pending
  slipped,      \* history: an event was not passed on, or F10's key changed
  age, first    \* history: frames since a cursor key's press or repeat, and
                \* whether none was repeated since its press

keysVars == <<kb, onKeyLine, hostDown, shift, ctrl, f10IsRocker, queue, wait, events,
              holders, shared, slipped, age, first>>

KeysInit ==
  /\ kb = [down |-> {}, releases |-> <<>>, held |-> FALSE, key |-> "Left", count |-> 0, fired |-> FALSE]
  /\ onKeyLine = FALSE /\ hostDown = {} /\ shift = FALSE /\ ctrl = FALSE
  /\ f10IsRocker = FALSE /\ queue = <<>> /\ wait = 0 /\ events = 0
  /\ holders = [k \in Keys |-> {}] /\ shared = {} /\ slipped = FALSE
  /\ age = 0 /\ first = TRUE

-----------------------------------------------------------------------------
(* Bus::setKeyState, applyRelease and advanceCycles.                       *)

\* A press takes back the first release still to be applied to its key.
Cancelled(s, k) ==
  IF \E i \in DOMAIN s : s[i].key = k
  THEN RemoveAt(s, SelectInSeq(s, LAMBDA r : r.key = k)) ELSE s

Rolls(b, k) == [b EXCEPT !.count = 0, !.fired = FALSE, !.held = TRUE, !.key = k]

\* Slip, once in the code: a second tap of the key still held carries the
\* first one's count on.
PressedCarriesOn(b, k) ==
  LET c == [b EXCEPT !.down = @ \cup {k}, !.releases = Cancelled(@, k)]
  IN IF k \in CursorKeys /\ ~(b.held /\ b.key = k) THEN Rolls(c, k) ELSE c
\* Slip: the pending release stays.
PressedUncancelled(b, k) ==
  LET c == [b EXCEPT !.down = @ \cup {k}]
  IN IF k \in CursorKeys THEN Rolls(c, k) ELSE c
Pressed(b, k) ==
  LET c == [b EXCEPT !.down = @ \cup {k}, !.releases = Cancelled(@, k)]
  IN IF k \in CursorKeys THEN Rolls(c, k) ELSE c

Released(b, k) == [b EXCEPT !.releases = Append(@, [key |-> k, left |-> Hold])]

Threshold(b) == IF b.fired THEN Repeat ELSE Initial
RepeatDue(b) == b.held /\ b.count + 1 >= Threshold(b)

Rolled(b) ==
  IF RepeatDue(b) THEN [b EXCEPT !.count = 0, !.fired = TRUE]
  ELSE IF b.held THEN [b EXCEPT !.count = @ + 1] ELSE b

Advanced(b) ==
  LET due == {b.releases[i].key : i \in {j \in DOMAIN b.releases : b.releases[j].left <= 1}}
      later == Those(b.releases, [key : Keys, left : 2..Hold])
  IN [Rolled(b) EXCEPT
        !.down = @ \ due,
        !.held = @ /\ b.key \notin due,
        !.releases = [i \in DOMAIN later |-> [later[i] EXCEPT !.left = @ - 1]]]

-----------------------------------------------------------------------------
\* A second release of the key may be pending, or another than `who` holds it.
ReleasePending(k) == \E i \in DOMAIN kb.releases : kb.releases[i].key = k
Contended(who, k, pressed) == holders[k] \ {who} # {} \/ (~pressed /\ ReleasePending(k))

\* setKeyState by the host key or the queue `who`.
SetKeyState(who, k, pressed) ==
  /\ kb' = IF pressed THEN Pressed(kb, k) ELSE Released(kb, k)
  /\ holders' = [holders EXCEPT ![k] = IF pressed THEN @ \cup {who} ELSE @ \ {who}]
  /\ shared' = IF Contended(who, k, pressed) THEN shared \cup {k} ELSE shared
  /\ IF pressed /\ k \in CursorKeys THEN age' = 0 /\ first' = TRUE ELSE UNCHANGED <<age, first>>

Untouched == UNCHANGED <<kb, holders, shared, age, first>>
TapOf(k) == <<[key |-> k, pressed |-> TRUE, for |-> Tap], [key |-> k, pressed |-> FALSE, for |-> Idle]>>

Immediate == [left |-> "Left", backspace |-> "Left", right |-> "Right"]
Taps == [letter |-> TapOf("A"), delete |-> TapOf("Shift") \o TapOf("Left")]

\* A combination with Ctrl is the menu's, F12's apart.
Reserved(h) == ctrl /\ h # "F12"

F10Key(pressed) == IF (IF pressed THEN shift ELSE f10IsRocker) THEN "Rocker" ELSE "Sml"

Pass(h, pressed, repeat) ==
  \/ /\ h \in DOMAIN Immediate
     /\ IF repeat THEN Untouched ELSE SetKeyState(h, Immediate[h], pressed)
     /\ UNCHANGED <<queue, onKeyLine, f10IsRocker>>
  \/ /\ h \in DOMAIN Taps /\ Untouched
     /\ queue' = IF pressed /\ ~repeat THEN queue \o Taps[h] ELSE queue
     /\ UNCHANGED <<onKeyLine, f10IsRocker>>
  \/ /\ h = "F10"
     /\ f10IsRocker' = IF pressed THEN shift ELSE f10IsRocker
     /\ SetKeyState(h, F10Key(pressed), pressed)
     /\ UNCHANGED <<queue, onKeyLine>>
  \/ /\ h = "F12" /\ UNCHANGED <<queue, f10IsRocker>>
     /\ CASE pressed /\ ctrl -> Untouched /\ UNCHANGED onKeyLine  \* cpu.reset()
          [] pressed /\ ~ctrl /\ shift -> SetKeyState(h, "Off", TRUE) /\ UNCHANGED onKeyLine
          [] pressed /\ ~ctrl /\ ~shift -> onKeyLine' = TRUE /\ Untouched
          [] ~pressed -> onKeyLine' = FALSE /\ SetKeyState(h, "Off", FALSE)

Event(h, pressed, repeat) ==
  /\ events < MaxEvents /\ events' = events + 1
  /\ hostDown' = IF pressed THEN hostDown \cup {h} ELSE hostDown \ {h}
  /\ IF Reserved(h) THEN Untouched /\ UNCHANGED <<queue, onKeyLine, f10IsRocker>>
                    ELSE Pass(h, pressed, repeat)
  /\ slipped' = \/ slipped \/ (Reserved(h) /\ ~pressed)
                \/ (h = "F10" /\ repeat /\ ~ctrl /\ shift # f10IsRocker)
  /\ UNCHANGED <<shift, ctrl, wait>>

KeyDown(h)   == h \notin hostDown /\ Event(h, TRUE, FALSE)
KeyRepeat(h) == h \in hostDown /\ Event(h, TRUE, TRUE)
KeyUp(h)     == h \in hostDown /\ Event(h, FALSE, FALSE)

Modifier ==
  /\ events < MaxEvents /\ events' = events + 1
  /\ \/ shift' = ~shift /\ UNCHANGED ctrl
     \/ ctrl' = ~ctrl /\ UNCHANGED shift
  /\ Untouched /\ UNCHANGED <<onKeyLine, hostDown, f10IsRocker, queue, wait, slipped>>

\* A frame: a step of the queue, and the machine's cycles.
QueueDue == queue # <<>> /\ wait <= 1
Frame ==
  LET action == Head(queue)
      b == IF ~QueueDue THEN kb
           ELSE IF action.pressed THEN Pressed(kb, action.key) ELSE Released(kb, action.key)
      anew == QueueDue /\ action.pressed /\ action.key \in CursorKeys
  IN
  /\ kb' = Advanced(b)
  /\ queue' = IF QueueDue THEN Tail(queue) ELSE queue
  /\ wait' = IF QueueDue THEN action.for ELSE IF queue # <<>> THEN wait - 1 ELSE wait
  /\ holders' = IF ~QueueDue THEN holders ELSE [holders EXCEPT ![action.key] =
                  IF action.pressed THEN @ \cup {"queue"} ELSE @ \ {"queue"}]
  /\ shared' = IF QueueDue /\ Contended("queue", action.key, action.pressed)
               THEN shared \cup {action.key} ELSE shared
  /\ age' = IF RepeatDue(b) THEN 0 ELSE IF anew THEN 1 ELSE IF age < Initial THEN age + 1 ELSE age
  /\ first' = (~RepeatDue(b) /\ (anew \/ first))
  /\ UNCHANGED <<onKeyLine, hostDown, shift, ctrl, f10IsRocker, events, slipped>>

KeysNext ==
  \/ \E h \in HostKeys : KeyDown(h) \/ KeyRepeat(h) \/ KeyUp(h)
  \/ Modifier \/ Frame

KeysSpec == KeysInit /\ [][KeysNext]_keysVars

-----------------------------------------------------------------------------
\* "Release matches it even if Shift/Ctrl changed state while the key was
\* held": a key that is down is held, or its release is on its way.
NoKeyStuck ==
  \A k \in kb.down :
    \/ holders[k] # {} /\ (holders[k] \ {"queue"}) \subseteq hostDown
    \/ ReleasePending(k)

\* The machine's keys follow the host's.  A key of one source stays down for as
\* long as it is held, whatever came before - quick taps whose releases are
\* pending, the queue's taps of other keys - and none sticks but by a key let go
\* under Ctrl or Shift pressed during a held F10.
KeysFollowTheHost ==
  /\ \A k \in Keys \ shared : holders[k] # {} => k \in kb.down
  /\ slipped \/ NoKeyStuck

\* A cursor key repeats only while it is down, first a long Initial after its
\* own press and then every Repeat.
RepeatsInTime ==
  [][ kb.held /\ kb'.fired /\ kb'.count = 0 /\ kb.count > 0
        => /\ age + 1 >= (IF first THEN Initial ELSE Repeat)
           /\ kb.key \in kb.down ]_keysVars
=============================================================================
