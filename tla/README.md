# pc1500emu in TLA+

Specifications of pc1500emu, an emulator of the Sharp PC-1500: the LH5801 CPU, memory, keyboard,
I/O controller and clock chip, the CE-163WL expansion module that it mocks, the Link (a radio
protocol between two such modules), the debugger, the disassembler and the BASIC loader. TLC checks
the models on small instances; TLAPS proves the theorems listed below for every value of the
constants.

Paths are relative to the repository's `src/`. In each module a definition keeps the name of the
function it models where it can; `PROJECT.json` gives the lines. A definition called a *slip* in a
comment is a plausible mistake in the definition that follows it, and belongs to no specification:
with the slip in its place, TLC finds the property broken.

## The system's parts

| Component (source) | State | Operations | With whom | What is hard | Module |
|---|---|---|---|---|---|
| Command cell and sleep (`src/bus/expansion_mock`) | the command owed, the worker, the status cell, deadlines, the MCU's sleep state | write a command, pump, run, publish, sleep, wake, power cycle | the CPU writes and polls the window; a worker thread runs commands | a newer write overtakes a running command; sleep against the worker; delayed stamps | `ExpansionCommand`, `Mailbox` |
| ROM staging (`expansion_mock`, `bus.cpp`) | the MCU's image, the SRAM copy, remap and verified flags | copy begin, block, end, abort, remap, KBD_INSTALL | the ROM's routine, sleep, power | a copy cut short after an earlier one was verified | `RomStaging` |
| SD card (`expansion_mock`) | a directory tree, one open file, numbered channels with two cursors | open, print, input, skip, eof, close, copy, move, delete, cd | programs; sleep reopens channels | files removed, moved or printed to behind a channel | `SdCard` |
| WiFi (`expansion_mock`) | networks in range, the one joined, those remembered | join, forget, scan | the ROM's keywords | order of joins, refusals and forgets | `WifiStore` |
| Simulated peer (`expansion_mock`) | link, pairings, files, messages | BL commands without a radio | the ROM's keywords | a link dropped in a transfer | `FakePeer` |
| SSH and history (`ssh_mock`, `history_mock`) | the session, known host keys, the chosen line, the window | commands on the worker, polls on the emulation thread | a server, the user | host keys of failed sessions; output left when the server ends | `Terminals` |
| Link: locks, requests (`src/bus/ble_link_core`) | two mutexes, one answer slot, a sequence counter, the link's generation | `request`, `onFrame`, `onLink`, `dropLink` | worker, server thread, emulation thread, the radio's callbacks | four threads, two locks; a wrapped counter; a link replaced during a call | `LinkLocks`, `LinkRequest` |
| Link: HELLO, AUTH, pairing | pairings, nonces, keys, sessions | HELLO, AUTH, PAIR, confirm, forget | two modules and their users | links cut at any step; frames of a lost link | `LinkPairing` |
| Link: file server | the save under way, the store, the inbox | FILE_PUT to FILE_END, FILE_GET, MSG | a phone or another module | `putActive_` without a lock; late acknowledgements | `LinkServer` |
| Link: peer files | offers in and out, one transfer, three queues | offer, answer, write, read, close, abort, withdraw | two modules | both sides offer; frames of an earlier transfer | `LinkPeers` |
| Timer signal (`src/bus/bus`) | TP's rate and epoch, IF bit 1, the ON key | OPB and IF reads, the frame loop's clock | CPU, ROM loops | one flag for two sources; the clock moved between two reads | `TimerPulse` |
| Clock chip, transmitter (`bus`) | mode, shift register, TD | pins, TIME READ and SET, transmit | programs | commands out of order; divisors that do not fit | `IoPort` |
| CPU (`src/cpu`) | registers, flags, latched requests, the timer | `step`, `tickTimer`, requests, save and load | bus, frame loop | interrupts anywhere, HLT, priorities | `Lh5801` |
| Memory (`bus`) | unit, RAM sizes, CE-163 and CE-155, banks, the reserve area | read, write, set a size, save, load | CPU, settings, sessions | a configuration changed under a program; mirrors | `RamConfig`, `MemoryMap` |
| Keys (`bus.cpp`, `main.cpp`) | the matrix, pending releases, repeat, the tap queue | host events, frames | the host's keyboard | a press during a deferred release; modifiers that change | `Keys` |
| Sessions (`src/hoststate`, `main.cpp`) | conf file, state files, the popup | start, settings, Save and Load State, exit | CPU, memory | a load refused halfway; a file cut short | `Session` |
| Debugger (`src/debugadapter`, `main.cpp`) | breakpoints, run state; requests, the poll thread | DAP requests, pipe commands, frames | an editor, the emulator | two processes, two threads, late and torn answers | `DebugTarget`, `DebugAdapter` |
| Disassembler's analysis (`src/disasm/analyzer.cpp`) | work list, bytes known, tables | the three analyses | the command line | ends of images, overlapping code, false tables | `Analyzer` |
| BASIC loader (`src/basic/text_loader.cpp`) | line, pass, what is left of a pass | passes typed into the ROM | the ROM's editor | the ROM drops or refuses silently | `TextLoader` |
| LCD, plotter, BLE back ends, windows, formatting, tools | little or none | drawing, operating-system calls | | | none |

What must hold of each is the property table below.

## The modules

Every `MC` module gives several specifications what TLC needs and lets a behaviour keep to one of
them (`family`); the families of one run share no variable, so their states add up and do not
multiply. They are run together where they share a place in the program: what the frame loop turns
(`MCFrameLoop`), the Link (`MCLink`), the machine around the CPU (`MCMachine`), the mock's commands
(`MCCommands`), programs (`MCCode`, with the CPU's programs in `MCLh5801`).

**`Mailbox`** is what the command cell promises the ROM: the latest write wins, BUSY comes before
an answer, a power-on owes nothing. **`ExpansionCommand`** is the cell itself with the module's
sleep. The emulation thread's actions are `WriteCommand`, `WriteUnserved` (a write to a window
nobody serves), `AdvanceCycles` (one call: deadlines, `pumpCommands`, `stepSleep`) and `ColdBoot`;
the worker's are `WorkerDispatch`, `WorkerPublish` and `WorkerDone`. Deadlines in cycles are a set
of running timers of which a call lets any subset run out. What commands compute is left out: five
kinds are told apart by what they do to sleeping. The commands themselves are in the next five
modules, run one at a time as the worker does:

- **`SdCard`**: an inode with a sequence of units; streams keep their inode when the name goes, as
  POSIX does. A value is a chunk (a number one unit, a string its tag, length and characters), so a
  channel may be between two values or inside one. `Reopen` is the reopening by name after a sleep.
- **`RomStaging`**: the ROM's copy routine command by command, with BREAK, sleep and power cuts.
  A checksum is the blocks it was made from: ideal, no collisions.
- **`WifiStore`**: scan, join, forget; the remembered networks, most recent first.
- **`FakePeer`**: the simulated peer's files, offers and messages, in chunks.
- **`Terminals`**: an SSH session (`command` on the worker, `poll` on the emulation thread) with the
  known host keys, and the history menu. The protocol, the screen and the history list are
  submodules absent from the tree, and external; the server may end at any point.

**`LinkLocks`** reduces LinkCore's calls to the mutexes they take and release, one step each.
**`LinkRequest`** is `request()` for several threads, with the steps at which `mutex_` is free.
**`LinkPairing`** has a connector and an advertiser go through HELLO, AUTH and PAIR; a key is the
pair of the parts it was made from, and a proof is a key with two nonces. **`LinkServer`** is the
advertiser's server thread with a client's saves, loads and messages; taking a frame and serving it
are two steps, between which the link may go. **`LinkPeers`** has two LinkCores exchange offers and
files. The ROM's keywords are the environment: one transfer at a time, only what was not refused. An
answer goes out on the link that is up when it is sent, under its request's number, and is taken by the
command that waits for that number: `peerMistaken` records that its request came on an earlier link.

**`TimerPulse`** has the clock chip's TP, its two images in the I/O port (a level in OPB, an edge in
IF bit 1), the ON key that shares the bit, and the frame loop that sets the chip's clock to the
host's once a frame. BASIC's WAIT loop and BREAK checks are external: the ROM is not in the
repository, and the loop is the one the comments and tests describe. **`IoPort`** has the chip's
modes and its shift register behind port C, and the transmitter.

**`Lh5801`** is the CPU: both opcode pages by their regular pattern, the three interrupts, HLT, the
timer, and a session saved and loaded between two instructions. Cycles are left out: requests and
ticks may come between any two instructions. For each of the 511 opcodes the model's `Executed` was
also run against the compiled `CPU::step` on twelve random machines, with no difference.

**`RamConfig`** is the configuration, its setters and the decoding of an address; `MemoryMap` and
`Session` share it. **`MemoryMap`** keeps a sample of addresses with all their aliases; what a write
should have changed is recomputed there from the address map and compared. **`Session`** numbers the
stretches the machine ran, so that a CPU and a memory of one session can be told. A state file whose
writing is cut short, by a crash or a full disk, ends before its configuration is whole ("stub") or
within its memory ("cut"): the CPU and the configuration are written first.

**`Keys`** counts time in frames: events come between two of them. **`DebugTarget`** reads the
command FIFO once a frame and overwrites one response file; **`DebugAdapter`** serves requests as
sequences of what the handlers do, with the poll thread and the pipe's lock between them.

**`Analyzer`** takes an image as the instruction, table entry and word that each address decodes to.
**`TextLoader`** types a listing whose characters are model values; the ROM takes, refuses or cuts
each pass as it likes, and may spare characters of a keyword. What was stored is looked for in the
line as it is read back, its number in front.

## Runs

| Run | Bounds, and why they are enough |
|---|---|
| `frame_loop` | 3 writes (one running, one overtaking, one latched in a sleep or after a power cycle), 1 missed wake, every optional delay on; half a period of TP of 8 units, debounce 3, frames of 17 to 20: a frame spans more than a period and its drift takes every phase; a program of 2 places, 4 requests of the editor, 1 late or torn answer at any place |
| `link` | 2 requesting threads, 4 requests, the counter modulo 2: it wraps while an answer is late; 3 links and 2 pairings; 2 files and 2 saves of up to 2 frames, an inbox of 1; 2 offers of up to 2 chunks over 2 links: two transfers of the same or opposite directions, and a reconnection |
| `machine` | 12 addresses (both ends of each window, CE-155's blocks, CE-163's trigger, one place with all its aliases), 2 writes and 3 changes of the configuration; 2 files, 2 stretches, 2 changes of settings or files cut short; 7 host keys and 4 events: press, release and a modifier on either side; a clock of 2 bits and 12 writes to its pins: a whole time in and out |
| `mock_commands` | 2 channels, 2 contents, 3 paths, 6 commands; 3 blocks; 4 networks of which 2 are remembered; 1 file of 2 chunks, 3 messages for an inbox of 2; 2 hosts, 2 keys, 2 sessions, 2 pieces of output; 3 lines for a history of 2 |
| `code` | 615 inputs without interrupts (operands at every carry and borrow boundary), five with up to 2 requests and 2 timer ticks anywhere; every program of 4 addresses over 7 kinds of instruction, tables over 2 pages; lines of up to 15 characters for an editor of 8, with a word too long for any pass, no room left and a character without a key |

| Property | In | It says |
|---|---|---|
| `ImplementsMailbox` | `frame_loop` | the cell implements `Mailbox`: the latest write wins, BUSY before an answer |
| `QuietUnlessAwake` | | a sleeping module has no command running, waiting or pending |
| `ModuleResponds` | | the newest command is answered in the end, and every wake ends with the window served |
| `BreakOnlyByKey`, `BreakIsHeard` | | a tick is never taken for BREAK; a BREAK is never lost |
| `TicksCountedOnce` | | WAIT counts every period of TP, and each once |
| `EditorKnows` | | a target the editor takes for running is watched; one it takes for stopped is, with no continue under way and the debugger's hold on it there or coming; as long as no answer came late nothing under way moves it |
| `StopsAreReported`, `EveryRequestServed` | | a breakpoint reaches the editor; no request hangs |
| `NeverCrossed` | `link` | no two threads wait for each other, as long as every frame verifies |
| `OwnAnswer`, `LoneAnswerTaken`, `EveryCallReturns` | | a request made alone takes its own answer and never gives up on one that came; all return |
| `SameSession`, `PairedByBoth` | | both sides of an authenticated link seal alike; a key is kept only if both users confirmed that exchange |
| `SavesAreWhole`, `AckMeansDone`, `LoadsAreWhole` | | no save is mixed or cut; an answer of success is true; a load is the file as it was |
| `TransfersAreWhole` | | as long as no command took an answer to a frame of an earlier link: CLOSE says success only for a whole file; what is received is its beginning; a sender has a receiver |
| `MemoryRemembers`, `ReserveValidInRam` | `machine` | RAM a program sees holds what was last written; the reserve area is valid |
| `OnlyAFailedLoadMixes`, `ResumesWhatWasLeft` | | a CPU runs on another session's memory only after a load that said it failed; a start resumes what an exit saved |
| `KeysFollowTheHost`, `RepeatsInTime` | | a held key is down, none sticks but by modifiers; cursor keys repeat in their own time |
| `TimeGoesWhole`, `ShortBytesFinish` | | a time shifted in or out is one time; a byte sent finishes, with a divisor that fits |
| `WholeValues`, `SleepKeepsChannels` | `mock_commands` | values come back whole from a shared file; a sleep is not noticed |
| `StagedRomIsWhole` | | a verified copy is of one image |
| `RememberedRight`, `SavesWhole` | | the remembered networks; a failed save leaves nothing |
| `HostsAreKnown`, `TerminalsEndWell` | | only accepted host keys; all that came is shown before the end |
| `ResultsRight`, `InterruptsLeaveNoTrace`, `EveryRequestTaken` | `code` | programs compute right whatever interrupts them; handlers leave no trace; each request is taken |
| `AnalysisIsExact` | | code found is exactly what can be reached; tables found are whole |
| `LoadedWhole`, `LoadEnds` | | a listing said to be loaded is in the machine; the load ends |

`CHECK_DEADLOCK FALSE` is given where a model stops because a bound on commands, links, requests or
offers is used up; the program goes on. Type invariants are in the modules (`...TypeOK`); the
theorems prove of the types what they need.

### Fairness

- `ExpansionCommand`: the worker thread runs and the frame loop keeps calling `advanceCycles`, in
  which a deadline that stays set runs out. Nobody is obliged to write.
- `TimerPulse`: instructions run, frames follow each other, and the ROM's loop and the interrupt's
  handler go on. Strong fairness of `BreakCheck` and `OtherStatement`: presses come at most once a
  frame and cannot keep a program from its BREAK check for ever.
- `DebugAdapter`: both threads and the emulator run, and the emulator started comes up. The lock on
  the pipe is fair to a thread that keeps asking for it, the poll sleeping 75 ms between two tries
  (strong fairness of the request thread's calls); answers may still be late.
- Link: each thread's steps, the timeout of `wait_for`, the server thread. Neither the peer nor the
  radio is fair: answers may never come.
- `Lh5801`, `Analyzer`, `TextLoader`: the CPU or the loop goes on if it can. In `TextLoader` every
  pass is a step (`oddPass`), so that a pass tried again for ever would be an endless behaviour. No
  fairness of the ROM: it may refuse every pass.

### Disagreements found

| Run | What |
|---|---|
| `locks_bad_frames` | `LinkCore::onFrame` and `serveAuth` log inside `sec_->m` (`ble_link_core.cpp:312`, `:1300`), against the lock order stated at line 1328: two threads can stop for good |
| `request_two_threads` | `LinkCore::request` keeps one slot for all callers (`:434`): two threads lose answers and drop a working link |
| `peers_late_offer` | the server thread sets an offer on a link that has gone (`:1104`; "a dropped link drops them") |
| `stuck_key` | releases under Ctrl are dropped (`main.cpp:2987`): the key stays down, which the comment on `f10IsRocker` means to prevent |
| `parks_at_entry` | "call" and "pause" are two commands (`debug_adapter_main.cpp:573`): a frame of the program may run in between |
| `module_rom_at_top` | the page counter of `analyzeModuleRom` wraps (`analyzer.cpp:302`): an image up to FFFFH is analysed for ever |
| `append_found_elsewhere` | the check of an append looks for its text anywhere in the line (`text_loader.cpp:406`): a dropped end that occurs earlier is never typed again |

Met on the way, and not runs:

- *Link.* A frame numbered on one link may be sent on the next (`ble_link_core.cpp:436`), and its ACK
  taken for another's; `link` assumes that the peer does not reconnect in that gap. An answer goes out
  on whatever link is up (`:488`), and each link's numbers start at 0 (`:346`): the late ACK of an offer
  of the last link acknowledges this link's, which the peer never held. With two offers of one chunk
  over two links, in the family "peers" alone, TLC finds `AcknowledgedIsHeld` violated in 12 states, and
  `TransfersAreWhole` is about the transfers before such a mistake (`peerMistaken`). A save whose
  client goes away keeps the server BUSY until FILE_END, FILE_ABORT or a drop; an abandoned load
  keeps the server thread until a timeout. After a lost last ACK of a pairing only one side has the
  key: AUTH fails until they pair again. `answerPairing(bool)` names no exchange, and a frame
  between AUTH's ACK (line 1306) and `ls_session_start` (line 783) is taken for a plain one.
- *Clock.* A frame's instructions move the chip's clock by 16.67 ms while the frame may take 16
  (`main.cpp:4354`), and line 4211 then sets it back, though `bus.h:229` calls it monotonic: with
  `Back > 0` in `FrameLoop.cfg`, `TicksCountedOnce` fails. A TIME READ right after TIME SET loses the
  time (`bus.cpp:75`, `:83`). The divisors from 256 do not fit a `uint8_t` (`bus.h:440-443`): TD is
  never set.
- *Sessions.* "None" in the expansion window turns a CE-163 or CE-155 off in the settings and not in
  the machine (`main.cpp:3320-3334`, `bus.h:719-725`), though its comment says that nothing at all is
  plugged in. Leaving while the mismatch popup is unanswered overwrites the saved session; a state
  file is truncated in place (`state_file.cpp:14`); a Load State that is refused leaves the loaded
  CPU on the old memory (`:53`), which its header calls fatal. So does the popup's Apply of a file cut
  short (`main.cpp:3736`, "Shouldn't happen"): such a file keeps its configuration and raises the popup,
  whose Apply loads the CPU without the memory and resets nothing. Checked in `Machine.cfg` with the
  family "sessions" alone, `ApplyRestores` fails; `OnlyAFailedLoadMixes` allows it, as the failure shows.
  A start whose settings have a module and RAM beside it (`MenuUnit` writes such after the pipe's
  `setextram`, `main.cpp:2015-2028`) puts the RAM in the module's place; taking the module out of the
  settings later gives the machine another configuration than its next start. Found when
  `SessionsResume` could not be proved, and then by TLC with four changes of settings;
  `ResumesWhatWasLeft` leaves these settings out (`Split`).
- *Memory.* CE-163's own RAM never gets a valid reserve area (`bus.h:1018-1026` writes `me0_` only).
- *Keys.* A press cancels one pending release (`bus.cpp:598-603`), and a key can have two: it has
  two sources, or it is let go without having been pressed (F12 after ON, a key pressed under Ctrl)
  within two frames of its last release. The second lets go a press that follows, under the finger.
  `KeysFollowTheHost` leaves such keys out (`Contended`).
- *Mock.* After a CREATE or OPEN that fails, `fileStatus_` keeps what it was; RMDIR removes a file,
  and the current directory; data of a SAVE goes to a Link transfer that is still open
  (`expansion_mock.cpp:750`); HIST_BEGIN and TERM hand the window over inside the command, though
  `ssh_mock.h:10-11` polls only "when no command can be running".
- *Debugger.* A stop may be reported twice when a pause crosses a breakpoint; an emulator attached
  to stays under debug control for ever; one that is closed by its user is never reported; a torn
  answer to "peek" ends the adapter (`std::stoi`, line 748). The response file carries no request's
  number: after one late answer the editor may be shown as stopped a target whose step, or whose
  launch's call and pause, is still to be carried out (`EditorKnows` says so); with two (`MaxFaults = 2`
  in `FrameLoop.cfg`) even one that runs or has a continue on its way.
- *Loader.* After an error the machine is left in small letters; a line that replaces one of its own
  size is reported as rejected; a line refused by the ROM that begins like an earlier one of the same
  number counts as accepted.
- *Disassembler.* A chain of entries may run on past its page's end: the next page's search finds its
  rest again, as a table of its own. `AnalysisIsExact` said otherwise until its proof failed; TLC shows
  it with an entry that ends where the next page's candidates begin.
- *CPU.* A comment of `tests/lh5801_test.cpp` (lines 239-243) says that neither ADI 30H nor ADI 36H
  makes 'A' to 'F' of a digit in the manual's hexadecimal program. 36H does: the CPI before it
  leaves the carry set, and ADI adds it.

## Proofs

| Theorem | Statement | For every |
|---|---|---|
| `FrameLoopProof!TypeCorrect` | `CommandSpec => []CommandTypeOK` | number of writes and missed wakes, setting |
| `FrameLoopProof!QuietSleep` | `CommandSpec => []QuietUnlessAwake` | |
| `FrameLoopProof!AnswersNewest` | `CommandSpec => []AnswerIsNewest` | |
| `FrameLoopProof!Refinement` | `CommandSpec => ImplementsMailbox` | |
| `FrameLoopProof!BreakIsTheKey` | `PulseSpec => []BreakOnlyByKey` | period, debounce, poll and frame time |
| `FrameLoopProof!EveryTickIsCounted` | `Back = 0`: `PulseSpec => []TicksCountedOnce` | |
| `FrameLoopProof!EditorAlwaysKnows` | `MaxFaults \in {0, 1}`, `SlowPoll = TRUE`: `DebugSpec => []EditorKnows` | session, program, breakpoints, number of requests and tries |
| `LinkProof!LocksKeepTheirOrder` | `~BadFrames`: `LocksSpec => []NeverCrossed` | interleaving (the calls are the code's) |
| `LinkProof!RequestsGetTheirOwnAnswer` | `~PeerReconnects`: `RequestSpec => []OwnAnswer` | finite set of threads, requests, links, modulus |
| `LinkProof!LoneRequestsAreNotMissed` | `~PeerReconnects`: `RequestSpec => LoneAnswerTaken` | |
| `LinkProof!SessionsAgree` | `PairSpec => []SameSession` | number of links, pairings and frames |
| `LinkProof!KeysAreConfirmed` | `PairSpec => []PairedByBoth` | |
| `LinkServerProof!SavedFilesAreWhole` | `ServerSpec => []SavesAreWhole` | names, saves, chunks, links, inbox |
| `LinkServerProof!AcksAreTrue` | `ServerSpec => AckMeansDone` | |
| `LinkServerProof!LoadedFilesAreWhole` | `ServerSpec => LoadsAreWhole` | |
| `LinkPeersProof!TransfersAreAlwaysWhole` | `PeersSpec => []TransfersAreWhole` | number of offers, chunks and links |
| `MachineProof!OnlyFailedLoadsMix` | `SessionSpec => []OnlyAFailedLoadMixes` | files, sizes, stretches, changes of settings, files cut short |
| `MachineProof!SessionsResume` | `SessionSpec => ResumesWhatWasLeft` | |
| `MachineProof!ShortBytesAreSent` | `IoSpec => []ShortBytesFinish` | set of cycle counts |
| `MachineProof!TimeIsWhole` | `IoSpec => TimeGoesWhole` | width of the register, number of writes |
| `MachineProof!RamRemembers` | `MemSpec => []MemoryRemembers` | choice of addresses and sizes, writes, changes |
| `MachineProof!ReserveIsValid` | `MemSpec => []ReserveValidInRam` | |
| `MachineProof!RepeatsAreInTime` | `KeysSpec => RepeatsInTime` | delay and interval of the repeats, pending release, number of events |
| `MachineProof!HostKeysAreFollowed` | `KeysSpec => []KeysFollowTheHost` | keys and their layout, hold, delay, interval, number of events |
| `MockCommandsProof!StagedRomSound` | `RomSpec => []StagedRomIsWhole` | set of blocks |
| `MockCommandsProof!SavesAreComplete` | `PeerSpec => []SavesWhole` | names, sizes, messages |
| `MockCommandsProof!ValuesComeBackWhole` | `SdSpec => []WholeValues` | channels, paths, files, cards, sizes, number of commands |
| `MockCommandsProof!SleepIsNotNoticed` | `SdSpec => SleepKeepsChannels` | |
| `MockCommandsProof!NetworksAreRememberedRight` | `WifiSpec => []RememberedRight` | networks, passwords, room |
| `MockCommandsProof!HostsAreAlwaysKnown` | `TerminalSpec => []HostsAreKnown` | hosts, keys, output, sessions |
| `MockCommandsProof!TerminalsAlwaysEndWell` | `TerminalSpec => []TerminalsEndWell` | output, lines, length of the history |
| `CodeProof!AnalysisAlwaysExact` | `AnalyzerSpec => []AnalysisIsExact` | image, seeds, page size, address space |

They rest on the modules' named assumptions, which give the constants their types, and five of them on a
hypothesis. `PulseAssumption` also orders times as the code's are: `Gap < Debounce < Half` (no interrupt
handler delays IF's read past the debounce), `Spin + Gap < Frame` and `Spin + Gap + Ahead <= Half` (a
look at OPB takes tens of cycles, a frame 21 667, half a period of TP some 10 000). `Back = 0` says that
no frame is short; otherwise a rise may be shown twice (see *Clock* above). `~BadFrames` is the case in
which the order of the locks holds: without it `locks_bad_frames` shows the deadlock. `~PeerReconnects`
says that no link comes up between a call's numbering of its frame and its end; without it a frame
numbered on one link is sent on the next (see *Link* above), and its answer taken for another's.
`MaxFaults \in {0, 1}` is one answer that is late or torn (with two the property fails, see *Debugger*
above), and `SlowPoll` says that a poll's 75 ms outlast the end of the request that started it.

*The command cell.* `AnswerIsNewest` is not inductive: a running worker publishes later. The inductive
invariant is `CommandTypeOK /\ QuietUnlessAwake /\ CommandInv`. `CommandInv` says that a waiting command
is the newest, that a running one is the newest or has a newer one waiting (`newerWrite`), that the cell
reads BUSY until the running command publishes and its answer after, and that a BUSY stamp still due has
the newest command waiting behind it, so that it never lands on an answer. `QuietUnlessAwake` is part of
it because a command that ran during a sleep transition would find the status overwritten. There is one
lemma per action; `PumpEffect` and `StepSleepEffect` say once what the two halves of `advanceCycles` do.
The refinement maps `shown` to `status` and `owed` to the newest write, and takes each action to a step
of `Mailbox` or a stutter from the same invariant.

*The timer.* `BreakOnlyByKey` needs that TP runs only in a WAIT, that no edge is left pending between
two reads, that the loop's read of IF follows a young sample, and that the handler runs only for the
key; the module's comment says why each is needed. `TicksCountedOnce` needs to know when the loop will
next look: `Late` bounds that time, a frame's end included, and `CountInv` says that the look comes
before TP has risen and fallen again. The arithmetic is in `HighAt`, `RisesAt`, `LowFollows` and
`HighFollows`.

*The debugger.* The response file has no request's number, so the proof follows the answers still due:
`Due` is the lines of batch and FIFO that are answered, in their order. A call that gave up leaves one
more of them than there are calls, and from then on every call may be answered by the line before its
own, never by two before it (`OneBehind`, by `MaxFaults`). So when a poll's answer is read, the continue
sent before it has been taken; and behind an answered pause the target runs only while that pause is still
due (`Parked`). `DebugInv` has one conjunct per request with the steps it has left (`Launching`,
`Reading`, `Stepping`, `Continuing`, `Configuring`, `Pausing`, `Disconnecting`), and `PollRight` for the
poll thread beside them: a poll that read "stopped" finds the target at rest with no continue on its way
(`Quiet`), since no poll thread is left when a request lets the target go (`NoPoll`). That the debugger
has hold of a stopped target comes from the launch: nothing gives control back, and `Held` follows the
launch's steps to its pause; from then on control is there or the pause is due (`Governed`), and what is
answered follows the call (`Followed`), so with no late answer nothing is under way. The lemmas come in
three layers: what the emulator's steps do to `Due`, what each kind of step of the adapter does, and one
lemma per request. TLC checked `DebugInv` with every session first.

*The locks.* The state says who owns a mutex and what each thread has left to do. `Ordered` says of the
rest of a call that each lock it takes it releases, and that `mutex_` is not taken while `sec_->m` is
held; the lemmas show it of every call from its parts (`Brief`, nested, one after the other), so a new
call is proved by its composition. The inductive invariant adds that a thread owns exactly the locks its
rest releases first: a thread that waits for `mutex_` then holds no `sec_->m`.

*Requests.* That a lone call is not given another's answer is a matter of counting: `Owed` says that the
frames, answers and full slot under way are no more than the calls that wait for one. A call made alone
therefore begins with nothing under way, whatever the sequence number is, and `AloneGetsItsOwn` follows
its frame from there. `OwnLink` is where `~PeerReconnects` is used: a link that goes takes with it all
that was under way, and no call outlives its link into the next.

*Sessions and pairings.* The nonces of the connector's HELLOs grow; a HELLO that is answered last is the
newest, so no older one is still to be served when the connector takes the answer (`HellosGrow`,
`HelloIsAnswered`). An answer to a frame of a lost link, which the server thread had already taken, can
carry a sequence number that the connector has yet to reach: `AnswersInOrder` says that it comes in
before the answer to the HELLO, so that the ACK an AUTH waits for is that AUTH's (`AuthInv`). For
pairings the invariant traces a stored key back: a key the advertiser stored has both users' yes, a
CONFIRM on its way has the connector's, an ACK on its way the advertiser's store.

*The file server.* `ServerInv` is the lockstep of the two sides. With a link up, every queue holds at
most two frames (`InStep`); a request is in one place of four, or its answer is (`RequestInOnePlace`),
the file's last frame in one of two (`FrameInOnePlace`), and the two sides' data differ by at most the
frame between them (`SaveFollows`, `LoadFollows`). Without a link nothing is on its way and every
waiting call is told (`Unlinked`). What a success says of the server (`Done`) is part of it, so
`AckMeansDone` is read off; the files are `Wholes`, what a save had written up to some frame and then
FILE_END. This invariant was checked by TLC with two saves of two frames before it was proved.

*Peer files.* `Sides` says of a core what it knows of the other: which command waits, what its answer
may be, which of the frames for it are on the wire, and which chunks the other has. It is written once
for a side and its other, and each step is a lemma about two cores that may be any: the steps of core 1
and of core 2 are its two instances (`SidesFlip`). `Queued` counts: of a core's requests and of the
answers to them one is on its way in all, in the wire, the server's queue, the frame taken or the
answer, and what is left of an older link is told apart by `DOWN`. A frame taken before the link went
and served after it (`OldFrame`) finds no transfer on either side. Its answer (not `Timely`) may stand
on the wire beside the one that is due; if its number is not the one waited for it only overwrites the
slot, and the command waits on (`UnheardSides`); if it is, `peerMistaken` is set, for good
(`MistakenStays`): what is inductive is `PeersInv` or `peerMistaken`. A closed
offer is whole (`RestRight`) because the ACK of FILE_END was put on its way by a core that had all
of the sender's chunks.

*Sessions of the program.* A session file that is whole holds a CPU and a memory that ran together, unless
a load had failed (`KeptTogether`); the popup is over a file that has its configuration, whole or not; the
machine is what the settings would install (`BusIsSettings`); what an exit left is in the file the conf
file names, under the configuration these settings give (`LeftIsOnDisk`). This last one failed at first,
in a proof step and then in TLC with four changes of settings: see *Sessions* under "Disagreements
found".

*Memory.* `Kept` says the property of every view at once (the unit's two decodings and both banks), of
the machine and of the session saved, rather than of the places the present configuration shows;
`Effective` takes each address to one cell, twice as well as once.

*Clock chip and transmitter.* What DATA OUT has shown is the beginning of the time read and the register
holds its rest; in TIME SET the register holds the last bits clocked in.

*ROM staging.* A verdict compares two sums of the same blocks: the blocks summed are those of the SRAM,
none is summed before it is stored, and the image does not change under a copy (`CopyInv`).

*Simulated peer.* A put that has not failed moved all it was asked to.

*Cursor keys.* `RepeatInv`: the rollover's count never exceeds the time since the press or the last
repeat, and the short threshold is used only after a repeat.

*Keys.* The keys that two sources have shared apart, a key has one release on its way at most, and none
while it is held (`Owned`); a key that is down is held or its release is on its way (`Followed`); who
holds a key is himself down on the host, and F10 holds the key that `f10IsRocker` names, unless an event
slipped by (`HoldersDown`). The steps that need lemmas about lists are `Cancelled`, which takes one
release back, and `Advanced`, which drops those that are due.

*Remembered networks.* `Kind` is the property of a store that is being made: `Filed` takes a network out,
puts it first and cuts the list. A scan is any list of the networks in range by strength; that there is
one is never needed, since WFSCAN without a list would be a step that is not taken.

*Terminals.* Neither property is inductive. `Stage` says how far a session has come and what may be on
its way: the bytes received and not taken, then those on the wire, are the key exchange, the question,
or the verdict and then output, and what is shown and what is on its way is what was sent. A pump takes
the first bytes, any number of them, and ends the session only when the server has ended it and nothing
is left. `host` is what `ssh_open` was last given, so the key a user accepts is put down for the right
one. TLC checked `SessionRight` with both terminals before the proof.

*The disassembler's analysis.* That nothing that follows is missed is the work list's: what follows from
an entry point or a decoded instruction is decoded, covered, or still on the list (`OnItsWay`). That
only what can be reached is decoded needs a count, as the same invariant: with n instructions found, all
that is found or on the list is at most n instructions from an entry point, and n is at most the image's
size (`StartsFew`). For tables, the addresses of a chain only grow as long as they are in the image
(`NextAbove`, `ChainStarts`), so the first trusted chain of a page is no tail of another in it; and the
loop over the pages ends only when every sentinel has been looked at (`PagesRight`), which for an image
in the last page it never does. The recursive functions of the model are given their equations by
`ChainLinks` and `WithinLinks`. The proof found the property wrong: see *Disassembler* under
"Disagreements found".

*Lists.* `SelectSeq` and the folds of the community modules are recursive operators or take one as a
parameter, of which the prover knows nothing. `Sublists` has the sublist of a list's elements in a set
as a recursive function, and `SublistLemmas` says what it keeps: the elements, their order, a list
without the removed one, a list that grows at either end. Where a fact is proved one element after
another, induction is over a set of numbers: `StepsExist` gives the recursive function its values,
and `AllNaturals` is the induction, from the well-founded order of the numbers.

*Cases.* A `CASE` whose arms overlap may take either, and the prover knows of no order among them. The
proofs showed three such definitions, which TLC evaluates from the top: `FeedItem` in `Terminals` (a
closed session that is given more), the branches of `Lh5801` (8EH and 9EH are none), and `MakeOf` in
`TextLoader` (a pass taken whole that is also empty of progress). Their arms are disjoint now, as the
code's are.

*SD channels.* `Boundaries` is what is left when every set of places that no value from outside the set
ends in is taken away; so two facts hold by its definition: the value at a boundary ends at one, and a
set no boundary's value ends in holds no boundary (`BoundaryFacts`). `ValuesMeet`, that no boundary lies
inside a value, takes the least boundary that would: the set of all those above a value's beginning and
below its end is passed over. `AppendedFrames` then says what SDPRINT# does: every boundary stays one
and the new end is one, for a file that was a row of values. `SdInv` adds that a channel whose file no
other command touched is on the file its path names (`InPlace`): this is what a reopening by name needs,
and why `touched` also counts what is done to the name.

*Only model-checked.* Liveness, which is out of the prover's reach: `ModuleResponds`, `BreakIsHeard`,
`StopsAreReported`, `EveryRequestServed`, `EveryCallReturns`, `EveryRequestTaken`, `LoadEnds`.
The CPU's properties:
`Lh5801` uses `Bitwise`, which a module with a theorem cannot. `LoadedWhole` is a theorem only of
listings in which no text comes twice in a line, its number included (`append_found_elsewhere` is what
happens otherwise), and no long line of a real program is such: the proof would say nothing of use.

## Assumptions worth knowing

- `TimerPulse`: frames are late by a bounded amount (`Ahead`) and never short (`Back = 0`);
  interrupts are enabled while the ROM waits.
- `DebugAdapter`: the poll thread's sleep of 75 ms outlasts the answer to the continue request
  (`SlowPoll`); a session launches or attaches, with stop on entry or without (`AdapterAssumption`).
- `LinkPairing`: keys, nonces and proofs are ideal; both sides lose a link at once, as in `LinkServer`
  (`LinkPeers` and `LinkRequest` have them apart).
- `LinkPeers`: names, sizes and contents are left out; a chunk is a number and its transfer. A is always
  the connector. Connecting is one step (a late answer that goes out in it, taken for HELLO's or AUTH's,
  is left out), and so are a frame's numbering and sending, and `read()`'s taking of a frame and its
  answer. Numbers are bytes as in the code, and wrap.
- `Terminals`, `SdCard`, `RomStaging`: commands run one at a time, as the one worker does; the polls
  of the terminals come between them.
- `Lh5801`: the ROM of the run is a program of this project in the PC-1500's idioms. HLT with
  interrupts disabled stops the CPU for good, as on the hardware.
- `Analyzer`: the instruction at an address does not depend on where the traversal came from. An image
  fits into the address space, as `disasm_main.cpp:204` checks; of an image of all 64 K no keyword entry
  ends at the last address (its chain would go on at 0, and might never end).
- `TextLoader`: a pass that the ROM takes is stored up to some character; the listings of `code` have
  no character twice in a line, its number included: a dropped `1` is found in the number of line 10 as
  well (with a character twice: `append_found_elsewhere`). Three of the listings load, with every way of
  dropping the end of a pass; the others end in each of the loader's errors.

## Not modelled, and the plan

Not modelled for good: rendering, sockets and operating-system calls; the cryptography of the Link
(a submodule, absent from the tree); the disassembler's and the detokenizer's formatting; the LCD
and the plotter's paper; the BLE back ends, whose callbacks are the Link models' environment; MQTT
and HTTP, which answer from canned data; SSH's device keys and ping.

To come, in this order: the terminals' polls composed with the command cell's worker; interrupts of `Lh5801`
between the reads of `TimerPulse`'s loop; the calendar of the clock chip.
