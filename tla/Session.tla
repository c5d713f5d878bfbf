------------------------------- MODULE Session -------------------------------
(***************************************************************************)
(* Sessions of the program: starting with the conf file's settings and the *)
(* state file, the Settings menu, the state dialogs, the popup for a       *)
(* session of another configuration, and leaving (src/src/host/main.cpp,   *)
(* src/src/hoststate: app_config, state_file).                             *)
(*                                                                         *)
(* The CPU's and the memory's contents are the number of the last stretch  *)
(* the machine ran, so a CPU and a memory that belong together have one    *)
(* number; Cold is a CPU after reset(), which suits any memory.  Writing   *)
(* truncates first, and the CPU and the configuration come before the      *)
(* memory: a file whose writing was cut short may end anywhere.            *)
(* Auto-Load State on Start is on, and every file was saved by this build. *)
(***************************************************************************)
EXTENDS RamConfig

CONSTANTS
  Files, NoPath,  \* state files, and none
  Units, SessionExtSizes, SessionLowSizes,  \* what the menu and the pipe set
  MaxRuns, MaxSettings  \* bounds: stretches the machine runs, settings changed,
                        \* resets and files cut short

ASSUME SessionAssumption ==
  /\ NoPath \notin Files /\ Units \subseteq BOOLEAN
  /\ SessionExtSizes \subseteq Nat /\ SessionLowSizes \subseteq Nat
  /\ MaxRuns \in Nat /\ MaxSettings \in Nat

VARIABLES
  up,       \* the program is running
  conf,     \* the conf file: [cfg, path, autoSave]
  path,     \* configuredStateFilePath
  disk,     \* file -> [is, cpu, ram, cfg]
  cpu, ram, bus,  \* the machine: contents, and its RAM configuration
  popup,    \* pendingStateMismatch
  runs, settings, \* counters
  left,     \* history: what the last exit saved, if a start should resume it
  piped,    \* history: the pipe set the configuration, and the settings may differ
  emptied,  \* history: or by the expansion window's "None" with a module in
  failed    \* history: a load said that it failed, in this run or before

sessionVars == <<up, conf, path, disk, cpu, ram, bus, popup, runs, settings, left, piped, emptied, failed>>

Cold == 0
Fresh == 0
Lost == 1000  \* a memory of which a part was loaded, or no ROM modules with it
Torn == 1001  \* a CPU of which a part was loaded, or that has no memory
NotLeft == 1002

\* A state file is "whole", "cut" within its memory, or a "stub", cut before its
\* configuration was whole.
NoState == [is |-> "none", cpu |-> Cold, ram |-> Fresh, cfg |-> Stock]

SessionInit ==
  /\ up = FALSE /\ popup = FALSE /\ path = NoPath
  /\ conf \in [cfg : {Stock}, path : Files, autoSave : BOOLEAN]
  /\ disk = [f \in Files |-> NoState]
  /\ cpu = Cold /\ ram = Fresh /\ bus = Stock
  /\ runs = 0 /\ settings = 0
  /\ left = NotLeft /\ piped = FALSE /\ emptied = FALSE /\ failed = FALSE

-----------------------------------------------------------------------------
\* Settings with a module and RAM beside it: MenuUnit writes them when the pipe
\* has put RAM in the module's place, and a later menu can take the module out
\* of them and leave them RAM the machine, started with the module, has not.
Split(w) == (w.ce163 \/ w.ce155) /\ (w.ext # 0 \/ w.low # 0)

\* Bus::loadState reads the configuration, and no memory if it is another one;
\* else what there is of the memory is read over r.
Headed(f) == f.is \in {"cut", "whole"}
Restores(f, c) == f.is = "whole" /\ f.cfg = c
RamLoaded(f, c, r) ==
  CASE Restores(f, c) -> {f.ram}
    [] f.is = "cut" /\ f.cfg = c -> {r, Lost}
    [] ~(Headed(f) /\ f.cfg = c) -> {r}

\* Slip: no reset after a load that failed.
BootedKept(f, c) == IF f.is = "none" THEN Cold ELSE f.cpu
Booted(f, c) == IF Restores(f, c) THEN f.cpu ELSE Cold

\* main's start: the settings, the file if it suits them, else a cold boot; the
\* popup if the file's configuration is another, whatever there is behind it.
Start(noState) ==
  LET c == Applied(Stock, conf.cfg)
      f == IF noState THEN NoState ELSE disk[conf.path]
  IN
  /\ ~up /\ up' = TRUE
  /\ bus' = c
  /\ path' = IF noState THEN NoPath ELSE conf.path
  /\ cpu' = Booted(f, c)
  /\ ram' \in RamLoaded(f, c, Fresh)
  /\ popup' = (Headed(f) /\ f.cfg # c)
  /\ piped' = Split(conf.cfg) /\ emptied' = FALSE
  /\ UNCHANGED <<conf, disk, runs, settings, left, failed>>

\* The machine runs; a CPU on a memory that is not its own goes on with it.
Together == cpu \in {Cold, ram}
RamAfterRun == IF Together THEN runs + 1 ELSE ram

Run ==
  /\ up /\ runs < MaxRuns /\ runs' = runs + 1
  /\ cpu' = runs + 1 /\ ram' = RamAfterRun
  /\ UNCHANGED <<up, conf, path, disk, bus, popup, settings, left, piped, emptied, failed>>

Reset ==
  /\ up /\ cpu # Cold /\ cpu' = Cold
  /\ settings < MaxSettings /\ settings' = settings + 1
  /\ UNCHANGED <<up, conf, path, disk, ram, bus, popup, runs, left, piped, emptied, failed>>

\* loadStateFile: the CPU is loaded before the memory's header is looked at.
Loads(f, c) ==
  /\ cpu' \in IF f.is = "stub" THEN {cpu, Torn} ELSE {f.cpu}
  /\ ram' \in RamLoaded(f, c, ram)

\* Settings is a modal popup's to change while it is up.
Menu(c, w) ==
  /\ up /\ ~popup /\ settings < MaxSettings /\ settings' = settings + 1
  /\ bus' = c /\ conf' = [conf EXCEPT !.cfg = w] /\ left' = NotLeft
  /\ UNCHANGED <<up, path, disk, cpu, ram, popup, runs, failed>>

MenuUnit(a) ==
  LET c == SetUnit(bus, a)
  IN Menu(c, [conf.cfg EXCEPT !.unitA = a, !.ext = c.ext]) /\ UNCHANGED <<piped, emptied>>

\* "None" takes no CE-163 or CE-155 out of the machine, only of the settings.
MenuExt(n) ==
  /\ Menu(SetExt(bus, n), [conf.cfg EXCEPT !.ext = n, !.ce163 = FALSE, !.ce155 = FALSE])
  /\ emptied' = (emptied \/ (n = 0 /\ (bus.ce163 \/ bus.ce155))) /\ UNCHANGED piped

\* Slip, once in the code: the settings keep a module that was taken out.
MenuLowKeeps(n) ==
  Menu(SetLow(bus, n), [conf.cfg EXCEPT !.low = n]) /\ UNCHANGED <<piped, emptied>>
MenuLow(n) ==
  /\ Menu(SetLow(bus, n), [conf.cfg EXCEPT !.low = n, !.ce163 = FALSE, !.ce155 = FALSE])
  /\ UNCHANGED <<piped, emptied>>

MenuCe163 ==
  /\ Menu(SetCe163(bus, TRUE),
          [conf.cfg EXCEPT !.ce163 = TRUE, !.low = 0, !.ext = 0, !.ce155 = FALSE])
  /\ UNCHANGED <<piped, emptied>>

MenuCe155 ==
  /\ Menu(SetCe155(bus, TRUE),
          [conf.cfg EXCEPT !.ce155 = TRUE, !.low = 0, !.ext = 0, !.ce163 = FALSE])
  /\ UNCHANGED <<piped, emptied>>

\* setextram on the command pipe: nothing is kept in the conf file.
PipeExt(n) ==
  /\ up /\ settings < MaxSettings /\ settings' = settings + 1
  /\ bus' = SetExt(bus, n) /\ piped' = TRUE
  /\ UNCHANGED <<up, conf, path, disk, cpu, ram, popup, runs, left, emptied, failed>>

\* Turned on while no file is configured, it names one: any, here.
AutoSave(on) ==
  /\ up /\ ~popup /\ conf.autoSave # on
  /\ settings < MaxSettings /\ settings' = settings + 1
  /\ IF on /\ path = NoPath
     THEN /\ path' \in Files /\ left' = NotLeft
          /\ conf' = [conf EXCEPT !.autoSave = TRUE, !.path = path']
     ELSE conf' = [conf EXCEPT !.autoSave = on] /\ UNCHANGED <<path, left>>
  /\ UNCHANGED <<up, disk, cpu, ram, bus, popup, runs, piped, emptied, failed>>

\* Apply Saved Configuration and Restore Session: if the file is cut, the CPU is
\* loaded all the same, the message says that it failed, and nothing is reset.
PopupApply ==
  /\ up /\ popup /\ popup' = FALSE
  /\ bus' = Applied(bus, disk[path].cfg) /\ conf' = [conf EXCEPT !.cfg = disk[path].cfg]
  /\ Loads(disk[path], bus')
  /\ failed' = (failed \/ ~Restores(disk[path], bus'))
  /\ UNCHANGED <<up, path, disk, runs, settings, left, piped, emptied>>

PopupFresh ==
  /\ up /\ popup /\ popup' = FALSE
  /\ UNCHANGED <<up, conf, path, disk, cpu, ram, bus, runs, settings, left, piped, emptied, failed>>

LoadState(f) ==
  /\ up /\ ~popup /\ disk[f].is # "none"
  /\ Loads(disk[f], bus)
  /\ IF Restores(disk[f], bus)
     THEN path' = f /\ conf' = [conf EXCEPT !.path = f] /\ left' = NotLeft /\ UNCHANGED failed
     ELSE failed' = TRUE /\ UNCHANGED <<path, conf, left>>
  /\ UNCHANGED <<up, disk, bus, popup, runs, settings, piped, emptied>>

Written == [is |-> "whole", cpu |-> cpu, ram |-> ram, cfg |-> bus]

\* The writing of f ends before its end.
CutShort(f) ==
  /\ settings < MaxSettings /\ settings' = settings + 1
  /\ \E file \in {[NoState EXCEPT !.is = "stub"], [Written EXCEPT !.is = "cut"]} :
       disk' = [disk EXCEPT ![f] = file]

SaveState(f) ==
  /\ up /\ ~popup
  /\ disk' = [disk EXCEPT ![f] = Written]
  /\ path' = f /\ conf' = [conf EXCEPT !.path = f] /\ left' = NotLeft
  /\ UNCHANGED <<up, cpu, ram, bus, popup, runs, settings, piped, emptied, failed>>

\* saveStateFile fails, on a full disk: the file's old session is gone.
SaveFails(f) ==
  /\ up /\ ~popup /\ CutShort(f) /\ left' = NotLeft
  /\ UNCHANGED <<up, conf, path, cpu, ram, bus, popup, runs, piped, emptied, failed>>

\* The process is gone, and its machine with it.
Gone ==
  /\ up /\ up' = FALSE /\ popup' = FALSE /\ path' = NoPath
  /\ cpu' = Cold /\ ram' = Fresh /\ bus' = Stock /\ piped' = FALSE /\ emptied' = FALSE
  /\ UNCHANGED <<conf, failed>>

\* The window closed.  BREAK and CL run the machine once more, then it is saved.
Exit ==
  /\ Gone /\ UNCHANGED settings
  /\ \/ /\ conf.autoSave /\ path # NoPath
        /\ runs < MaxRuns /\ runs' = runs + 1
        /\ disk' = [disk EXCEPT ![path] =
             [is |-> "whole", cpu |-> runs + 1, ram |-> RamAfterRun, cfg |-> bus]]
        /\ left' = IF path = conf.path /\ Together /\ ~piped /\ ~emptied THEN runs + 1 ELSE NotLeft
     \/ ~(conf.autoSave /\ path # NoPath) /\ UNCHANGED <<disk, left, runs>>

\* The process ends without leaving, or while it writes its state: a dialog's, or
\* an exit's.
Crash ==
  /\ Gone /\ UNCHANGED runs
  /\ \/ UNCHANGED <<disk, left, settings>>
     \/ /\ left' = NotLeft
        /\ \E f \in Files : (~popup \/ (conf.autoSave /\ path = f)) /\ CutShort(f)

SessionNext ==
  \/ \E noState \in BOOLEAN : Start(noState)
  \/ Run \/ Reset \/ Exit \/ Crash \/ MenuCe163 \/ MenuCe155 \/ PopupApply \/ PopupFresh
  \/ \E a \in Units : MenuUnit(a)
  \/ \E n \in SessionExtSizes : n <= ExtWindow(bus) /\ (MenuExt(n) \/ PipeExt(n))
  \/ \E n \in SessionLowSizes : MenuLow(n)
  \/ \E on \in BOOLEAN : AutoSave(on)
  \/ \E f \in Files : LoadState(f) \/ SaveState(f) \/ SaveFails(f)

SessionSpec == SessionInit /\ [][SessionNext]_sessionVars

-----------------------------------------------------------------------------

\* No start, exit or crash mixes two sessions, and neither does a load that
\* succeeds: a CPU runs on another session's memory only after a load whose
\* message said that it failed, a Load State or the popup's Apply (both have
\* loaded the CPU by then, and reset nothing); a save then keeps it.
OnlyAFailedLoadMixes == up /\ ~Together => failed

\* A session that an exit saved is resumed by the next start with it, unless
\* a file was saved or loaded since, or the configuration changed by the
\* pipe, against the settings, or from settings that hold what the pipe did.
ResumesWhatWasLeft ==
  [][ Start(FALSE) /\ left # NotLeft => ~popup' /\ cpu' = left /\ ram' = left ]_sessionVars

\* "Shouldn't happen -- config now matches what was just applied from the same
\* file's own header" (main.cpp, of an Apply that does not restore the session).
\* The code breaks it with a file that was cut short (see README.md).
ApplyRestores ==
  [][ PopupApply => cpu' = disk[path].cpu /\ ram' = disk[path].ram ]_sessionVars
=============================================================================
