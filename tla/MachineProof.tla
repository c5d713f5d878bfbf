---------------------------- MODULE MachineProof ----------------------------
(***************************************************************************)
(* What the machine around the CPU promises: module Session's sessions for *)
(* every set of state files and of settings, module IoPort's transmitter   *)
(* and clock chip for every width of the chip's register, module           *)
(* MemoryMap's RAM for every choice of addresses and sizes, and module     *)
(* Keys' repeats for every choice of times.                                *)
(***************************************************************************)
EXTENDS MemoryMap, Session, IoPort, Keys, SublistLemmas, TLAPS

-----------------------------------------------------------------------------
(* Configurations of the RAM.                                              *)

Cfgs == [unitA : BOOLEAN, ext : Nat, low : Nat, ce163 : BOOLEAN, ce155 : BOOLEAN]

LEMMA StockIsACfg == Stock \in Cfgs /\ OneModule(Stock) /\ ~Split(Stock)
BY DEF Stock, Cfgs, OneModule, Split

\* Two configurations are the same field by field.
LEMMA SameFields ==
  ASSUME NEW c \in Cfgs, NEW d \in Cfgs,
         c.unitA <=> d.unitA, c.ext = d.ext, c.low = d.low,
         c.ce163 <=> d.ce163, c.ce155 <=> d.ce155
  PROVE  c = d
BY DEF Cfgs

\* Each setter, field by field.
LEMMA SetUnitFields ==
  ASSUME NEW c \in Cfgs, NEW a \in BOOLEAN
  PROVE  /\ SetUnit(c, a) \in Cfgs
         /\ SetUnit(c, a).unitA <=> a
         /\ SetUnit(c, a).low = c.low /\ (c.ext = 0 => SetUnit(c, a).ext = 0)
         /\ SetUnit(c, a).ce163 <=> c.ce163
         /\ SetUnit(c, a).ce155 <=> c.ce155
<1> DEFINE d == [c EXCEPT !.unitA = a]
           e == [d EXCEPT !.ext = ExtWindow(d)]
<1>1. /\ d \in Cfgs /\ (d.unitA <=> a) /\ d.low = c.low /\ d.ext = c.ext
      /\ (d.ce163 <=> c.ce163) /\ (d.ce155 <=> c.ce155)
  BY DEF Cfgs
<1>2. ExtWindow(d) \in Nat \ {0}
  BY DEF ExtWindow, ExtBase, K
<1>3. SetUnit(c, a) = IF c.ext > ExtWindow(d) THEN e ELSE d
  BY Zenon DEF SetUnit
<1>4. /\ e \in Cfgs /\ (e.unitA <=> d.unitA) /\ e.low = d.low /\ e.ext # 0
      /\ (e.ce163 <=> d.ce163) /\ (e.ce155 <=> d.ce155)
  <2> HIDE DEF d
  <2> QED
    BY <1>1, <1>2 DEF Cfgs
<1> HIDE DEF d, e
<1>5. CASE c.ext > ExtWindow(d)
  <2>1. c.ext # 0
    BY <1>2, <1>5
  <2> QED
    BY <1>1, <1>3, <1>4, <1>5, <2>1
<1>6. CASE ~(c.ext > ExtWindow(d))
  BY <1>1, <1>3, <1>6
<1> QED
  BY <1>5, <1>6

LEMMA SetExtFields ==
  ASSUME NEW c \in Cfgs, NEW n \in Nat
  PROVE  /\ SetExt(c, n) \in Cfgs
         /\ SetExt(c, n).unitA <=> c.unitA
         /\ SetExt(c, n).ext = n /\ SetExt(c, n).low = c.low
         /\ SetExt(c, n).ce163 <=> (n = 0 /\ c.ce163)
         /\ SetExt(c, n).ce155 <=> (n = 0 /\ c.ce155)
BY DEF Cfgs, SetExt

LEMMA SetLowFields ==
  ASSUME NEW c \in Cfgs, NEW n \in Nat
  PROVE  /\ SetLow(c, n) \in Cfgs
         /\ SetLow(c, n).unitA <=> c.unitA
         /\ SetLow(c, n).ext = c.ext /\ SetLow(c, n).low = n
         /\ ~SetLow(c, n).ce163 /\ ~SetLow(c, n).ce155
BY DEF Cfgs, SetLow

LEMMA SetCe163Fields ==
  ASSUME NEW c \in Cfgs, NEW on \in BOOLEAN
  PROVE  /\ SetCe163(c, on) \in Cfgs
         /\ SetCe163(c, on).unitA <=> c.unitA
         /\ SetCe163(c, on).ext = (IF on THEN 0 ELSE c.ext)
         /\ SetCe163(c, on).low = (IF on THEN 0 ELSE c.low)
         /\ SetCe163(c, on).ce163 <=> on
         /\ SetCe163(c, on).ce155 <=> (~on /\ c.ce155)
BY DEF Cfgs, SetCe163

LEMMA SetCe155Fields ==
  ASSUME NEW c \in Cfgs, NEW on \in BOOLEAN
  PROVE  /\ SetCe155(c, on) \in Cfgs
         /\ SetCe155(c, on).unitA <=> c.unitA
         /\ SetCe155(c, on).ext = (IF on THEN 0 ELSE c.ext)
         /\ SetCe155(c, on).low = (IF on THEN 0 ELSE c.low)
         /\ SetCe155(c, on).ce155 <=> on
         /\ SetCe155(c, on).ce163 <=> (~on /\ c.ce163)
BY DEF Cfgs, SetCe155

\* Whatever the setters are called with, and in whatever order, one module is
\* in the port.
LEMMA SettersKeepOneModule ==
  ASSUME NEW c \in Cfgs, OneModule(c), NEW a \in BOOLEAN, NEW n \in Nat
  PROVE  /\ SetUnit(c, a) \in Cfgs /\ OneModule(SetUnit(c, a))
         /\ SetExt(c, n) \in Cfgs /\ OneModule(SetExt(c, n))
         /\ SetLow(c, n) \in Cfgs /\ OneModule(SetLow(c, n))
         /\ SetCe163(c, a) \in Cfgs /\ OneModule(SetCe163(c, a))
         /\ SetCe155(c, a) \in Cfgs /\ OneModule(SetCe155(c, a))
<1>1. SetUnit(c, a) \in Cfgs /\ OneModule(SetUnit(c, a))
  BY SetUnitFields DEF OneModule
<1>2. SetExt(c, n) \in Cfgs /\ OneModule(SetExt(c, n))
  BY SetExtFields DEF OneModule
<1>3. SetLow(c, n) \in Cfgs /\ OneModule(SetLow(c, n))
  BY SetLowFields DEF OneModule
<1>4. SetCe163(c, a) \in Cfgs /\ OneModule(SetCe163(c, a))
  BY SetCe163Fields DEF OneModule
<1>5. SetCe155(c, a) \in Cfgs /\ OneModule(SetCe155(c, a))
  BY SetCe155Fields DEF OneModule
<1> QED
  BY <1>1, <1>2, <1>3, <1>4, <1>5

\* What settings w install: a module, and nothing beside it, or RAM ...
LEMMA AppliedFields ==
  ASSUME NEW c \in Cfgs, NEW w \in Cfgs
  PROVE  /\ Applied(c, w) \in Cfgs /\ OneModule(Applied(c, w))
         /\ Applied(c, w).unitA <=> w.unitA
         /\ Applied(c, w).ext = (IF w.ce163 \/ w.ce155 THEN 0 ELSE w.ext)
         /\ Applied(c, w).low = (IF w.ce163 \/ w.ce155 THEN 0 ELSE w.low)
         /\ Applied(c, w).ce163 <=> (w.ce163 /\ ~w.ce155)
         /\ Applied(c, w).ce155 <=> w.ce155
<1> DEFINE b == SetUnit(c, w.unitA)
           d == SetExt(b, w.ext)
           e == SetLow(d, w.low)
           g == SetCe163(e, w.ce163)
           h == SetCe155(g, w.ce155)
<1>1. /\ w.unitA \in BOOLEAN /\ w.ext \in Nat /\ w.low \in Nat
      /\ w.ce163 \in BOOLEAN /\ w.ce155 \in BOOLEAN
  BY DEF Cfgs
<1>2. b \in Cfgs /\ (b.unitA <=> w.unitA)
  BY <1>1, SetUnitFields
<1> HIDE DEF b
<1>3. d \in Cfgs /\ (d.unitA <=> w.unitA) /\ d.ext = w.ext
  <2>1. d \in Cfgs /\ (d.unitA <=> b.unitA) /\ d.ext = w.ext
    BY <1>1, <1>2, SetExtFields
  <2> QED
    BY <1>2, <2>1
<1> HIDE DEF d
<1>4. e \in Cfgs /\ (e.unitA <=> w.unitA) /\ e.ext = w.ext /\ e.low = w.low
      /\ ~e.ce163 /\ ~e.ce155
  BY <1>1, <1>3, SetLowFields
<1> HIDE DEF e
<1>5. /\ g \in Cfgs /\ (g.unitA <=> w.unitA)
      /\ g.ext = (IF w.ce163 THEN 0 ELSE w.ext) /\ g.low = (IF w.ce163 THEN 0 ELSE w.low)
      /\ (g.ce163 <=> w.ce163) /\ ~g.ce155
  <2> DEFINE on == w.ce163
  <2>0. on \in BOOLEAN
    BY <1>1
  <2> HIDE DEF on
  <2>1. /\ g \in Cfgs /\ (g.unitA <=> e.unitA)
        /\ g.ext = (IF on THEN 0 ELSE e.ext) /\ g.low = (IF on THEN 0 ELSE e.low)
        /\ (g.ce163 <=> on) /\ (g.ce155 <=> ~on /\ e.ce155)
    <3>1. g = SetCe163(e, on)
      BY DEF on
    <3> HIDE DEF g
    <3> QED
      BY <1>4, <2>0, <3>1, SetCe163Fields
  <2> HIDE DEF g
  <2> QED
    BY <1>4, <2>1 DEF on
<1> HIDE DEF g
<1>6. /\ h \in Cfgs /\ (h.unitA <=> w.unitA)
      /\ h.ext = (IF w.ce163 \/ w.ce155 THEN 0 ELSE w.ext)
      /\ h.low = (IF w.ce163 \/ w.ce155 THEN 0 ELSE w.low)
      /\ (h.ce163 <=> (w.ce163 /\ ~w.ce155)) /\ (h.ce155 <=> w.ce155)
  <2>1. g \in Cfgs /\ w.ce155 \in BOOLEAN
    BY <1>1, <1>5
  <2>2. /\ h \in Cfgs
        /\ h.unitA <=> g.unitA
        /\ h.ext = (IF w.ce155 THEN 0 ELSE g.ext)
        /\ h.low = (IF w.ce155 THEN 0 ELSE g.low)
        /\ h.ce155 <=> w.ce155
        /\ h.ce163 <=> (~w.ce155 /\ g.ce163)
    BY <2>1, SetCe155Fields
  <2> HIDE DEF h
  <2> QED
    BY <1>5, <2>2
<1>7. Applied(c, w) = h
  BY Zenon DEF Applied, b, d, e, g
<1>8. OneModule(h)
  <2> HIDE DEF h
  <2> QED
    BY <1>1, <1>6 DEF OneModule
<1> HIDE DEF h
<1> QED
  BY <1>6, <1>7, <1>8

\* ... whatever was installed before; and settings of one module install
\* themselves.
LEMMA AppliedForgets ==
  ASSUME NEW c \in Cfgs, NEW d \in Cfgs, NEW w \in Cfgs
  PROVE  /\ Applied(c, w) = Applied(d, w)
         /\ OneModule(w) => Applied(c, w) = w /\ ~Split(w)
<1>1. Applied(c, w) = Applied(d, w)
  <2> DEFINE x == Applied(c, w)
             y == Applied(d, w)
  <2>1. x \in Cfgs /\ y \in Cfgs /\ (x.unitA <=> y.unitA) /\ x.ext = y.ext /\ x.low = y.low
        /\ (x.ce163 <=> y.ce163) /\ (x.ce155 <=> y.ce155)
    BY AppliedFields
  <2> HIDE DEF x, y
  <2>2. x = y
    BY <2>1, SameFields
  <2> QED
    BY <2>2 DEF x, y
<1>2. ASSUME OneModule(w)
      PROVE  Applied(c, w) = w /\ ~Split(w)
  <2> DEFINE x == Applied(c, w)
  <2>1. /\ w.ce163 => w.low = 0 /\ w.ext = 0 /\ ~w.ce155
        /\ w.ce155 => w.low = 0 /\ w.ext = 0
    BY <1>2 DEF OneModule
  <2>2. x \in Cfgs /\ (x.unitA <=> w.unitA) /\ x.ext = w.ext /\ x.low = w.low
        /\ (x.ce163 <=> w.ce163) /\ (x.ce155 <=> w.ce155)
    BY <2>1, AppliedFields
  <2> HIDE DEF x
  <2>3. x = w
    BY <2>2, SameFields
  <2> QED
    BY <2>1, <2>3 DEF x, Split
<1> QED
  BY <1>1, <1>2

-----------------------------------------------------------------------------
(* Sessions.                                                               *)

States == [is : {"none", "stub", "cut", "whole"}, cpu : Nat, ram : Nat, cfg : Cfgs]

SessionTypeOK ==
  /\ up \in BOOLEAN /\ popup \in BOOLEAN /\ failed \in BOOLEAN
  /\ piped \in BOOLEAN /\ emptied \in BOOLEAN
  /\ conf \in [cfg : Cfgs, path : Files, autoSave : BOOLEAN]
  /\ path \in Files \cup {NoPath}
  /\ disk \in [Files -> States]
  /\ cpu \in Nat /\ ram \in Nat /\ runs \in Nat /\ bus \in Cfgs

\* One module in the machine, and in every session kept.
PortsHoldOne == OneModule(bus) /\ \A f \in Files : OneModule(disk[f].cfg)

\* A session kept is one a CPU and a memory ran together, unless a load failed.
KeptTogether == \A f \in Files : disk[f].is = "whole" => disk[f].cpu \in {Cold, disk[f].ram} \/ failed

\* The popup is over a file that has its configuration, and is no session an exit
\* left.
PopupHasASession ==
  popup => up /\ path \in Files /\ Headed(disk[path]) /\ left = NotLeft

\* The machine is what the settings would install; after a "None" that took no
\* module out, it has at least no RAM in the place of one they name.
HasModule(w) == w.ce163 \/ w.ce155
BusIsSettings ==
  up /\ ~piped =>
    /\ ~Split(conf.cfg)
    /\ ~emptied => bus = Applied(Stock, conf.cfg)
    /\ HasModule(conf.cfg) => bus.ext = 0

\* The session an exit left is in the file the next start opens, and is that
\* start's machine's.
LeftIsOnDisk ==
  left # NotLeft => disk[conf.path] =
    [is |-> "whole", cpu |-> left, ram |-> left, cfg |-> Applied(Stock, conf.cfg)]

SessionInv ==
  /\ SessionTypeOK /\ PortsHoldOne /\ KeptTogether /\ PopupHasASession
  /\ BusIsSettings /\ LeftIsOnDisk /\ OnlyAFailedLoadMixes

LEMMA SessionInvInit == SessionInit => SessionInv
<1> SUFFICES ASSUME SessionInit PROVE SessionInv
  OBVIOUS
<1> USE DEF SessionInit
<1>1. NoState \in States /\ OneModule(NoState.cfg) /\ NoState.is = "none"
  BY StockIsACfg DEF NoState, States, Cold, Fresh
<1>2. conf \in [cfg : Cfgs, path : Files, autoSave : BOOLEAN]
  BY StockIsACfg
<1>3. SessionTypeOK
  BY <1>1, <1>2, StockIsACfg DEF SessionTypeOK, Cold, Fresh
<1>4. PortsHoldOne /\ KeptTogether
  BY <1>1, StockIsACfg DEF PortsHoldOne, KeptTogether
<1>5. PopupHasASession /\ BusIsSettings /\ LeftIsOnDisk /\ OnlyAFailedLoadMixes
  BY DEF PopupHasASession, BusIsSettings, LeftIsOnDisk, OnlyAFailedLoadMixes
<1> QED
  BY <1>3, <1>4, <1>5 DEF SessionInv

\* The machine, field by field, is what w installs.
Installs(w, c) ==
  /\ c.unitA <=> w.unitA
  /\ c.ext = (IF w.ce163 \/ w.ce155 THEN 0 ELSE w.ext)
  /\ c.low = (IF w.ce163 \/ w.ce155 THEN 0 ELSE w.low)
  /\ c.ce163 <=> (w.ce163 /\ ~w.ce155)
  /\ c.ce155 <=> w.ce155

LEMMA InstallsIsApplied ==
  ASSUME NEW c \in Cfgs, NEW w \in Cfgs
  PROVE  Installs(w, c) <=> c = Applied(Stock, w)
<1> DEFINE d == Applied(Stock, w)
<1>1. d \in Cfgs /\ Installs(w, d)
  BY StockIsACfg, AppliedFields DEF Installs
<1> HIDE DEF d
<1>2. ASSUME Installs(w, c) PROVE c = d
  <2>1. /\ c.unitA <=> d.unitA
        /\ c.ext = d.ext /\ c.low = d.low
        /\ c.ce163 <=> d.ce163
        /\ c.ce155 <=> d.ce155
    BY <1>1, <1>2 DEF Installs
  <2> QED
    BY <1>1, <2>1, SameFields
<1> QED
  BY <1>1, <1>2 DEF d

LEMMA MenuKeeps ==
  ASSUME SessionInv, NEW c \in Cfgs, NEW w \in Cfgs, Menu(c, w), OneModule(c),
         piped' = piped, emptied' \in BOOLEAN, emptied => emptied',
         ~piped => ~Split(w) /\ (~emptied' => Installs(w, c)) /\ (HasModule(w) => c.ext = 0)
  PROVE  SessionInv'
<1> USE DEF SessionInv
<1>1. up /\ ~popup /\ bus' = c /\ conf' = [conf EXCEPT !.cfg = w] /\ left' = NotLeft
      /\ UNCHANGED <<up, path, disk, cpu, ram, popup, runs, failed>>
  BY DEF Menu
<1>2. conf' \in [cfg : Cfgs, path : Files, autoSave : BOOLEAN] /\ conf'.cfg = w
  BY <1>1 DEF SessionTypeOK
<1>3. SessionTypeOK'
  BY <1>1, <1>2 DEF SessionTypeOK
<1>4. PortsHoldOne' /\ KeptTogether' /\ OnlyAFailedLoadMixes'
  BY <1>1 DEF PortsHoldOne, KeptTogether, OnlyAFailedLoadMixes, Together
<1>5. BusIsSettings'
  BY <1>1, <1>2, InstallsIsApplied DEF BusIsSettings
<1>6. PopupHasASession' /\ LeftIsOnDisk'
  BY <1>1 DEF PopupHasASession, LeftIsOnDisk
<1> QED
  BY <1>3, <1>4, <1>5, <1>6

\* The menus set the machine and the settings alike.
LEMMA MenusKeep ==
  ASSUME SessionInv,
         \/ MenuCe163 \/ MenuCe155
         \/ \E a \in Units : MenuUnit(a)
         \/ \E n \in SessionExtSizes : MenuExt(n)
         \/ \E n \in SessionLowSizes : MenuLow(n)
  PROVE  SessionInv'
<1> DEFINE w == conf.cfg
<1>1. /\ w \in Cfgs /\ bus \in Cfgs /\ OneModule(bus) /\ piped \in BOOLEAN /\ emptied \in BOOLEAN
      /\ w.unitA \in BOOLEAN /\ w.ext \in Nat /\ w.low \in Nat /\ w.ce163 \in BOOLEAN /\ w.ce155 \in BOOLEAN
  BY DEF SessionInv, SessionTypeOK, PortsHoldOne, Cfgs
<1>2. \A x, y : Menu(x, y) => up
  BY DEF Menu
<1>3. ASSUME up, ~piped
      PROVE  ~Split(w) /\ (~emptied => Installs(w, bus)) /\ (HasModule(w) => bus.ext = 0)
  BY <1>1, <1>3, InstallsIsApplied DEF SessionInv, BusIsSettings
<1> HIDE DEF w
<1>4. CASE MenuCe163
  <2> DEFINE c == SetCe163(bus, TRUE)
             v == [w EXCEPT !.ce163 = TRUE, !.low = 0, !.ext = 0, !.ce155 = FALSE]
  <2>1. Menu(c, v) /\ piped' = piped /\ emptied' = emptied
    BY <1>4 DEF MenuCe163, w
  <2>2. /\ c \in Cfgs /\ OneModule(c)
        /\ c.unitA <=> bus.unitA
        /\ c.ext = 0 /\ c.low = 0 /\ c.ce163 /\ ~c.ce155
    BY <1>1, SettersKeepOneModule, SetCe163Fields
  <2>3. /\ v \in Cfgs
        /\ v.unitA <=> w.unitA
        /\ v.ext = 0 /\ v.low = 0 /\ v.ce163 /\ ~v.ce155
    BY <1>1 DEF Cfgs
  <2> HIDE DEF c, v
  <2>4. ASSUME ~piped
        PROVE  ~Split(v) /\ (~emptied => Installs(v, c)) /\ (HasModule(v) => c.ext = 0)
    BY <1>2, <1>3, <2>1, <2>2, <2>3, <2>4 DEF Split, Installs, HasModule
  <2> QED
    BY <1>1, <2>1, <2>2, <2>3, <2>4, MenuKeeps
<1>5. CASE MenuCe155
  <2> DEFINE c == SetCe155(bus, TRUE)
             v == [w EXCEPT !.ce155 = TRUE, !.low = 0, !.ext = 0, !.ce163 = FALSE]
  <2>1. Menu(c, v) /\ piped' = piped /\ emptied' = emptied
    BY <1>5 DEF MenuCe155, w
  <2>2. /\ c \in Cfgs /\ OneModule(c)
        /\ c.unitA <=> bus.unitA
        /\ c.ext = 0 /\ c.low = 0 /\ ~c.ce163 /\ c.ce155
    BY <1>1, SettersKeepOneModule, SetCe155Fields
  <2>3. /\ v \in Cfgs
        /\ v.unitA <=> w.unitA
        /\ v.ext = 0 /\ v.low = 0 /\ ~v.ce163 /\ v.ce155
    BY <1>1 DEF Cfgs
  <2> HIDE DEF c, v
  <2>4. ASSUME ~piped
        PROVE  ~Split(v) /\ (~emptied => Installs(v, c)) /\ (HasModule(v) => c.ext = 0)
    BY <1>2, <1>3, <2>1, <2>2, <2>3, <2>4 DEF Split, Installs, HasModule
  <2> QED
    BY <1>1, <2>1, <2>2, <2>3, <2>4, MenuKeeps
<1>6. ASSUME NEW a \in Units, MenuUnit(a)
      PROVE  SessionInv'
  <2> DEFINE c == SetUnit(bus, a)
             v == [w EXCEPT !.unitA = a, !.ext = c.ext]
  <2>0. a \in BOOLEAN
    BY SessionAssumption
  <2>1. Menu(c, v) /\ piped' = piped /\ emptied' = emptied
    BY <1>6 DEF MenuUnit, w
  <2>2. /\ c \in Cfgs /\ OneModule(c)
        /\ c.unitA <=> a
        /\ c.low = bus.low
        /\ c.ce163 <=> bus.ce163
        /\ c.ce155 <=> bus.ce155
    <3>1. c \in Cfgs /\ OneModule(c)
      BY <1>1, <2>0, SettersKeepOneModule
    <3> QED
      BY <1>1, <2>0, <3>1, SetUnitFields
  <2>3. c.ext \in Nat /\ a \in BOOLEAN /\ (bus.ext = 0 => c.ext = 0)
    BY <1>1, <2>0, <2>2, SetUnitFields DEF Cfgs
  <2> HIDE DEF c
  <2>4. /\ v \in Cfgs
        /\ v.unitA <=> a
        /\ v.ext = c.ext /\ v.low = w.low
        /\ v.ce163 <=> w.ce163
        /\ v.ce155 <=> w.ce155
    BY <1>1, <2>3 DEF Cfgs
  <2> HIDE DEF v
  <2>5. ASSUME ~piped
        PROVE  ~Split(v) /\ (~emptied => Installs(v, c)) /\ (HasModule(v) => c.ext = 0)
    BY <1>2, <1>3, <2>1, <2>2, <2>3, <2>4, <2>5 DEF Split, Installs, HasModule, OneModule
  <2> QED
    BY <1>1, <2>1, <2>2, <2>4, <2>5, MenuKeeps
<1>7. ASSUME NEW n \in SessionExtSizes, MenuExt(n)
      PROVE  SessionInv'
  <2> DEFINE c == SetExt(bus, n)
             v == [w EXCEPT !.ext = n, !.ce163 = FALSE, !.ce155 = FALSE]
  <2>0. n \in Nat
    BY SessionAssumption
  <2>1. Menu(c, v) /\ piped' = piped /\ emptied' = (emptied \/ (n = 0 /\ (bus.ce163 \/ bus.ce155)))
    BY <1>7 DEF MenuExt, w
  <2>2. /\ c \in Cfgs /\ OneModule(c)
        /\ c.unitA <=> bus.unitA
        /\ c.ext = n /\ c.low = bus.low
        /\ c.ce163 <=> (n = 0 /\ bus.ce163)
        /\ c.ce155 <=> (n = 0 /\ bus.ce155)
    BY <1>1, <2>0, SettersKeepOneModule, SetExtFields
  <2>3. /\ v \in Cfgs
        /\ v.unitA <=> w.unitA
        /\ v.ext = n /\ v.low = w.low /\ ~v.ce163 /\ ~v.ce155
    BY <1>1, <2>0 DEF Cfgs
  <2> HIDE DEF c, v
  <2>4. ASSUME ~piped
        PROVE  ~Split(v) /\ (~emptied' => Installs(v, c)) /\ (HasModule(v) => c.ext = 0)
    BY <1>2, <1>3, <2>1, <2>2, <2>3, <2>4 DEF Split, Installs, HasModule
  <2> QED
    BY <1>1, <2>1, <2>2, <2>3, <2>4, MenuKeeps
<1>8. ASSUME NEW n \in SessionLowSizes, MenuLow(n)
      PROVE  SessionInv'
  <2> DEFINE c == SetLow(bus, n)
             v == [w EXCEPT !.low = n, !.ce163 = FALSE, !.ce155 = FALSE]
  <2>0. n \in Nat
    BY SessionAssumption
  <2>1. Menu(c, v) /\ piped' = piped /\ emptied' = emptied
    BY <1>8 DEF MenuLow, w
  <2>2. /\ c \in Cfgs /\ OneModule(c)
        /\ c.unitA <=> bus.unitA
        /\ c.ext = bus.ext /\ c.low = n /\ ~c.ce163 /\ ~c.ce155
    BY <1>1, <2>0, SettersKeepOneModule, SetLowFields
  <2>3. /\ v \in Cfgs
        /\ v.unitA <=> w.unitA
        /\ v.ext = w.ext /\ v.low = n /\ ~v.ce163 /\ ~v.ce155
    BY <1>1, <2>0 DEF Cfgs
  <2> HIDE DEF c, v
  <2>4. ASSUME ~piped
        PROVE  ~Split(v) /\ (~emptied => Installs(v, c)) /\ (HasModule(v) => c.ext = 0)
    BY <1>2, <1>3, <2>1, <2>2, <2>3, <2>4 DEF Split, Installs, HasModule
  <2> QED
    BY <1>1, <2>1, <2>2, <2>3, <2>4, MenuKeeps
<1> QED
  BY <1>4, <1>5, <1>6, <1>7, <1>8

\* The machine goes on, or is reset: nothing but its contents changes.
LEMMA RunningKeeps ==
  ASSUME SessionInv, Run \/ Reset
  PROVE  SessionInv'
<1> USE DEF SessionInv
<1>1. /\ UNCHANGED <<up, conf, path, disk, bus, popup, left, piped, emptied, failed>>
      /\ cpu' \in Nat /\ ram' \in Nat /\ runs' \in Nat
  BY DEF Run, Reset, RamAfterRun, SessionTypeOK, Cold
<1>2. OnlyAFailedLoadMixes'
  BY DEF Run, Reset, RamAfterRun, OnlyAFailedLoadMixes, Together
<1>3. SessionTypeOK'
  BY <1>1 DEF SessionTypeOK
<1>4. PortsHoldOne' /\ KeptTogether' /\ PopupHasASession' /\ BusIsSettings' /\ LeftIsOnDisk'
  BY <1>1 DEF PortsHoldOne, KeptTogether, PopupHasASession, BusIsSettings, LeftIsOnDisk
<1> QED
  BY <1>2, <1>3, <1>4

LEMMA StartKeeps ==
  ASSUME SessionInv, NEW noState \in BOOLEAN, Start(noState)
  PROVE  SessionInv'
<1> DEFINE c == Applied(Stock, conf.cfg)
           d == disk[conf.path]
           f == IF noState THEN NoState ELSE d
<1>1. /\ d \in States /\ conf.path \in Files /\ conf.cfg \in Cfgs
      /\ d.is = "whole" => d.cpu \in {Cold, d.ram} \/ failed
  BY DEF SessionInv, SessionTypeOK, KeptTogether
<1>2. c \in Cfgs /\ OneModule(c)
  BY <1>1, StockIsACfg, AppliedFields
<1>3. left # NotLeft => d = [is |-> "whole", cpu |-> left, ram |-> left, cfg |-> c]
  BY DEF SessionInv, LeftIsOnDisk
<1>4. /\ f \in States /\ f.cpu \in Nat /\ f.ram \in Nat
      /\ f.is = "whole" => f.cpu \in {Cold, f.ram} \/ failed
      /\ Headed(f) => f = d /\ ~noState
  BY <1>1, StockIsACfg DEF NoState, States, Headed, Cold, Fresh
<1>5. /\ up' = TRUE /\ bus' = c /\ piped' = Split(conf.cfg) /\ emptied' = FALSE
      /\ path' = (IF noState THEN NoPath ELSE conf.path)
      /\ cpu' = (IF Restores(f, c) THEN f.cpu ELSE Cold)
      /\ ram' \in {f.ram, Fresh, Lost} /\ (Restores(f, c) => ram' = f.ram)
      /\ popup' = (Headed(f) /\ f.cfg # c)
      /\ UNCHANGED <<conf, disk, runs, left, failed>>
  BY DEF Start, Booted, RamLoaded, Restores, Headed
<1> HIDE DEF c, d, f
<1>6. SessionTypeOK'
  <2>1. cpu' \in Nat /\ ram' \in Nat
    BY <1>4, <1>5 DEF Cold, Fresh, Lost
  <2>2. Split(conf.cfg) \in BOOLEAN /\ popup' \in BOOLEAN
    BY <1>5 DEF Split, Headed
  <2> QED
    BY <1>1, <1>2, <1>5, <2>1, <2>2 DEF SessionInv, SessionTypeOK
<1>7. PortsHoldOne' /\ KeptTogether'
  BY <1>2, <1>5 DEF SessionInv, PortsHoldOne, KeptTogether
<1>8. PopupHasASession'
  <2>1. left # NotLeft => d.cfg = c
    BY <1>3
  <2>2. popup' => left = NotLeft
    BY <1>4, <1>5, <2>1
  <2> QED
    BY <1>1, <1>4, <1>5, <2>2 DEF PopupHasASession, d
<1>9. BusIsSettings'
  <2>1. HasModule(conf.cfg) => c.ext = 0
    BY <1>1, StockIsACfg, AppliedFields DEF c, HasModule
  <2> QED
    BY <1>5, <2>1 DEF BusIsSettings, c
<1>10. LeftIsOnDisk'
  BY <1>5 DEF SessionInv, LeftIsOnDisk
<1>11. OnlyAFailedLoadMixes'
  BY <1>4, <1>5 DEF OnlyAFailedLoadMixes, Together, Restores
<1> QED
  BY <1>6, <1>7, <1>8, <1>9, <1>10, <1>11 DEF SessionInv

LEMMA PipeAndAutoSaveKeep ==
  ASSUME SessionInv,
         \/ \E n \in SessionExtSizes : PipeExt(n)
         \/ \E on \in BOOLEAN : AutoSave(on)
  PROVE  SessionInv'
<1> USE DEF SessionInv
<1>1. ASSUME NEW n \in SessionExtSizes, PipeExt(n)
      PROVE  SessionInv'
  <2>1. bus' \in Cfgs /\ OneModule(bus') /\ piped' = TRUE
        /\ UNCHANGED <<up, conf, path, disk, cpu, ram, popup, runs, left, emptied, failed>>
    BY <1>1, SessionAssumption, SettersKeepOneModule DEF PipeExt, SessionTypeOK, PortsHoldOne
  <2>2. SessionTypeOK'
    BY <2>1 DEF SessionTypeOK
  <2>3. PortsHoldOne' /\ KeptTogether' /\ PopupHasASession'
    BY <2>1 DEF PortsHoldOne, KeptTogether, PopupHasASession
  <2>4. BusIsSettings' /\ LeftIsOnDisk' /\ OnlyAFailedLoadMixes'
    BY <2>1 DEF BusIsSettings, LeftIsOnDisk, OnlyAFailedLoadMixes, Together
  <2> QED
    BY <2>2, <2>3, <2>4
<1>2. ASSUME NEW on \in BOOLEAN, AutoSave(on)
      PROVE  SessionInv'
  <2>1. /\ up /\ ~popup
        /\ UNCHANGED <<up, disk, cpu, ram, bus, popup, runs, piped, emptied, failed>>
        /\ \/ left' = NotLeft /\ path' \in Files /\ conf' = [conf EXCEPT !.autoSave = TRUE, !.path = path']
           \/ conf' = [conf EXCEPT !.autoSave = on] /\ UNCHANGED <<path, left>>
    BY <1>2 DEF AutoSave
  <2>2. /\ conf' \in [cfg : Cfgs, path : Files, autoSave : BOOLEAN] /\ conf'.cfg = conf.cfg
        /\ left' = NotLeft \/ (conf'.path = conf.path /\ left' = left)
    BY <2>1 DEF SessionTypeOK
  <2>3. SessionTypeOK'
    BY <2>1, <2>2 DEF SessionTypeOK
  <2>4. PortsHoldOne' /\ KeptTogether' /\ PopupHasASession'
    BY <2>1 DEF PortsHoldOne, KeptTogether, PopupHasASession
  <2>5. BusIsSettings' /\ OnlyAFailedLoadMixes'
    BY <2>1, <2>2 DEF BusIsSettings, OnlyAFailedLoadMixes, Together
  <2>6. LeftIsOnDisk'
    BY <2>1, <2>2 DEF LeftIsOnDisk
  <2> QED
    BY <2>3, <2>4, <2>5, <2>6
<1> QED
  BY <1>1, <1>2

LEMMA PopupKeeps ==
  ASSUME SessionInv, PopupApply \/ PopupFresh
  PROVE  SessionInv'
<1> USE DEF SessionInv
<1>1. CASE PopupFresh
  <2>1. popup' = FALSE /\ UNCHANGED <<up, conf, path, disk, cpu, ram, bus, runs, left, piped, emptied, failed>>
    BY <1>1 DEF PopupFresh
  <2>2. SessionTypeOK'
    BY <2>1 DEF SessionTypeOK
  <2> QED
    BY <2>1, <2>2 DEF PortsHoldOne, KeptTogether, PopupHasASession, BusIsSettings, LeftIsOnDisk,
                      OnlyAFailedLoadMixes, Together
<1>2. CASE PopupApply
  <2> DEFINE f == disk[path]
  <2>1. /\ up /\ popup /\ path \in Files /\ Headed(f) /\ left = NotLeft
        /\ f \in States /\ f.cfg \in Cfgs /\ f.cpu \in Nat /\ f.ram \in Nat /\ OneModule(f.cfg)
        /\ f.is = "whole" => f.cpu \in {Cold, f.ram} \/ failed
    BY <1>2 DEF PopupApply, PopupHasASession, SessionTypeOK, PortsHoldOne, KeptTogether, States
  <2>2. /\ f.cfg = Applied(bus, f.cfg) /\ f.cfg = Applied(Stock, f.cfg) /\ ~Split(f.cfg)
        /\ HasModule(f.cfg) => f.cfg.ext = 0
    BY <2>1, StockIsACfg, AppliedForgets DEF SessionTypeOK, OneModule, HasModule
  <2>3. /\ popup' = FALSE /\ bus' = f.cfg /\ conf' = [conf EXCEPT !.cfg = f.cfg]
        /\ Loads(f, f.cfg)
        /\ failed' = (failed \/ ~Restores(f, f.cfg))
        /\ UNCHANGED <<up, path, disk, runs, left, piped, emptied>>
    BY <1>2, <2>2 DEF PopupApply
  <2> HIDE DEF f
  <2>4. /\ cpu' = f.cpu /\ ram' \in {f.ram, ram, Lost}
        /\ failed => failed'
        /\ ~failed' => ram' = f.ram /\ f.cpu \in {Cold, f.ram}
    BY <2>1, <2>3 DEF Loads, RamLoaded, Restores, Headed
  <2>5. conf' \in [cfg : Cfgs, path : Files, autoSave : BOOLEAN] /\ conf'.cfg = f.cfg
    BY <2>1, <2>3 DEF SessionTypeOK
  <2>6. SessionTypeOK'
    <3>1. cpu' \in Nat /\ ram' \in Nat
      BY <2>1, <2>4 DEF SessionTypeOK, Lost
    <3>2. failed' \in BOOLEAN
      BY <2>3 DEF SessionTypeOK
    <3> QED
      BY <2>1, <2>3, <2>5, <3>1, <3>2 DEF SessionTypeOK
  <2>7. PortsHoldOne' /\ KeptTogether' /\ PopupHasASession'
    BY <2>1, <2>3, <2>4 DEF PortsHoldOne, KeptTogether, PopupHasASession
  <2>8. OnlyAFailedLoadMixes'
    BY <2>4 DEF OnlyAFailedLoadMixes, Together
  <2>9. BusIsSettings' /\ LeftIsOnDisk'
    BY <2>1, <2>2, <2>3, <2>5 DEF BusIsSettings, LeftIsOnDisk
  <2> QED
    BY <2>6, <2>7, <2>8, <2>9
<1> QED
  BY <1>1, <1>2

LEMMA LoadKeeps ==
  ASSUME SessionInv, NEW f \in Files, LoadState(f)
  PROVE  SessionInv'
<1> USE DEF SessionInv
<1>1. /\ disk[f] \in States /\ disk[f].cpu \in Nat /\ disk[f].ram \in Nat
      /\ disk[f].is = "whole" => disk[f].cpu \in {Cold, disk[f].ram} \/ failed
  BY DEF SessionTypeOK, KeptTogether, States
<1>2. cpu' \in Nat /\ ram' \in Nat
  <2>1. cpu' \in {cpu, disk[f].cpu, Torn} /\ ram' \in {ram, disk[f].ram, Lost}
    BY DEF LoadState, Loads, RamLoaded, Restores, Headed
  <2> QED
    BY <1>1, <2>1 DEF SessionTypeOK, Lost, Torn
<1>3. /\ up /\ ~popup /\ UNCHANGED <<up, disk, bus, popup, runs, piped, emptied>>
      /\ failed => failed'
      /\ \/ /\ disk[f].is = "whole" /\ disk[f].cfg = bus
            /\ path' = f /\ conf' = [conf EXCEPT !.path = f] /\ left' = NotLeft /\ UNCHANGED failed
            /\ cpu' = disk[f].cpu /\ ram' = disk[f].ram
         \/ failed' = TRUE /\ UNCHANGED <<path, conf, left>>
  <2>1. Restores(disk[f], bus) => cpu' = disk[f].cpu /\ ram' = disk[f].ram
    BY DEF LoadState, Loads, RamLoaded, Restores, Headed
  <2> QED
    BY <2>1 DEF LoadState, Restores, SessionTypeOK
<1>4. /\ conf' \in [cfg : Cfgs, path : Files, autoSave : BOOLEAN] /\ conf'.cfg = conf.cfg
      /\ failed' \in BOOLEAN /\ path' \in Files \cup {NoPath}
      /\ left' = NotLeft \/ (conf' = conf /\ left' = left)
  BY <1>3 DEF SessionTypeOK
<1>5. SessionTypeOK'
  BY <1>2, <1>3, <1>4 DEF SessionTypeOK
<1>6. PortsHoldOne' /\ KeptTogether' /\ PopupHasASession'
  BY <1>3 DEF PortsHoldOne, KeptTogether, PopupHasASession
<1>7. BusIsSettings' /\ LeftIsOnDisk'
  BY <1>3, <1>4 DEF BusIsSettings, LeftIsOnDisk
<1>8. OnlyAFailedLoadMixes'
  BY <1>1, <1>3 DEF OnlyAFailedLoadMixes, Together
<1> QED
  BY <1>5, <1>6, <1>7, <1>8

LEMMA SaveKeeps ==
  ASSUME SessionInv, NEW f \in Files, SaveState(f)
  PROVE  SessionInv'
<1> USE DEF SessionInv
<1>1. /\ up /\ ~popup /\ disk' = [disk EXCEPT ![f] = Written]
      /\ path' = f /\ conf' = [conf EXCEPT !.path = f] /\ left' = NotLeft
      /\ UNCHANGED <<up, cpu, ram, bus, popup, runs, piped, emptied, failed>>
  BY DEF SaveState
<1>2. /\ Written \in States /\ OneModule(Written.cfg)
      /\ Written.cpu \in {Cold, Written.ram} \/ failed
  BY <1>1 DEF Written, States, SessionTypeOK, PortsHoldOne, OnlyAFailedLoadMixes, Together
<1>3. /\ conf' \in [cfg : Cfgs, path : Files, autoSave : BOOLEAN] /\ conf'.cfg = conf.cfg
  BY <1>1 DEF SessionTypeOK
<1>4. disk' \in [Files -> States] /\ \A g \in Files : disk'[g] = IF g = f THEN Written ELSE disk[g]
  BY <1>1, <1>2 DEF SessionTypeOK
<1>5. SessionTypeOK'
  BY <1>1, <1>3, <1>4 DEF SessionTypeOK
<1>6. PortsHoldOne' /\ KeptTogether'
  BY <1>1, <1>2, <1>4 DEF PortsHoldOne, KeptTogether
<1>7. PopupHasASession' /\ BusIsSettings' /\ LeftIsOnDisk' /\ OnlyAFailedLoadMixes'
  BY <1>1, <1>3 DEF PopupHasASession, BusIsSettings, LeftIsOnDisk, OnlyAFailedLoadMixes, Together
<1> QED
  BY <1>5, <1>6, <1>7

\* A file that is cut short is no session kept.
LEMMA CutFileKeeps ==
  ASSUME SessionInv, NEW f \in Files, CutShort(f), failed' = failed
  PROVE  /\ disk' \in [Files -> States]
         /\ \A g \in Files : OneModule(disk'[g].cfg)
         /\ KeptTogether'
<1> USE DEF SessionInv
<1>1. PICK file \in {[NoState EXCEPT !.is = "stub"], [Written EXCEPT !.is = "cut"]} :
        disk' = [disk EXCEPT ![f] = file]
  BY DEF CutShort
<1>2. file \in States /\ OneModule(file.cfg) /\ file.is # "whole"
  BY <1>1, StockIsACfg DEF NoState, Written, States, SessionTypeOK, PortsHoldOne, Cold, Fresh
<1>3. \A g \in Files : disk'[g] = IF g = f THEN file ELSE disk[g]
  BY <1>1 DEF SessionTypeOK
<1> QED
  BY <1>1, <1>2, <1>3 DEF SessionTypeOK, PortsHoldOne, KeptTogether

LEMMA SaveFailsKeeps ==
  ASSUME SessionInv, NEW f \in Files, SaveFails(f)
  PROVE  SessionInv'
<1> USE DEF SessionInv
<1>1. /\ CutShort(f) /\ ~popup /\ left' = NotLeft
      /\ UNCHANGED <<up, conf, path, cpu, ram, bus, popup, runs, piped, emptied, failed>>
  BY DEF SaveFails
<1>2. disk' \in [Files -> States] /\ KeptTogether' /\ \A g \in Files : OneModule(disk'[g].cfg)
  BY <1>1, CutFileKeeps
<1>3. SessionTypeOK' /\ PortsHoldOne'
  BY <1>1, <1>2 DEF SessionTypeOK, PortsHoldOne
<1>4. PopupHasASession' /\ BusIsSettings' /\ LeftIsOnDisk' /\ OnlyAFailedLoadMixes'
  BY <1>1 DEF PopupHasASession, BusIsSettings, LeftIsOnDisk, OnlyAFailedLoadMixes, Together
<1> QED
  BY <1>2, <1>3, <1>4

LEMMA EndsKeep ==
  ASSUME SessionInv, Exit \/ Crash
  PROVE  SessionInv'
<1> USE DEF SessionInv
<1>1. /\ up /\ up' = FALSE /\ popup' = FALSE /\ path' = NoPath
      /\ cpu' = Cold /\ ram' = Fresh /\ bus' = Stock /\ piped' = FALSE /\ emptied' = FALSE
      /\ UNCHANGED <<conf, failed>> /\ runs' \in Nat
  BY DEF Exit, Crash, Gone, SessionTypeOK
<1>2. /\ disk' \in [Files -> States]
      /\ \A g \in Files : OneModule(disk'[g].cfg)
      /\ \A g \in Files : disk'[g].is = "whole" => disk'[g].cpu \in {Cold, disk'[g].ram} \/ failed
      /\ LeftIsOnDisk'
  <2>1. CASE UNCHANGED <<disk, left>>
    BY <1>1, <2>1 DEF SessionTypeOK, PortsHoldOne, KeptTogether, LeftIsOnDisk
  <2>2. CASE /\ path # NoPath /\ runs' = runs + 1
             /\ disk' = [disk EXCEPT ![path] =
                  [is |-> "whole", cpu |-> runs + 1, ram |-> RamAfterRun, cfg |-> bus]]
             /\ left' = IF path = conf.path /\ Together /\ ~piped /\ ~emptied THEN runs + 1 ELSE NotLeft
    <3> DEFINE new == [is |-> "whole", cpu |-> runs + 1, ram |-> RamAfterRun, cfg |-> bus]
    <3>1. /\ new \in States /\ OneModule(new.cfg)
          /\ new.cpu \in {Cold, new.ram} \/ failed
      BY <1>1 DEF RamAfterRun, States, SessionTypeOK, PortsHoldOne, OnlyAFailedLoadMixes
    <3>2. path \in Files /\ disk' \in [Files -> States]
          /\ \A g \in Files : disk'[g] = IF g = path THEN new ELSE disk[g]
      BY <2>2, <3>1 DEF SessionTypeOK
    <3>3. LeftIsOnDisk'
      <4> SUFFICES ASSUME left' # NotLeft
                   PROVE  disk'[conf.path] = [is |-> "whole", cpu |-> left', ram |-> left',
                                              cfg |-> Applied(Stock, conf.cfg)]
        BY <1>1 DEF LeftIsOnDisk
      <4>1. path = conf.path /\ Together /\ ~piped /\ ~emptied /\ left' = runs + 1
        BY <2>2
      <4>2. bus = Applied(Stock, conf.cfg)
        BY <1>1, <4>1 DEF BusIsSettings
      <4>3. RamAfterRun = runs + 1
        BY <4>1 DEF RamAfterRun
      <4> QED
        BY <3>2, <4>1, <4>2, <4>3
    <3> HIDE DEF new
    <3> QED
      BY <3>1, <3>2, <3>3 DEF PortsHoldOne, KeptTogether
  <2>3. ASSUME NEW f \in Files, CutShort(f), left' = NotLeft
        PROVE  /\ disk' \in [Files -> States]
               /\ \A g \in Files : OneModule(disk'[g].cfg)
               /\ \A g \in Files : disk'[g].is = "whole" => disk'[g].cpu \in {Cold, disk'[g].ram} \/ failed
               /\ LeftIsOnDisk'
    BY <1>1, <2>3, CutFileKeeps DEF KeptTogether, LeftIsOnDisk
  <2> QED
    BY <2>1, <2>2, <2>3 DEF Exit, Crash
<1>3. SessionTypeOK'
  BY <1>1, <1>2, StockIsACfg DEF SessionTypeOK, Cold, Fresh
<1>4. PortsHoldOne' /\ KeptTogether' /\ PopupHasASession' /\ BusIsSettings' /\ OnlyAFailedLoadMixes'
  BY <1>1, <1>2, StockIsACfg DEF PortsHoldOne, KeptTogether, PopupHasASession, BusIsSettings,
                                 OnlyAFailedLoadMixes
<1> QED
  BY <1>2, <1>3, <1>4

LEMMA SessionInvStep == SessionInv /\ [SessionNext]_sessionVars => SessionInv'
<1> SUFFICES ASSUME SessionInv, [SessionNext]_sessionVars
             PROVE  SessionInv'
  OBVIOUS
<1>1. CASE UNCHANGED sessionVars
  BY <1>1 DEF sessionVars, SessionInv, SessionTypeOK, PortsHoldOne, KeptTogether, PopupHasASession,
              BusIsSettings, LeftIsOnDisk, OnlyAFailedLoadMixes, Together
<1>2. ASSUME NEW noState \in BOOLEAN, Start(noState) PROVE SessionInv'
  BY <1>2, StartKeeps
<1>3. CASE Run \/ Reset
  BY <1>3, RunningKeeps
<1>4. CASE Exit \/ Crash
  BY <1>4, EndsKeep
<1>5. CASE \/ MenuCe163 \/ MenuCe155 \/ \E a \in Units : MenuUnit(a)
           \/ \E n \in SessionExtSizes : MenuExt(n)
           \/ \E n \in SessionLowSizes : MenuLow(n)
  BY <1>5, MenusKeep
<1>6. CASE PopupApply \/ PopupFresh
  BY <1>6, PopupKeeps
<1>7. CASE (\E n \in SessionExtSizes : PipeExt(n)) \/ (\E on \in BOOLEAN : AutoSave(on))
  BY <1>7, PipeAndAutoSaveKeep
<1>8. ASSUME NEW f \in Files, LoadState(f) PROVE SessionInv'
  BY <1>8, LoadKeeps
<1>9. ASSUME NEW f \in Files, SaveState(f) PROVE SessionInv'
  BY <1>9, SaveKeeps
<1>10. ASSUME NEW f \in Files, SaveFails(f) PROVE SessionInv'
  BY <1>10, SaveFailsKeeps
<1> QED
  BY <1>1, <1>2, <1>3, <1>4, <1>5, <1>6, <1>7, <1>8, <1>9, <1>10 DEF SessionNext

\* The CPU and the memory of a running machine belong together unless a load, by
\* Load State or by the popup's Apply, said that it failed (loadStateFile loads the
\* CPU before it looks at the memory): no start, no load that succeeds, no exit and
\* no crash, wherever it cuts a file short, mixes two sessions.
THEOREM OnlyFailedLoadsMix == SessionSpec => []OnlyAFailedLoadMixes
<1>1. SessionInv => OnlyAFailedLoadMixes
  BY DEF SessionInv
<1> QED
  BY <1>1, SessionInvInit, SessionInvStep, PTL DEF SessionSpec

\* The session an exit saved is the one the next start of the program shows,
\* however many sessions, settings and crashes lie between: the start applies
\* the settings, and they are the configuration the file was saved under.
THEOREM SessionsResume == SessionSpec => ResumesWhatWasLeft
<1>1. ASSUME SessionInv, Start(FALSE), left # NotLeft
      PROVE  ~popup' /\ cpu' = left /\ ram' = left
  <2> DEFINE c == Applied(Stock, conf.cfg)
             f == disk[conf.path]
  <2>1. f.is = "whole" /\ f.cpu = left /\ f.ram = left /\ f.cfg = c
    BY <1>1 DEF SessionInv, LeftIsOnDisk
  <2>2. Restores(f, c) /\ cpu' = Booted(f, c) /\ ram' \in RamLoaded(f, c, Fresh) /\ popup' = (Headed(f) /\ f.cfg # c)
    BY <1>1, <2>1 DEF Start, Restores
  <2> HIDE DEF c, f
  <2> QED
    BY <2>1, <2>2 DEF Booted, RamLoaded, Restores, Headed
<1>2. SessionInv /\ [SessionNext]_sessionVars
        => [Start(FALSE) /\ left # NotLeft => ~popup' /\ cpu' = left /\ ram' = left]_sessionVars
  BY <1>1
<1> QED
  BY <1>2, SessionInvInit, SessionInvStep, PTL DEF SessionSpec, ResumesWhatWasLeft

-----------------------------------------------------------------------------
(* The serial transmitter.                                                 *)

TxTypeOK ==
  /\ fReg \in 0..7 /\ td \in BOOLEAN /\ txCycles \in Nat
  /\ sending \in BOOLEAN /\ sentWith \in 0..7

\* A byte written is on its way until TD is set, for every divisor that fits
\* its byte, whatever the program reads, writes or sends in between.
THEOREM ShortBytesAreSent == IoSpec => []ShortBytesFinish
<1> DEFINE Inv == TxTypeOK /\ ShortBytesFinish
<1>1. IoInit => Inv
  <2> SUFFICES ASSUME IoInit PROVE Inv
    OBVIOUS
  <2>1. fReg = 0 /\ td \in BOOLEAN /\ txCycles = 0 /\ sending \in BOOLEAN /\ ~sending /\ sentWith = 0
    BY DEF IoInit
  <2> QED
    BY <2>1 DEF TxTypeOK, ShortBytesFinish
<1>2. Inv /\ [TxNext \/ RtcNext]_ioVars => Inv'
  <2> SUFFICES ASSUME Inv, [TxNext \/ RtcNext]_ioVars PROVE Inv'
    OBVIOUS
  <2> USE IoAssumption DEF TxTypeOK, ShortBytesFinish
  <2>1. ASSUME NEW n \in Selectors, WriteF(n) PROVE Inv'
    BY <2>1 DEF WriteF
  <2>2. ASSUME NEW b \in BOOLEAN, WriteIf(b) PROVE Inv'
    BY <2>2 DEF WriteIf
  <2>3. CASE Send
    <3> DEFINE t == 11 * Divisor
    <3>1. t \in Nat /\ (fReg <= 2 => t > 0)
      <4>1. fReg \in {0, 1, 2, 3, 4, 5, 6, 7}
        OBVIOUS
      <4>2. Divisor \in Nat /\ (fReg <= 2 => Divisor \in Nat \ {0})
        BY <4>1 DEF Divisor
      <4> QED
        BY <4>2
    <3>2. td' = FALSE /\ txCycles' = t /\ sending' = TRUE /\ sentWith' = fReg /\ fReg' = fReg
      BY <2>3 DEF Send
    <3> HIDE DEF t
    <3> QED
      BY <3>1, <3>2
  <2>4. ASSUME NEW n \in Cycles, AdvanceCycles(n) PROVE Inv'
    <3>1. /\ txCycles' \in Nat /\ UNCHANGED <<fReg, sentWith>>
          /\ td' = (td \/ txCycles' = 0) /\ sending' = (sending /\ txCycles' > 0)
      <4>1. n \in Nat
        OBVIOUS
      <4> QED
        BY <2>4, <4>1 DEF AdvanceCycles
    <3>2. td' \in BOOLEAN /\ sending' \in BOOLEAN /\ (sending' => txCycles' > 0)
      BY ONLY <3>1, Inv DEF TxTypeOK
    <3> QED
      BY ONLY <3>1, <3>2, Inv DEF TxTypeOK, ShortBytesFinish
  <2>5. CASE UNCHANGED txVars
    BY <2>5 DEF txVars
  <2>6. RtcNext \/ UNCHANGED ioVars => UNCHANGED txVars
    <3>1. ASSUME NEW d, NEW stb, NEW clk, NEW m, WriteOpc(d, stb, clk, m) PROVE UNCHANGED txVars
      BY ONLY <3>1 DEF WriteOpc
    <3>2. CASE Tick
      BY ONLY <3>2 DEF Tick
    <3>3. CASE UNCHANGED ioVars
      BY ONLY <3>3 DEF ioVars
    <3> QED
      BY ONLY <3>1, <3>2, <3>3 DEF RtcNext
  <2> QED
    BY <2>1, <2>2, <2>3, <2>4, <2>5, <2>6 DEF TxNext
<1>3. Inv => ShortBytesFinish
  OBVIOUS
<1> QED
  BY <1>1, <1>2, <1>3, PTL DEF IoSpec

-----------------------------------------------------------------------------
(* The clock chip.                                                         *)

RtcTypeOK ==
  /\ mode \in Modes /\ register \in Time /\ clock \in Time
  /\ prevStb \in BOOLEAN /\ prevClk \in BOOLEAN
  /\ shiftedIn \in Seq({0, 1})

\* In TIME SET the register holds the last bits clocked in.
RegisterHasTheLast ==
  mode = "set" =>
    \A i \in 1..Bits : i + Len(shiftedIn) > Bits => register[i] = shiftedIn[i + Len(shiftedIn) - Bits]

\* What DATA OUT has shown is the beginning of the time read, and the register
\* holds the rest.
RestIsInRegister ==
  shown # NotShown =>
    /\ shown.time \in Time /\ shown.bits \in Seq({0, 1})
    /\ shown = [time |-> shown.time, bits |-> shown.bits]
    /\ Len(shown.bits) <= Bits
    /\ \A i \in 1..Len(shown.bits) : shown.bits[i] = shown.time[i]
    /\ \A i \in 1..(Bits - Len(shown.bits)) : register[i] = shown.time[i + Len(shown.bits)]

RtcInv == RtcTypeOK /\ RegisterHasTheLast /\ RestIsInRegister

\* A shift moves every bit one place down and takes in one at the top.
LEMMA ShiftIs ==
  ASSUME NEW r \in Time, NEW d \in {0, 1}
  PROVE  /\ Append(Tail(r), d) \in Time
         /\ \A i \in 1..Bits : Append(Tail(r), d)[i] = IF i = Bits THEN d ELSE r[i + 1]
<1>1. Bits \in Nat \ {0}
  BY IoAssumption
<1>2. r \in Seq({0, 1}) /\ Len(r) = Bits
  BY <1>1 DEF Time
<1>3. Tail(r) \in Seq({0, 1}) /\ Len(Tail(r)) = Bits - 1
      /\ \A i \in 1..(Bits - 1) : Tail(r)[i] = r[i + 1]
  BY <1>1, <1>2
<1> DEFINE t == Tail(r)
<1>4. /\ t \in Seq({0, 1}) /\ Len(t) = Bits - 1 /\ \A i \in 1..(Bits - 1) : t[i] = r[i + 1]
  BY <1>3
<1> HIDE DEF t
<1>5. /\ Append(t, d) \in Seq({0, 1}) /\ Len(Append(t, d)) = Bits
      /\ \A i \in 1..Bits : Append(t, d)[i] = IF i = Bits THEN d ELSE t[i]
  BY <1>1, <1>4
<1>6. Append(t, d) \in Time
  <2> DEFINE a == Append(t, d)
  <2>1. a \in Seq({0, 1}) /\ Len(a) = Bits
    BY <1>5
  <2> HIDE DEF a
  <2>2. a \in Time
    BY <1>1, <2>1 DEF Time
  <2> QED
    BY <2>2 DEF a
<1> QED
  BY <1>1, <1>4, <1>5, <1>6 DEF t

LEMMA RtcInvInit == IoInit => RtcInv
<1> SUFFICES ASSUME IoInit PROVE RtcInv
  OBVIOUS
<1>1. /\ mode = "hold" /\ register = [i \in 1..Bits |-> 0] /\ clock \in Time
      /\ prevStb \in BOOLEAN /\ prevClk \in BOOLEAN /\ shiftedIn = <<>> /\ shown = NotShown
  BY DEF IoInit
<1>2. RtcTypeOK
  BY <1>1 DEF RtcTypeOK, Modes, Time
<1>3. RegisterHasTheLast /\ RestIsInRegister
  BY <1>1 DEF RegisterHasTheLast, RestIsInRegister
<1> QED
  BY <1>2, <1>3 DEF RtcInv

\* A write to port C, one part at a time: a command latched, then a bit shifted.
LEMMA WriteOpcIs ==
  ASSUME RtcTypeOK, NEW d \in {0, 1}, NEW stb \in BOOLEAN, NEW clk \in BOOLEAN,
         NEW m \in IF stb /\ ~prevStb THEN Modes ELSE {mode},
         WriteOpc(d, stb, clk, m)
  PROVE  \E lr \in Time :
    LET latched == stb /\ ~prevStb
        rises == clk /\ ~prevClk
    IN
    /\ mode' = m /\ m \in Modes /\ (~latched => m = mode)
    /\ lr = IF latched /\ m = "read" THEN clock ELSE register
    /\ clock' = IF latched /\ mode = "set" /\ m \notin {"set", "read"} THEN register ELSE clock
    /\ register' = IF rises /\ m \in {"shift", "set"} THEN Append(Tail(lr), d) ELSE lr
    /\ prevStb' = stb /\ prevClk' = clk
    /\ shiftedIn' = IF m # "set" THEN <<>>
                    ELSE LET old == IF mode = "set" THEN shiftedIn ELSE <<>>
                         IN IF rises THEN Append(old, d) ELSE old
    /\ shown' = IF latched /\ m = "read" THEN [time |-> clock, bits |-> <<>>]
                ELSE IF m = "set" THEN NotShown
                ELSE IF shown # NotShown /\ m = "shift" /\ rises /\ Len(shown.bits) < Bits
                THEN [shown EXCEPT !.bits = Append(@, lr[1])] ELSE shown
<1> USE DEF RtcTypeOK
<1>1. CASE stb /\ ~prevStb
  <2> WITNESS (IF m = "read" THEN clock ELSE register) \in Time
  <2> QED
    BY <1>1 DEF WriteOpc, Latched, ClkRises, Shifts
<1>2. CASE ~(stb /\ ~prevStb)
  <2> WITNESS register \in Time
  <2> QED
    BY <1>2 DEF WriteOpc, Latched, ClkRises, Shifts
<1> QED
  BY <1>1, <1>2

LEMMA RtcInvWrite ==
  ASSUME RtcInv, NEW d \in {0, 1}, NEW stb \in BOOLEAN, NEW clk \in BOOLEAN,
         NEW m \in IF stb /\ ~prevStb THEN Modes ELSE {mode},
         WriteOpc(d, stb, clk, m)
  PROVE  RtcInv'
<1> DEFINE latched == stb /\ ~prevStb
           rises == clk /\ ~prevClk
<1>1. PICK lr \in Time :
        /\ mode' = m /\ m \in Modes /\ (~latched => m = mode)
        /\ lr = IF latched /\ m = "read" THEN clock ELSE register
        /\ clock' = IF latched /\ mode = "set" /\ m \notin {"set", "read"} THEN register ELSE clock
        /\ register' = IF rises /\ m \in {"shift", "set"} THEN Append(Tail(lr), d) ELSE lr
        /\ prevStb' = stb /\ prevClk' = clk
        /\ shiftedIn' = IF m # "set" THEN <<>>
                        ELSE LET old == IF mode = "set" THEN shiftedIn ELSE <<>>
                             IN IF rises THEN Append(old, d) ELSE old
        /\ shown' = IF latched /\ m = "read" THEN [time |-> clock, bits |-> <<>>]
                    ELSE IF m = "set" THEN NotShown
                    ELSE IF shown # NotShown /\ m = "shift" /\ rises /\ Len(shown.bits) < Bits
                    THEN [shown EXCEPT !.bits = Append(@, lr[1])] ELSE shown
  BY WriteOpcIs DEF RtcInv
<1>2. /\ mode \in Modes /\ register \in Time /\ clock \in Time /\ shiftedIn \in Seq({0, 1})
      /\ Bits \in Nat \ {0} /\ \A i \in 1..Bits : lr[i] \in {0, 1}
  BY IoAssumption DEF RtcInv, RtcTypeOK, Time
<1> DEFINE next == Append(Tail(lr), d)
<1>3. next \in Time /\ \A i \in 1..Bits : next[i] = IF i = Bits THEN d ELSE lr[i + 1]
  BY ShiftIs
<1> HIDE DEF next, latched, rises
<1>4. /\ rises /\ m \in {"shift", "set"} => register' = next
      /\ ~(rises /\ m \in {"shift", "set"}) => register' = lr
  BY <1>1 DEF next
<1>5. RtcTypeOK'
  <2>1. shiftedIn' \in Seq({0, 1})
    BY <1>1, <1>2
  <2>2. register' \in Time /\ clock' \in Time
    BY <1>1, <1>2, <1>3, <1>4
  <2> QED
    BY <1>1, <2>1, <2>2 DEF RtcTypeOK
<1>6. RegisterHasTheLast'
  <2> SUFFICES ASSUME m = "set", NEW i \in 1..Bits, i + Len(shiftedIn') > Bits
               PROVE  register'[i] = shiftedIn'[i + Len(shiftedIn') - Bits]
    BY <1>1 DEF RegisterHasTheLast
  <2> DEFINE old == IF mode = "set" THEN shiftedIn ELSE <<>>
  <2>1. old \in Seq({0, 1}) /\ Len(old) \in Nat
    BY <1>2
  <2>2. \A j \in 1..Bits : j + Len(old) > Bits => lr[j] = old[j + Len(old) - Bits]
    <3>1. CASE mode = "set"
      BY <1>1, <3>1 DEF RtcInv, RegisterHasTheLast
    <3>2. CASE mode # "set"
      BY <1>2, <3>2
    <3> QED
      BY <3>1, <3>2
  <2>3. shiftedIn' = IF rises THEN Append(old, d) ELSE old
    BY <1>1
  <2> HIDE DEF old
  <2>4. CASE rises
    <3>1. Len(shiftedIn') = Len(old) + 1 /\ shiftedIn'[Len(old) + 1] = d
          /\ \A j \in 1..Len(old) : shiftedIn'[j] = old[j]
      BY <2>1, <2>3, <2>4
    <3>2. register'[i] = IF i = Bits THEN d ELSE lr[i + 1]
      BY <1>3, <1>4, <2>4
    <3>3. CASE i = Bits
      BY <1>2, <2>1, <3>1, <3>2, <3>3
    <3>4. CASE i # Bits
      <4>1. i + 1 \in 1..Bits /\ (i + 1) + Len(old) > Bits
        BY <1>2, <2>1, <3>1, <3>4
      <4>2. lr[i + 1] = old[(i + 1) + Len(old) - Bits]
        BY <2>2, <4>1
      <4>3. (i + 1) + Len(old) - Bits \in 1..Len(old)
            /\ (i + 1) + Len(old) - Bits = i + Len(shiftedIn') - Bits
        BY <1>2, <2>1, <3>1, <3>4, <4>1
      <4> QED
        BY <3>1, <3>2, <3>4, <4>2, <4>3
    <3> QED
      BY <3>3, <3>4
  <2>5. CASE ~rises
    BY <1>4, <2>2, <2>3, <2>5
  <2> QED
    BY <2>4, <2>5
<1>7. RestIsInRegister'
  <2>1. CASE latched /\ m = "read"
    <3>1. shown' = [time |-> clock, bits |-> <<>>] /\ register' = clock
      BY <1>1, <1>4, <2>1
    <3>2. shown'.time = clock /\ shown'.bits = <<>>
      BY <3>1
    <3> QED
      BY <1>2, <3>1, <3>2 DEF RestIsInRegister
  <2>2. CASE ~(latched /\ m = "read") /\ m = "set"
    BY <1>1, <2>2 DEF RestIsInRegister
  <2>3. CASE /\ ~(latched /\ m = "read") /\ m # "set"
             /\ shown # NotShown /\ m = "shift" /\ rises /\ Len(shown.bits) < Bits
    <3> DEFINE t == shown.time
               b == shown.bits
               b2 == Append(b, lr[1])
    <3>1. /\ t \in Time /\ b \in Seq({0, 1}) /\ shown = [time |-> t, bits |-> b]
          /\ Len(b) \in Nat /\ Len(b) < Bits
          /\ \A i \in 1..Len(b) : b[i] = t[i]
          /\ \A i \in 1..(Bits - Len(b)) : register[i] = t[i + Len(b)]
      BY <2>3 DEF RtcInv, RestIsInRegister
    <3>2. lr = register /\ register' = next
      BY <1>1, <1>4, <2>3
    <3>3. shown' = [shown EXCEPT !.bits = b2]
      BY <1>1, <2>3
    <3> HIDE DEF t, b
    <3>4. shown' = [time |-> t, bits |-> b2]
      BY <3>1, <3>3
    <3>5. /\ b2 \in Seq({0, 1}) /\ Len(b2) = Len(b) + 1 /\ b2[Len(b) + 1] = lr[1]
          /\ \A i \in 1..Len(b) : b2[i] = b[i]
      BY <1>2, <3>1
    <3> HIDE DEF b2
    <3>6. \A i \in 1..Len(b2) : b2[i] = t[i]
      <4>1. lr[1] = t[1 + Len(b)]
        BY <1>2, <3>1, <3>2
      <4> QED
        BY <3>1, <3>5, <4>1
    <3>7. \A i \in 1..(Bits - Len(b2)) : register'[i] = t[i + Len(b2)]
      <4> SUFFICES ASSUME NEW i \in 1..(Bits - Len(b2)) PROVE register'[i] = t[i + Len(b2)]
        OBVIOUS
      <4>1. i \in 1..Bits /\ i # Bits /\ i + 1 \in 1..(Bits - Len(b)) /\ (i + 1) + Len(b) = i + Len(b2)
        BY <1>2, <3>1, <3>5
      <4>2. register'[i] = register[i + 1]
        BY <1>3, <3>2, <4>1
      <4> QED
        BY <3>1, <4>1, <4>2
    <3>8. shown'.time = t /\ shown'.bits = b2 /\ Len(b2) <= Bits
      BY <1>2, <3>1, <3>4, <3>5
    <3> QED
      BY <3>1, <3>4, <3>5, <3>6, <3>7, <3>8 DEF RestIsInRegister
  <2>4. CASE /\ ~(latched /\ m = "read") /\ m # "set"
             /\ ~(shown # NotShown /\ m = "shift" /\ rises /\ Len(shown.bits) < Bits)
    <3> SUFFICES ASSUME shown' # NotShown PROVE RestIsInRegister'
      BY DEF RestIsInRegister
    <3>1. shown' = shown /\ lr = register
      BY <1>1, <2>4
    <3>2. CASE rises /\ m = "shift"
      <4>1. Len(shown.bits) = Bits
        BY <1>2, <2>4, <3>1, <3>2 DEF RtcInv, RestIsInRegister
      <4> QED
        BY <1>2, <3>1, <4>1 DEF RtcInv, RestIsInRegister
    <3>3. CASE ~(rises /\ m = "shift")
      <4>1. register' = register
        BY <1>4, <2>4, <3>1, <3>3
      <4> QED
        BY <3>1, <4>1 DEF RtcInv, RestIsInRegister
    <3> QED
      BY <3>2, <3>3
  <2> QED
    BY <2>1, <2>2, <2>3, <2>4
<1> QED
  BY <1>5, <1>6, <1>7 DEF RtcInv

LEMMA RtcInvStep == RtcInv /\ [TxNext \/ RtcNext]_ioVars => RtcInv'
<1> SUFFICES ASSUME RtcInv, [TxNext \/ RtcNext]_ioVars PROVE RtcInv'
  OBVIOUS
<1>1. CASE UNCHANGED rtcVars
  BY <1>1 DEF rtcVars, RtcInv, RtcTypeOK, RegisterHasTheLast, RestIsInRegister
<1>2. TxNext \/ UNCHANGED ioVars => UNCHANGED rtcVars
  BY DEF TxNext, WriteF, WriteIf, Send, AdvanceCycles, ioVars
<1>3. CASE Tick
  <2>1. clock' \in Time /\ UNCHANGED <<mode, register, prevStb, prevClk, shiftedIn, shown>>
    BY <1>3 DEF Tick
  <2> QED
    BY <2>1 DEF RtcInv, RtcTypeOK, RegisterHasTheLast, RestIsInRegister
<1>4. ASSUME NEW d \in {0, 1}, NEW stb \in BOOLEAN, NEW clk \in BOOLEAN,
             NEW m \in IF stb /\ ~prevStb THEN Modes ELSE {mode}, WriteOpc(d, stb, clk, m)
      PROVE  RtcInv'
  BY <1>4, RtcInvWrite
<1> QED
  BY <1>1, <1>2, <1>3, <1>4 DEF RtcNext

\* The clock chip's time goes out and in whole, for every width of its shift
\* register: DATA OUT shows the bits of the time that TIME READ took, whatever
\* the clock has done since, and a time shifted in is the chip's, all of it,
\* when TIME SET ends (Upd1990ac's latch and shift).
THEOREM TimeIsWhole == IoSpec => TimeGoesWhole
<1> DEFINE A == /\ \A i \in DOMAIN shown'.bits : shown'.bits[i] = shown'.time[i]
                /\ (mode = "set" /\ mode' \notin {"set", "read"} /\ Len(shiftedIn) >= Bits)
                     => clock' = SubSeq(shiftedIn, Len(shiftedIn) - Bits + 1, Len(shiftedIn))
<1>1. ASSUME RtcInv, RtcInv', [TxNext \/ RtcNext]_ioVars PROVE A
  <2>1. \A i \in DOMAIN shown'.bits : shown'.bits[i] = shown'.time[i]
    <3>1. CASE shown' = NotShown
      BY <3>1 DEF NotShown
    <3>2. CASE shown' # NotShown
      BY <1>1, <3>2 DEF RtcInv, RestIsInRegister
    <3> QED
      BY <3>1, <3>2
  <2>2. ASSUME mode = "set", mode' \notin {"set", "read"}, Len(shiftedIn) >= Bits
        PROVE  clock' = SubSeq(shiftedIn, Len(shiftedIn) - Bits + 1, Len(shiftedIn))
    <3>1. clock' = register
      <4>1. TxNext \/ Tick \/ UNCHANGED ioVars => mode' = mode
        BY DEF TxNext, WriteF, WriteIf, Send, AdvanceCycles, Tick, rtcVars, ioVars
      <4>2. PICK d \in {0, 1}, stb \in BOOLEAN, clk \in BOOLEAN :
               \E m \in IF stb /\ ~prevStb THEN Modes ELSE {mode} : WriteOpc(d, stb, clk, m)
        BY <1>1, <2>2, <4>1 DEF RtcNext
      <4>3. PICK m \in IF stb /\ ~prevStb THEN Modes ELSE {mode} : WriteOpc(d, stb, clk, m)
        BY <4>2
      <4>4. mode' = m /\ (~(stb /\ ~prevStb) => m = mode)
            /\ clock' = IF (stb /\ ~prevStb) /\ mode = "set" /\ m \notin {"set", "read"}
                        THEN register ELSE clock
        BY <1>1, <4>3, WriteOpcIs DEF RtcInv
      <4> QED
        BY <2>2, <4>4
    <3> DEFINE n == Len(shiftedIn)
               s == SubSeq(shiftedIn, n - Bits + 1, n)
    <3>2. Bits \in Nat \ {0} /\ shiftedIn \in Seq({0, 1}) /\ n \in Nat /\ n >= Bits /\ register \in Time
      BY <1>1, <2>2, IoAssumption DEF RtcInv, RtcTypeOK
    <3>3. s \in Seq({0, 1}) /\ Len(s) = Bits /\ \A i \in 1..Bits : s[i] = shiftedIn[i + n - Bits]
      BY <3>2
    <3>4. \A i \in 1..Bits : register[i] = shiftedIn[i + n - Bits]
      BY <1>1, <2>2, <3>2 DEF RtcInv, RegisterHasTheLast
    <3> HIDE DEF s
    <3>5. s \in Time
      BY <3>2, <3>3 DEF Time
    <3>6. s = register
      BY <3>2, <3>3, <3>4, <3>5 DEF Time
    <3> QED
      BY <3>1, <3>6 DEF s
  <2> QED
    BY <2>1, <2>2
<1>2. RtcInv /\ RtcInv' /\ [TxNext \/ RtcNext]_ioVars => [A]_ioVars
  BY <1>1
<1> HIDE DEF A
<1>3. IoSpec => [][A]_ioVars
  BY <1>2, RtcInvInit, RtcInvStep, PTL DEF IoSpec
<1> QED
  BY <1>3 DEF TimeGoesWhole, A

-----------------------------------------------------------------------------
(* The RAM a program sees.                                                 *)

\* The cell behind a place: a byte of me0 or of one of CE-163's banks.
Index(v, a) == IF v = "unitA" THEN a ELSE Effective(Stock, a)
IsPlace(v, a) ==
  /\ v \in Views /\ a \in Addresses
  /\ v = "unitA" => a >= 31 * K
  /\ v \in {"bank0", "bank1"} => InLow(a)
InMe0(v) == v \in {"me0", "unitA"}
BankOf(v) == IF v = "bank0" THEN 0 ELSE 1
CellOf(m, r, v, a) == IF InMe0(v) THEN m[Index(v, a)] ELSE r[BankOf(v)][a]

Kept(m, r, l) ==
  \A v \in Views, a \in Addresses :
    IsPlace(v, a) /\ l[v][a] # Never => l[v][a] = CellOf(m, r, v, a)

\* Every place the reserve-key area can be at holds a valid one.
AreasValid(c, m) ==
  /\ m[16 * K + 8] # Fill
  /\ c.low >= 16 * K => m[8] # Fill
  /\ c.ce155 => m[14 * K + 8] # Fill

Memories == [Addresses -> Nat]
Banks == [{0, 1} -> Memories]
Notes == [Views -> [Addresses -> Nat \ {Fill}]]

MemTypeOK ==
  /\ cfg \in Cfgs /\ OneModule(cfg)
  /\ me0 \in Memories /\ ce163Ram \in Banks /\ ce163Bank \in {0, 1}
  /\ last \in Notes /\ writes \in Nat
  /\ saved \in [cfg : Cfgs, me0 : Memories, ram : Banks, bank : {0, 1}, last : Notes]

MemInv ==
  /\ MemTypeOK
  /\ Kept(me0, ce163Ram, last) /\ Kept(saved.me0, saved.ram, saved.last)
  /\ AreasValid(cfg, me0) /\ AreasValid(saved.cfg, saved.me0)

LEMMA AddressFacts ==
  /\ \A a \in Addresses : a \in Nat /\ a <= 32767
  /\ \A a \in Addresses : Effective(Stock, a) \in Addresses
  /\ 8 \in Addresses /\ 14344 \in Addresses /\ 16392 \in Addresses
<1>1. 14 * K + 8 = 14344 /\ 16 * K + 8 = 16392
  BY DEF K
<1>3. ASSUME NEW a \in Addresses PROVE a \in Nat /\ a <= 32767
  <2>1. a \in 0..(32 * K - 1)
    BY MemoryAssumption
  <2> QED
    BY <2>1 DEF K
<1> HIDE DEF K
<1>4. 8 \in Addresses /\ 14 * K + 8 \in Addresses /\ 16 * K + 8 \in Addresses
  BY MemoryAssumption, Zenon
<1>5. \A a \in Addresses : Effective(Stock, a) \in Addresses
  BY MemoryAssumption, Zenon
<1> QED
  BY <1>1, <1>3, <1>4, <1>5

\* 7000H-77FFH lacks two address lines, 7C00H-7FFFH is a copy on a PC-1500.
Lacking(a) == a \in Nat /\ 28672 <= a /\ a <= 30719
Doubled(a) == a \in Nat /\ 31744 <= a /\ a <= 32767
StockCell(a) ==
  IF Lacking(a) THEN 30208 + (a % 512) ELSE IF Doubled(a) THEN a - 1024 ELSE a

\* Where an ordinary address leads.
LEMMA EffectiveIs ==
  ASSUME NEW a \in Nat, a <= 32767, NEW c
  PROVE  /\ Effective(Stock, a) = StockCell(a)
         /\ c.unitA => Effective(c, a) = IF Doubled(a) THEN a ELSE StockCell(a)
         /\ ~c.unitA => Effective(c, a) = StockCell(a)
<1>1. /\ a \in 28 * K .. 30 * K - 1 <=> Lacking(a)
      /\ a \in 31 * K .. 32 * K - 1 <=> Doubled(a)
      /\ 28 * K + 1536 = 30208 /\ K = 1024
      /\ Doubled(a) => ~Lacking(a)
  BY DEF K, Lacking, Doubled
<1>2. ~Stock.unitA
  BY DEF Stock
<1> HIDE DEF K
<1>3. CASE Lacking(a)
  <2>1. \A d : Effective(d, a) = 28 * K + 1536 + (a % 512)
    BY <1>1, <1>3 DEF Effective
  <2>2. \A d : Effective(d, a) = 30208 + (a % 512)
    BY <1>1, <2>1
  <2>3. StockCell(a) = 30208 + (a % 512) /\ ~Doubled(a)
    BY <1>1, <1>3 DEF StockCell
  <2> QED
    BY <2>2, <2>3
<1>4. CASE Doubled(a)
  <2>1. \A d : ~d.unitA => Effective(d, a) = a - K
    BY <1>1, <1>4 DEF Effective
  <2>2. \A d : d.unitA => Effective(d, a) = a
    BY <1>1, <1>4 DEF Effective
  <2>3. StockCell(a) = a - 1024
    BY <1>1, <1>4 DEF StockCell
  <2>4. \A d : ~d.unitA => Effective(d, a) = StockCell(a)
    BY <1>1, <2>1, <2>3
  <2> QED
    BY <1>2, <1>4, <2>2, <2>4
<1>5. CASE ~Lacking(a) /\ ~Doubled(a)
  <2>1. \A d : Effective(d, a) = a
    BY <1>1, <1>5 DEF Effective
  <2>2. StockCell(a) = a
    BY <1>5 DEF StockCell
  <2> QED
    BY <1>5, <2>1, <2>2
<1> QED
  BY <1>3, <1>4, <1>5

LEMMA SameStockCell ==
  ASSUME NEW a \in Nat, a <= 32767, NEW b \in Nat, b <= 32767
  PROVE  StockCell(a) = StockCell(b) <=>
           \/ a = b
           \/ Lacking(a) /\ Lacking(b) /\ a % 512 = b % 512
           \/ /\ 30720 <= a /\ 30720 <= b /\ a % 1024 = b % 1024
              /\ (a - b = 1024 \/ b - a = 1024)
<1>2. (a - b = 1024 \/ b - a = 1024) => a % 1024 = b % 1024
  OBVIOUS
<1> DEFINE x == a % 512
           y == b % 512
           same == a % 1024 = b % 1024
<1>3. /\ x \in Nat /\ x <= 511 /\ y \in Nat /\ y <= 511
      /\ (a - b = 1024 \/ b - a = 1024) => same
      /\ a = b => x = y
  BY <1>2
<1>4. /\ StockCell(a) = IF Lacking(a) THEN 30208 + x ELSE IF Doubled(a) THEN a - 1024 ELSE a
      /\ StockCell(b) = IF Lacking(b) THEN 30208 + y ELSE IF Doubled(b) THEN b - 1024 ELSE b
  BY DEF StockCell
<1> HIDE DEF x, y, same
<1>5. StockCell(a) = StockCell(b) <=>
           \/ a = b
           \/ Lacking(a) /\ Lacking(b) /\ x = y
           \/ /\ 30720 <= a /\ 30720 <= b /\ same
              /\ (a - b = 1024 \/ b - a = 1024)
  BY <1>3, <1>4 DEF Lacking, Doubled
<1> QED
  BY <1>5 DEF x, y, same

\* The two blocks of the standard unit's memory.
LEMMA BlocksAre ==
  ASSUME NEW a \in Nat, a <= 32767, NEW b \in Nat, b <= 32767
  PROVE  /\ {a, b} \subseteq 28 * K .. 30 * K - 1 <=> Lacking(a) /\ Lacking(b)
         /\ {a, b} \subseteq 30 * K .. 32 * K - 1 <=> 30720 <= a /\ 30720 <= b
<1> DEFINE p == 28 * K
           q == 30 * K - 1
           r == 30 * K
           s == 32 * K - 1
<1>1. p = 28672 /\ q = 30719 /\ r = 30720 /\ s = 32767
  BY DEF K
<1> HIDE DEF p, q, r, s
<1>2. ASSUME NEW x \in Nat, x <= 32767
      PROVE  (x \in p .. q <=> Lacking(x)) /\ (x \in r .. s <=> 30720 <= x)
  <2>1. (x \in p .. q <=> p <= x /\ x <= q) /\ (x \in r .. s <=> r <= x /\ x <= s)
    <3>1. p \in Int /\ q \in Int /\ r \in Int /\ s \in Int
      BY <1>1
    <3> QED
      BY ONLY <3>1, x \in Nat
  <2>2. (p <= x /\ x <= q <=> Lacking(x)) /\ (r <= x /\ x <= s <=> 30720 <= x)
    BY ONLY <1>1, <1>2 DEF Lacking
  <2> QED
    BY ONLY <2>1, <2>2
<1>3. \A S : {a, b} \subseteq S <=> a \in S /\ b \in S
  OBVIOUS
<1>4. /\ {a, b} \subseteq p .. q <=> Lacking(a) /\ Lacking(b)
      /\ {a, b} \subseteq r .. s <=> 30720 <= a /\ 30720 <= b
  BY <1>2, <1>3
<1> QED
  BY <1>4 DEF p, q, r, s

\* Two places of the same cell are the same place, by the hardware reference.
LEMMA SamePlaceIsSameCell ==
  ASSUME NEW v, NEW a, NEW w, NEW b, IsPlace(v, a), IsPlace(w, b)
  PROVE  /\ InMe0(v) => (SamePlace(v, a, w, b) <=> (InMe0(w) /\ Index(v, a) = Index(w, b)))
         /\ ~InMe0(v) => (SamePlace(v, a, w, b) <=> (v = w /\ a = b))
<1>1. a \in Nat /\ a <= 32767 /\ b \in Nat /\ b <= 32767
  BY AddressFacts DEF IsPlace
<1>2. Effective(Stock, a) = StockCell(a) /\ Effective(Stock, b) = StockCell(b)
  BY <1>1, EffectiveIs
<1> DEFINE wrap == Lacking(a) /\ Lacking(b) /\ a % 512 = b % 512
           copy == /\ 30720 <= a /\ 30720 <= b /\ a % 1024 = b % 1024
                   /\ (a - b = 1024 \/ b - a = 1024)
<1>3. SamePlace(v, a, w, b) <=> v = w /\ (a = b \/ wrap \/ (v = "me0" /\ copy))
  <2>1. {a, b} \subseteq 28 * K .. 30 * K - 1 <=> Lacking(a) /\ Lacking(b)
    BY <1>1, BlocksAre
  <2>2. {a, b} \subseteq 30 * K .. 32 * K - 1 <=> 30720 <= a /\ 30720 <= b
    BY <1>1, BlocksAre
  <2>3. K = 1024
    BY DEF K
  <2> QED
    BY <2>1, <2>2, <2>3 DEF SamePlace
<1>4. /\ v \in Views /\ w \in Views
      /\ v = "unitA" => a >= 31744
      /\ w = "unitA" => b >= 31744
      /\ v \in {"bank0", "bank1"} => a < 16384
  BY DEF IsPlace, InLow, K
<1>5. wrap => a <= 30719 /\ a >= 28672
  BY DEF Lacking
<1>6. StockCell(a) = StockCell(b) <=> a = b \/ wrap \/ copy
  BY <1>1, SameStockCell
<1>7. StockCell(a) < 31744 /\ StockCell(b) < 31744
  <2>1. a % 512 \in Nat /\ a % 512 <= 511 /\ b % 512 \in Nat /\ b % 512 <= 511
    BY <1>1
  <2> QED
    BY <1>1, <2>1 DEF StockCell, Lacking, Doubled
<1> HIDE DEF wrap, copy
<1>8. CASE ~InMe0(v)
  BY <1>1, <1>3, <1>4, <1>5, <1>8 DEF InMe0, Views
<1>9. CASE v = "unitA"
  <2>1. Index(v, a) = a /\ Index(w, b) = IF w = "unitA" THEN b ELSE StockCell(b)
    BY <1>2, <1>9 DEF Index
  <2> QED
    BY <1>1, <1>3, <1>4, <1>5, <1>7, <1>9, <2>1 DEF InMe0
<1>10. CASE v = "me0" /\ w = "me0"
  BY <1>2, <1>3, <1>6, <1>10 DEF InMe0, Index
<1>11. CASE v = "me0" /\ w # "me0"
  <2>1. Index(v, a) = StockCell(a) /\ (w = "unitA" => Index(w, b) = b)
    BY <1>2, <1>11 DEF Index
  <2> QED
    BY <1>1, <1>3, <1>4, <1>7, <1>11, <2>1 DEF InMe0
<1> QED
  BY <1>8, <1>9, <1>10, <1>11 DEF InMe0

\* What answers at an address is a place's cell.
LEMMA ViewIsPlace ==
  ASSUME MemTypeOK, NEW a \in Addresses
  PROVE  /\ IsPlace(ViewOf(a), a)
         /\ InMe0(ViewOf(a)) <=> ~(cfg.ce163 /\ InLow(a))
         /\ InMe0(ViewOf(a)) => Index(ViewOf(a), a) = Effective(cfg, a) /\ Effective(cfg, a) \in Addresses
         /\ ~InMe0(ViewOf(a)) => BankOf(ViewOf(a)) = ce163Bank
<1>1. a \in Nat /\ a <= 32767 /\ 31 * K = 31744
  BY AddressFacts DEF K
<1>2. /\ Effective(Stock, a) = StockCell(a)
      /\ cfg.unitA => Effective(cfg, a) = IF Doubled(a) THEN a ELSE StockCell(a)
      /\ ~cfg.unitA => Effective(cfg, a) = StockCell(a)
      /\ Effective(Stock, a) \in Addresses
      /\ Doubled(a) <=> a >= 31 * K
  BY <1>1, EffectiveIs, AddressFacts DEF Doubled
<1>3. cfg.unitA \in BOOLEAN /\ ce163Bank \in {0, 1}
  BY DEF MemTypeOK, Cfgs
<1> HIDE DEF K
<1>4. CASE cfg.ce163 /\ InLow(a)
  BY <1>3, <1>4 DEF ViewOf, IsPlace, InMe0, BankOf, Views
<1>5. CASE ~(cfg.ce163 /\ InLow(a))
  BY <1>2, <1>3, <1>5 DEF ViewOf, IsPlace, InMe0, Index, Views
<1> QED
  BY <1>4, <1>5

LEMMA ReadIsCell ==
  ASSUME MemTypeOK, NEW a \in Addresses, ~Unmapped(cfg, a)
  PROVE  ReadME0(a) = CellOf(me0, ce163Ram, ViewOf(a), a)
BY ViewIsPlace DEF ReadME0, CellOf

\* Seeding the reserve-key area changes no cell that was written.
LEMMA SeededKeeps ==
  ASSUME NEW c \in Cfgs, NEW m \in Memories, NEW r, NEW l \in Notes, Kept(m, r, l)
  PROVE  /\ Seeded(c, m) \in Memories
         /\ Kept(Seeded(c, m), r, l)
         /\ Seeded(c, m)[ReserveBase(c) + 8] # Fill
         /\ \A a \in Addresses : m[a] # Fill => Seeded(c, m)[a] # Fill
<1> DEFINE p == ReserveBase(c) + 8
           s == Seeded(c, m)
<1>1. p \in Addresses
  BY AddressFacts DEF ReserveBase, K
<1>2. s = IF m[p] = Fill THEN [m EXCEPT ![p] = 0] ELSE m
  BY DEF Seeded
<1> HIDE DEF p, s
<1>3. s \in Memories /\ s[p] # Fill /\ \A a \in Addresses : m[a] # Fill => s[a] = m[a]
  BY <1>1, <1>2 DEF Memories, Fill
<1>4. Kept(s, r, l)
  <2> SUFFICES ASSUME NEW v \in Views, NEW a \in Addresses, IsPlace(v, a), l[v][a] # Never
               PROVE  l[v][a] = CellOf(s, r, v, a)
    BY DEF Kept
  <2>1. l[v][a] = CellOf(m, r, v, a) /\ l[v][a] # Fill
    BY DEF Kept, Notes
  <2>2. Index(v, a) \in Addresses
    BY AddressFacts DEF Index
  <2> QED
    BY <1>3, <2>1, <2>2 DEF CellOf
<1>5. \A a \in Addresses : m[a] # Fill => s[a] # Fill
  BY <1>3
<1> QED
  BY <1>3, <1>4, <1>5 DEF p, s

\* One configuration is another's successor: the areas it needs are valid.
LEMMA SeededIsValid ==
  ASSUME NEW c \in Cfgs, OneModule(c), NEW m \in Memories, NEW r, NEW l \in Notes, Kept(m, r, l),
         m[16 * K + 8] # Fill
  PROVE  AreasValid(c, Seeded(c, m))
<1>1. /\ Seeded(c, m)[16 * K + 8] # Fill /\ Seeded(c, m)[ReserveBase(c) + 8] # Fill
  BY AddressFacts, SeededKeeps DEF K
<1>2. c.low >= 16 * K => ReserveBase(c) = 0
  BY DEF ReserveBase
<1>3. c.ce155 => ReserveBase(c) = 14 * K
  BY DEF ReserveBase, OneModule, Cfgs, K
<1> QED
  BY <1>1, <1>2, <1>3 DEF AreasValid, K

LEMMA MemInvInit == MemInit => MemInv
<1> SUFFICES ASSUME MemInit PROVE MemInv
  OBVIOUS
<1> DEFINE m == [a \in Addresses |-> Fill]
           r == [b \in {0, 1} |-> [a \in Addresses |-> Fill]]
           l == [v \in Views |-> [a \in Addresses |-> Never]]
<1>1. /\ cfg = Stock /\ me0 = Seeded(Stock, m) /\ ce163Ram = r /\ ce163Bank = 0 /\ last = l
      /\ saved = [cfg |-> cfg, me0 |-> me0, ram |-> ce163Ram, bank |-> 0, last |-> last]
      /\ writes = 0
  BY DEF MemInit
<1>2. m \in Memories /\ r \in Banks /\ l \in Notes /\ Kept(m, r, l)
  BY DEF Memories, Banks, Notes, Fill, Never, Kept
<1>3. /\ saved.cfg = cfg /\ saved.me0 = me0 /\ saved.ram = ce163Ram /\ saved.bank = 0
      /\ saved.last = last
  BY <1>1
<1> HIDE DEF m, r, l
<1>4. me0 \in Memories /\ Kept(me0, ce163Ram, last)
  BY <1>1, <1>2, StockIsACfg, SeededKeeps
<1>5. me0[16 * K + 8] # Fill
  <2>1. ReserveBase(Stock) = 16 * K
    BY DEF ReserveBase, Stock, K
  <2> QED
    BY <1>1, <1>2, <2>1, StockIsACfg, SeededKeeps
<1>6. AreasValid(cfg, me0)
  BY <1>1, <1>5 DEF AreasValid, Stock, K
<1>7. MemTypeOK
  BY <1>1, <1>2, <1>4, StockIsACfg DEF MemTypeOK
<1> QED
  BY <1>3, <1>4, <1>6, <1>7 DEF MemInv

\* A write of x to the cell of a place, noted at every place of that cell.
AfterWrite(v, a, x, m, r, l, m2, r2, l2) ==
  /\ m2 = IF InMe0(v) THEN [m EXCEPT ![Index(v, a)] = x] ELSE m
  /\ r2 = IF InMe0(v) THEN r ELSE [r EXCEPT ![BankOf(v)][a] = x]
  /\ l2 = [w \in Views |-> [b \in Addresses |-> IF SamePlace(v, a, w, b) THEN x ELSE l[w][b]]]

LEMMA WriteKeeps ==
  ASSUME NEW m \in Memories, NEW r \in Banks, NEW l \in Notes, Kept(m, r, l),
         NEW v, NEW a, IsPlace(v, a), NEW x \in Nat \ {Fill},
         NEW m2, NEW r2, NEW l2, AfterWrite(v, a, x, m, r, l, m2, r2, l2)
  PROVE  /\ m2 \in Memories /\ r2 \in Banks /\ l2 \in Notes /\ Kept(m2, r2, l2)
         /\ \A b \in Addresses : m[b] # Fill => m2[b] # Fill
<1>1. v \in Views /\ a \in Addresses /\ Index(v, a) \in Addresses /\ BankOf(v) \in {0, 1}
  BY AddressFacts DEF IsPlace, Index, BankOf
<1>2. l2 \in Notes
  BY DEF Notes, AfterWrite
<1>3. CASE InMe0(v)
  <2>1. m2 = [m EXCEPT ![Index(v, a)] = x] /\ r2 = r
    BY <1>3 DEF AfterWrite
  <2>2. m2 \in Memories /\ \A i \in Addresses : m2[i] = IF i = Index(v, a) THEN x ELSE m[i]
    BY <1>1, <2>1 DEF Memories
  <2>3. Kept(m2, r2, l2)
    <3> SUFFICES ASSUME NEW w \in Views, NEW b \in Addresses, IsPlace(w, b), l2[w][b] # Never
                 PROVE  l2[w][b] = CellOf(m2, r2, w, b)
      BY DEF Kept
    <3>1. SamePlace(v, a, w, b) <=> (InMe0(w) /\ Index(v, a) = Index(w, b))
      BY <1>3, SamePlaceIsSameCell
    <3>2. l2[w][b] = IF SamePlace(v, a, w, b) THEN x ELSE l[w][b]
      BY DEF AfterWrite
    <3>3. Index(w, b) \in Addresses
      BY AddressFacts DEF Index
    <3>4. CASE SamePlace(v, a, w, b)
      BY <2>2, <3>1, <3>2, <3>3, <3>4 DEF CellOf
    <3>5. CASE ~SamePlace(v, a, w, b)
      <4>1. l[w][b] = CellOf(m, r, w, b)
        BY <3>2, <3>5 DEF Kept
      <4>2. InMe0(w) => m2[Index(w, b)] = m[Index(w, b)]
        BY <2>2, <3>1, <3>3, <3>5
      <4> QED
        BY <2>1, <3>2, <3>5, <4>1, <4>2 DEF CellOf
    <3> QED
      BY <3>4, <3>5
  <2>4. \A b \in Addresses : m[b] # Fill => m2[b] # Fill
    BY <2>2
  <2> QED
    BY <1>2, <2>1, <2>2, <2>3, <2>4
<1>4. CASE ~InMe0(v)
  <2>1. m2 = m /\ r2 = [r EXCEPT ![BankOf(v)][a] = x]
    BY <1>4 DEF AfterWrite
  <2>2. r2 \in Banks /\ \A k \in {0, 1}, i \in Addresses :
           r2[k][i] = IF k = BankOf(v) /\ i = a THEN x ELSE r[k][i]
    BY <1>1, <2>1 DEF Banks, Memories
  <2>3. Kept(m2, r2, l2)
    <3> SUFFICES ASSUME NEW w \in Views, NEW b \in Addresses, IsPlace(w, b), l2[w][b] # Never
                 PROVE  l2[w][b] = CellOf(m2, r2, w, b)
      BY DEF Kept
    <3>1. SamePlace(v, a, w, b) <=> (v = w /\ a = b)
      BY <1>4, SamePlaceIsSameCell
    <3>2. l2[w][b] = IF SamePlace(v, a, w, b) THEN x ELSE l[w][b]
      BY DEF AfterWrite
    <3>3. BankOf(w) \in {0, 1} /\ (~InMe0(w) /\ BankOf(v) = BankOf(w) => v = w)
      BY <1>1, <1>4 DEF BankOf, InMe0, Views
    <3>4. CASE SamePlace(v, a, w, b)
      BY <1>1, <1>4, <2>2, <3>1, <3>2, <3>4 DEF CellOf
    <3>5. CASE ~SamePlace(v, a, w, b)
      <4>1. l[w][b] = CellOf(m, r, w, b)
        BY <3>2, <3>5 DEF Kept
      <4>2. ~InMe0(w) => r2[BankOf(w)][b] = r[BankOf(w)][b]
        BY <2>2, <3>1, <3>3, <3>5
      <4> QED
        BY <2>1, <3>2, <3>5, <4>1, <4>2 DEF CellOf
    <3> QED
      BY <3>4, <3>5
  <2> QED
    BY <1>2, <2>1, <2>2, <2>3
<1> QED
  BY <1>3, <1>4

LEMMA MemInvWrite ==
  ASSUME MemInv, NEW a \in Addresses, WriteME0(a)
  PROVE  MemInv'
<1>1. CASE Trigger(cfg, a) /\ ce163Bank' = a % 2
           /\ UNCHANGED <<cfg, me0, ce163Ram, saved, last, writes, changes>>
  <2>1. a % 2 \in {0, 1}
    BY AddressFacts
  <2> QED
    BY <1>1, <2>1 DEF MemInv, MemTypeOK
<1> DEFINE x == 256 + writes
           v == ViewOf(a)
<1>2. CASE /\ writes' = writes + 1 /\ UNCHANGED <<cfg, ce163Bank, saved, changes>>
           /\ \/ /\ cfg.ce163 /\ InLow(a)
                 /\ ce163Ram' = [ce163Ram EXCEPT ![ce163Bank][a] = x]
                 /\ Noted(a, x) /\ UNCHANGED me0
              \/ /\ ~(cfg.ce163 /\ InLow(a)) /\ ~Unmapped(cfg, a)
                 /\ me0' = [me0 EXCEPT ![Effective(cfg, a)] = x]
                 /\ Noted(a, x) /\ UNCHANGED ce163Ram
  <2>1. /\ me0 \in Memories /\ ce163Ram \in Banks /\ last \in Notes /\ Kept(me0, ce163Ram, last)
        /\ x \in Nat \ {Fill} /\ IsPlace(v, a)
    BY ViewIsPlace DEF MemInv, MemTypeOK, Fill
  <2>2. /\ me0' = IF InMe0(v) THEN [me0 EXCEPT ![Index(v, a)] = x] ELSE me0
        /\ ce163Ram' = IF InMe0(v) THEN ce163Ram ELSE [ce163Ram EXCEPT ![BankOf(v)][a] = x]
        /\ last' = [w \in Views |-> [b \in Addresses |-> IF SamePlace(v, a, w, b) THEN x ELSE last[w][b]]]
    BY <1>2, ViewIsPlace DEF MemInv, Noted
  <2> HIDE DEF v, x
  <2>3. /\ me0' \in Memories /\ ce163Ram' \in Banks /\ last' \in Notes /\ Kept(me0', ce163Ram', last')
        /\ \A b \in Addresses : me0[b] # Fill => me0'[b] # Fill
    <3>1. PICK m2, r2, l2 : m2 = me0' /\ r2 = ce163Ram' /\ l2 = last'
      OBVIOUS
    <3>2. AfterWrite(v, a, x, me0, ce163Ram, last, m2, r2, l2)
      BY <2>2, <3>1 DEF AfterWrite
    <3>3. /\ m2 \in Memories /\ r2 \in Banks /\ l2 \in Notes /\ Kept(m2, r2, l2)
          /\ \A b \in Addresses : me0[b] # Fill => m2[b] # Fill
      BY <2>1, <3>2, WriteKeeps
    <3> QED
      BY <3>1, <3>3 DEF Kept, CellOf
  <2>4. MemTypeOK'
    BY <1>2, <2>3 DEF MemInv, MemTypeOK
  <2>5. AreasValid(cfg, me0)' /\ AreasValid(saved.cfg, saved.me0)'
    BY <1>2, <2>3, AddressFacts DEF MemInv, AreasValid, K
  <2> QED
    BY <1>2, <2>3, <2>4, <2>5 DEF MemInv
<1> QED
  BY <1>1, <1>2 DEF WriteME0

LEMMA MemInvStep == MemInv /\ [MemNext]_memVars => MemInv'
<1> SUFFICES ASSUME MemInv, [MemNext]_memVars PROVE MemInv'
  OBVIOUS
<1>1. CASE UNCHANGED memVars
  BY <1>1 DEF memVars, MemInv, MemTypeOK
<1>2. ASSUME NEW a \in Addresses, WriteME0(a) PROVE MemInv'
  BY <1>2, MemInvWrite
<1>3. ASSUME NEW c \in Cfgs, OneModule(c), NEW m \in Memories, Changed(c, m),
             Kept(m, ce163Ram, last), AreasValid(c, m)
      PROVE  MemInv'
  <2>1. cfg' = c /\ me0' = m /\ UNCHANGED <<ce163Ram, ce163Bank, saved, last, writes>>
    BY <1>3 DEF Changed
  <2> QED
    BY <1>3, <2>1 DEF MemInv, MemTypeOK
<1>4. /\ cfg \in Cfgs /\ OneModule(cfg) /\ me0 \in Memories /\ last \in Notes
      /\ Kept(me0, ce163Ram, last) /\ AreasValid(cfg, me0) /\ me0[16 * K + 8] # Fill
  BY DEF MemInv, MemTypeOK, AreasValid
\* The setters that seed.
<1>5. ASSUME NEW c \in Cfgs, OneModule(c), Changed(c, Seeded(c, me0))
      PROVE  MemInv'
  <2> DEFINE m == Seeded(c, me0)
  <2>1. m \in Memories /\ Kept(m, ce163Ram, last) /\ AreasValid(c, m)
    BY <1>4, <1>5, SeededKeeps, SeededIsValid
  <2> HIDE DEF m
  <2>2. Changed(c, m)
    BY <1>5 DEF m
  <2> QED
    BY <1>3, <1>5, <2>1, <2>2
<1>6. ASSUME NEW a \in BOOLEAN, SetMachineVariant(a) PROVE MemInv'
  <2> DEFINE c == SetUnit(cfg, a)
  <2>1. c \in Cfgs /\ OneModule(c) /\ AreasValid(c, me0)
    BY <1>4, SettersKeepOneModule, SetUnitFields DEF AreasValid
  <2> QED
    BY <1>3, <1>4, <1>6, <2>1 DEF SetMachineVariant
<1>7. ASSUME NEW n \in ExtSizes, SetExtRamExtSize(n) PROVE MemInv'
  <2> DEFINE c == SetExt(cfg, n)
  <2>1. c \in Cfgs /\ OneModule(c) /\ AreasValid(c, me0)
    BY <1>4, MemoryAssumption, SettersKeepOneModule, SetExtFields DEF AreasValid
  <2> QED
    BY <1>3, <1>4, <1>7, <2>1 DEF SetExtRamExtSize
<1>8. ASSUME NEW n \in LowSizes, SetExtRam0000Size(n) PROVE MemInv'
  <2>1. SetLow(cfg, n) \in Cfgs /\ OneModule(SetLow(cfg, n))
    BY <1>4, MemoryAssumption, SettersKeepOneModule
  <2> QED
    BY <1>5, <1>8, <2>1 DEF SetExtRam0000Size
<1>9. ASSUME NEW on \in BOOLEAN, SetCe163Enabled(on) \/ SetCe155Enabled(on) PROVE MemInv'
  <2>1. /\ SetCe163(cfg, on) \in Cfgs /\ OneModule(SetCe163(cfg, on))
        /\ SetCe155(cfg, on) \in Cfgs /\ OneModule(SetCe155(cfg, on))
    BY <1>4, SettersKeepOneModule
  <2> QED
    BY <1>5, <1>9, <2>1 DEF SetCe163Enabled, SetCe155Enabled
<1>10. CASE SaveMemory
  <2>1. /\ saved' = [cfg |-> cfg, me0 |-> me0, ram |-> ce163Ram, bank |-> ce163Bank, last |-> last]
        /\ UNCHANGED <<cfg, me0, ce163Ram, ce163Bank, last, writes>>
    BY <1>10 DEF SaveMemory
  <2>2. /\ saved'.cfg = cfg /\ saved'.me0 = me0 /\ saved'.ram = ce163Ram /\ saved'.last = last
        /\ saved' \in [cfg : Cfgs, me0 : Memories, ram : Banks, bank : {0, 1}, last : Notes]
    BY <2>1 DEF MemInv, MemTypeOK
  <2> QED
    BY <2>1, <2>2 DEF MemInv, MemTypeOK
<1>11. CASE LoadMemory
  <2> DEFINE m == Seeded(cfg, saved.me0)
  <2>1. /\ saved.cfg = cfg /\ me0' = m /\ ce163Ram' = saved.ram /\ ce163Bank' = saved.bank
        /\ last' = saved.last /\ UNCHANGED <<cfg, saved, writes>>
    BY <1>11 DEF LoadMemory
  <2>2. /\ saved.me0 \in Memories /\ saved.ram \in Banks /\ saved.bank \in {0, 1} /\ saved.last \in Notes
        /\ Kept(saved.me0, saved.ram, saved.last) /\ saved.me0[16 * K + 8] # Fill
    BY DEF MemInv, MemTypeOK, AreasValid
  <2>3. m \in Memories /\ Kept(m, saved.ram, saved.last) /\ AreasValid(cfg, m)
    BY <1>4, <2>2, SeededKeeps, SeededIsValid
  <2> HIDE DEF m
  <2> QED
    BY <2>1, <2>2, <2>3 DEF MemInv, MemTypeOK
<1> QED
  BY <1>1, <1>2, <1>6, <1>7, <1>8, <1>9, <1>10, <1>11 DEF MemNext

\* RAM a program sees holds what was last written there, through any of its
\* addresses: across bank switches, modules taken out and put back and sessions
\* saved and loaded, for every choice of addresses, sizes and units.
THEOREM RamRemembers == MemSpec => []MemoryRemembers
<1>1. ASSUME MemInv PROVE MemoryRemembers
  <2> SUFFICES ASSUME NEW a \in Addresses, last[ViewOf(a)][a] # Never, ~Unmapped(cfg, a)
               PROVE  ReadME0(a) = last[ViewOf(a)][a]
    BY DEF MemoryRemembers
  <2>1. IsPlace(ViewOf(a), a) /\ ReadME0(a) = CellOf(me0, ce163Ram, ViewOf(a), a)
    BY <1>1, ViewIsPlace, ReadIsCell DEF MemInv
  <2>2. last[ViewOf(a)][a] = CellOf(me0, ce163Ram, ViewOf(a), a)
    BY <1>1, <2>1 DEF MemInv, Kept, IsPlace
  <2> QED
    BY <2>1, <2>2
<1> QED
  BY <1>1, MemInvInit, MemInvStep, PTL DEF MemSpec

\* The ROM finds a valid reserve-key area wherever the configuration puts it,
\* a CE-163's own RAM apart, which no setter seeds.
THEOREM ReserveIsValid == MemSpec => []ReserveValidInRam
<1>1. ASSUME MemInv PROVE ReserveValidInRam
  <2> SUFFICES ASSUME ~cfg.ce163 PROVE ReserveValid
    BY DEF ReserveValidInRam
  <2>1. /\ cfg \in Cfgs /\ OneModule(cfg) /\ MemTypeOK /\ AreasValid(cfg, me0)
    BY <1>1 DEF MemInv, MemTypeOK
  <2>2. \A a \in Addresses : a < 28672 => Effective(cfg, a) = a
    <3> SUFFICES ASSUME NEW a \in Addresses, a < 28672 PROVE Effective(cfg, a) = a
      OBVIOUS
    <3>1. a \in Nat /\ a <= 32767
      BY AddressFacts
    <3>2. ~Lacking(a) /\ ~Doubled(a)
      BY <3>1 DEF Lacking, Doubled
    <3>3. StockCell(a) = a
      BY <3>2 DEF StockCell
    <3> QED
      BY <3>1, <3>2, <3>3, EffectiveIs
  <2>3. CASE cfg.low >= 16 * K
    <3>1. Reserve = 8 /\ ~Unmapped(cfg, 8)
      BY <2>1, <2>3 DEF Reserve, ReserveBase, Unmapped, OneModule, InLow, InExt, ExtBase, K, Cfgs
    <3> QED
      BY <2>1, <2>2, <2>3, <3>1, AddressFacts DEF ReserveValid, ReadME0, AreasValid
  <2>4. CASE cfg.low < 16 * K /\ cfg.ce155
    <3>1. Reserve = 14 * K + 8 /\ ~Unmapped(cfg, 14 * K + 8)
      BY <2>1, <2>4 DEF Reserve, ReserveBase, Unmapped, OneModule, InLow, InExt, ExtBase, K, Cfgs
    <3> QED
      BY <2>1, <2>2, <2>4, <3>1, AddressFacts DEF ReserveValid, ReadME0, AreasValid, K
  <2>5. CASE cfg.low < 16 * K /\ ~cfg.ce155
    <3>1. Reserve = 16 * K + 8 /\ ~Unmapped(cfg, 16 * K + 8)
      BY <2>1, <2>5 DEF Reserve, ReserveBase, Unmapped, OneModule, InLow, InExt, ExtBase, K, Cfgs
    <3> QED
      BY <2>1, <2>2, <2>5, <3>1, AddressFacts DEF ReserveValid, ReadME0, AreasValid, K
  <2> QED
    BY <2>1, <2>3, <2>4, <2>5 DEF Cfgs, K
<1> QED
  BY <1>1, MemInvInit, MemInvStep, PTL DEF MemSpec

-----------------------------------------------------------------------------
(* The cursor keys' repeats.                                               *)

KbParts(b) ==
  b = [down |-> b.down, releases |-> b.releases, held |-> b.held, key |-> b.key,
       count |-> b.count, fired |-> b.fired]

\* What the rollover counts is no longer than its key has been down since its
\* press or last repeat, and it waits the short time only after a repeat.
RepeatInv ==
  /\ KbParts(kb) /\ kb.held \in BOOLEAN /\ kb.fired \in BOOLEAN /\ kb.count \in Nat
  /\ age \in Nat /\ first \in BOOLEAN
  /\ kb.held => /\ kb.key \in kb.down
                /\ kb.count <= age /\ kb.count < Initial
                /\ first => ~kb.fired

LEMMA RepeatInvInit == KeysInit => RepeatInv
BY KeysAssumption DEF KeysInit, RepeatInv, KbParts

LEMMA PressedFields ==
  ASSUME NEW b, KbParts(b), NEW k
  PROVE  /\ KbParts(Pressed(b, k)) /\ Pressed(b, k).down = b.down \cup {k}
         /\ k \in CursorKeys =>
              /\ Pressed(b, k).held = TRUE /\ Pressed(b, k).key = k
              /\ Pressed(b, k).count = 0 /\ Pressed(b, k).fired = FALSE
         /\ k \notin CursorKeys =>
              /\ Pressed(b, k).held = b.held /\ Pressed(b, k).key = b.key
              /\ Pressed(b, k).count = b.count /\ Pressed(b, k).fired = b.fired
BY DEF KbParts, Pressed, Rolls

LEMMA ReleasedFields ==
  ASSUME NEW b, KbParts(b), NEW k
  PROVE  /\ KbParts(Released(b, k)) /\ Released(b, k).down = b.down
         /\ Released(b, k).held = b.held /\ Released(b, k).key = b.key
         /\ Released(b, k).count = b.count /\ Released(b, k).fired = b.fired
<1> DEFINE r == Append(b.releases, [key |-> k, left |-> Hold])
<1>1. Released(b, k) = [b EXCEPT !.releases = r]
  BY DEF Released
<1> HIDE DEF r
<1> QED
  BY <1>1 DEF KbParts

LEMMA AdvancedFields ==
  ASSUME NEW b, KbParts(b), b.held \in BOOLEAN, b.count \in Nat
  PROVE  /\ KbParts(Advanced(b)) /\ Advanced(b).key = b.key
         /\ Advanced(b).held \in BOOLEAN
         /\ Advanced(b).held => b.held /\ (b.key \in b.down => b.key \in Advanced(b).down)
         /\ RepeatDue(b) => Advanced(b).count = 0 /\ Advanced(b).fired = TRUE
         /\ ~RepeatDue(b) => /\ Advanced(b).fired = b.fired
                             /\ Advanced(b).count = IF b.held THEN b.count + 1 ELSE b.count
<1>1. /\ KbParts(Rolled(b)) /\ Rolled(b).key = b.key /\ Rolled(b).held = b.held
      /\ Rolled(b).down = b.down
      /\ RepeatDue(b) => Rolled(b).count = 0 /\ Rolled(b).fired = TRUE
      /\ ~RepeatDue(b) => /\ Rolled(b).fired = b.fired
                          /\ Rolled(b).count = IF b.held THEN b.count + 1 ELSE b.count
  BY DEF KbParts, Rolled
<1> DEFINE due == {b.releases[i].key : i \in {j \in DOMAIN b.releases : b.releases[j].left <= 1}}
           later == Those(b.releases, [key : Keys, left : 2..Hold])
           pending == [i \in DOMAIN later |-> [later[i] EXCEPT !.left = @ - 1]]
<1>2. Advanced(b) = [Rolled(b) EXCEPT !.down = @ \ due, !.held = @ /\ b.key \notin due,
                                      !.releases = pending]
  BY Zenon DEF Advanced
<1> HIDE DEF due, pending
<1> QED BY <1>1, <1>2 DEF KbParts

LEMMA RepeatStep ==
  ASSUME RepeatInv, [KeysNext]_keysVars
  PROVE  /\ RepeatInv'
         /\ kb.held /\ kb'.fired /\ kb'.count = 0 /\ kb.count > 0
              => /\ age + 1 >= (IF first THEN Initial ELSE Repeat)
                 /\ kb.key \in kb.down
<1>0. Initial \in Nat /\ Repeat \in Nat /\ Repeat > 0 /\ Repeat < Initial
  <2>1. Initial \in Nat \ {0} /\ Repeat \in Nat \ {0} /\ Repeat < Initial
    BY KeysAssumption
  <2> QED
    BY <2>1
<1>1. ASSUME NEW who, NEW k, NEW pressed \in BOOLEAN, SetKeyState(who, k, pressed)
      PROVE  RepeatInv' /\ (kb'.fired => ~(kb'.count = 0 /\ kb.count > 0))
  <2>1. CASE pressed
    <3>1. /\ kb' = Pressed(kb, k)
          /\ k \in CursorKeys => age' = 0 /\ first' = TRUE
          /\ k \notin CursorKeys => age' = age /\ first' = first
      BY <1>1, <2>1 DEF SetKeyState
    <3>2. /\ KbParts(kb') /\ kb'.down = kb.down \cup {k}
          /\ k \in CursorKeys => /\ kb'.held = TRUE /\ kb'.key = k
                                 /\ kb'.count = 0 /\ kb'.fired = FALSE
          /\ k \notin CursorKeys => /\ kb'.held = kb.held /\ kb'.key = kb.key
                                    /\ kb'.count = kb.count /\ kb'.fired = kb.fired
      BY <3>1, PressedFields DEF RepeatInv
    <3>3. CASE k \in CursorKeys
      <4>1. kb'.held => kb'.key \in kb'.down
        BY <3>2, <3>3
      <4>2. kb'.count <= age' /\ kb'.count < Initial
        BY <1>0, <3>1, <3>2, <3>3
      <4>3. kb'.held \in BOOLEAN /\ kb'.fired \in BOOLEAN /\ ~kb'.fired
        BY <3>2, <3>3, Zenon
      <4>5. kb'.count \in Nat
        BY <3>2, <3>3
      <4>4. age' \in Nat /\ first' \in BOOLEAN
        BY <3>1, <3>3
      <4> QED
        BY <3>2, <4>1, <4>2, <4>3, <4>4, <4>5 DEF RepeatInv
    <3>4. CASE k \notin CursorKeys
      BY <3>1, <3>2, <3>4 DEF RepeatInv
    <3> QED
      BY <3>3, <3>4
  <2>2. CASE ~pressed
    BY <1>1, <2>2, ReleasedFields DEF SetKeyState, RepeatInv
  <2> QED BY <2>1, <2>2
<1>2. ASSUME UNCHANGED <<kb, age, first>>
      PROVE  RepeatInv' /\ (kb'.fired => ~(kb'.count = 0 /\ kb.count > 0))
  BY <1>2 DEF RepeatInv, KbParts
<1>3. ASSUME NEW h, NEW pressed \in BOOLEAN, NEW repeat \in BOOLEAN, Event(h, pressed, repeat)
      PROVE  RepeatInv' /\ (kb'.fired => ~(kb'.count = 0 /\ kb.count > 0))
  <2>1. Untouched \/ \E k : SetKeyState(h, k, pressed) \/ SetKeyState(h, k, TRUE) \/ SetKeyState(h, k, FALSE)
    BY <1>3 DEF Event, Pass
  <2> QED BY <1>1, <1>2, <2>1 DEF Untouched
<1>4. CASE Frame
  <2> DEFINE action == Head(queue)
             b == IF ~QueueDue THEN kb
                  ELSE IF action.pressed THEN Pressed(kb, action.key) ELSE Released(kb, action.key)
             anew == QueueDue /\ action.pressed /\ action.key \in CursorKeys
  <2>1. /\ KbParts(b) /\ b.held \in BOOLEAN /\ b.fired \in BOOLEAN /\ b.count \in Nat
        /\ b.held => /\ b.key \in b.down /\ b.count < Initial
                     /\ anew \/ b.count <= age
                     /\ first => ~b.fired
        /\ anew => b.held = TRUE /\ b.fired = FALSE /\ b.count = 0
        /\ ~anew => /\ b.held = kb.held /\ b.key = kb.key /\ b.count = kb.count /\ b.fired = kb.fired
    <3>1. CASE ~QueueDue
      BY <3>1 DEF RepeatInv
    <3>2. CASE QueueDue /\ ~action.pressed
      BY <3>2, ReleasedFields DEF RepeatInv
    <3>3. ASSUME QueueDue, action.pressed
          PROVE  /\ KbParts(b) /\ b.down = kb.down \cup {action.key}
                 /\ anew => /\ b.held = TRUE /\ b.key = action.key
                            /\ b.count = 0 /\ b.fired = FALSE
                 /\ ~anew => /\ b.held = kb.held /\ b.key = kb.key
                             /\ b.count = kb.count /\ b.fired = kb.fired
      BY <3>3, PressedFields DEF RepeatInv
    <3>4. CASE anew
      <4>1. b.held \in BOOLEAN /\ b.fired \in BOOLEAN /\ b.held /\ ~b.fired
        BY <3>3, <3>4, Zenon
      <4>2. b.count = 0 /\ b.key = action.key /\ b.down = kb.down \cup {action.key}
        BY <3>3, <3>4, Zenon
      <4>3. b.count \in Nat /\ b.count < Initial /\ b.key \in b.down
        <5> HIDE DEF b, action
        <5> QED
          BY <1>0, <4>2
      <4> QED
        BY <3>3, <3>4, <4>1, <4>3, Zenon
    <3>5. CASE QueueDue /\ action.pressed /\ ~anew
      <4>1. KbParts(b) /\ b.down = kb.down \cup {action.key} /\ b.held = kb.held
            /\ b.key = kb.key /\ b.count = kb.count /\ b.fired = kb.fired
        BY <3>3, <3>5, Zenon
      <4> HIDE DEF b, anew
      <4> QED
        BY <3>5, <4>1 DEF RepeatInv
    <3> QED
      BY <3>1, <3>2, <3>4, <3>5
  <2>2. /\ kb' = Advanced(b)
        /\ age' = IF RepeatDue(b) THEN 0 ELSE IF anew THEN 1 ELSE IF age < Initial THEN age + 1 ELSE age
        /\ first' = (~RepeatDue(b) /\ (anew \/ first))
    BY <1>4 DEF Frame
  <2> HIDE DEF b, anew
  <2>3. RepeatDue(b) <=> b.held /\ b.count + 1 >= (IF b.fired THEN Repeat ELSE Initial)
    BY DEF RepeatDue, Threshold
  <2>4. /\ KbParts(kb') /\ kb'.key = b.key /\ kb'.held \in BOOLEAN
        /\ kb'.held => b.held /\ (b.key \in b.down => b.key \in kb'.down)
        /\ RepeatDue(b) => kb'.count = 0 /\ kb'.fired = TRUE
        /\ ~RepeatDue(b) => /\ kb'.fired = b.fired
                            /\ kb'.count = IF b.held THEN b.count + 1 ELSE b.count
    BY <2>1, <2>2, AdvancedFields
  <2>5. RepeatInv'
    <3>1. CASE RepeatDue(b)
      <4>1. kb'.fired = TRUE /\ kb'.count = 0 /\ age' = 0 /\ first' = FALSE
        BY <2>2, <2>4, <3>1
      <4>2. kb'.held => kb'.key \in kb'.down
        BY <2>1, <2>4
      <4>3. kb'.fired \in BOOLEAN /\ first' \in BOOLEAN /\ ~first'
        BY <4>1, Zenon
      <4>4. kb'.count \in Nat /\ age' \in Nat /\ kb'.count <= age' /\ kb'.count < Initial
        BY <1>0, <4>1
      <4> QED
        BY <2>4, <4>2, <4>3, <4>4 DEF RepeatInv
    <3>2. CASE ~RepeatDue(b) /\ anew
      BY <1>0, <2>1, <2>2, <2>3, <2>4, <3>2 DEF RepeatInv
    <3>3. CASE ~RepeatDue(b) /\ ~anew
      <4>1. kb'.fired = b.fired /\ first' = first
        BY <2>2, <2>4, <3>3 DEF RepeatInv
      <4>2. /\ kb'.count = IF b.held THEN b.count + 1 ELSE b.count
            /\ age' = IF age < Initial THEN age + 1 ELSE age
        BY <2>2, <2>4, <3>3
      <4>3. b.held => b.count + 1 < Initial
        BY <1>0, <2>1, <2>3, <3>3
      <4>4. age \in Nat /\ first \in BOOLEAN
        BY DEF RepeatInv
      <4>5. kb'.count \in Nat /\ age' \in Nat /\ (kb'.held => kb'.count <= age' /\ kb'.count < Initial)
        BY <1>0, <2>1, <2>4, <3>3, <4>2, <4>3, <4>4
      <4>6. kb'.held => kb'.key \in kb'.down /\ (first' => ~kb'.fired)
        BY <2>1, <2>4, <4>1
      <4> QED
        BY <2>1, <2>4, <4>1, <4>4, <4>5, <4>6 DEF RepeatInv
    <3> QED
      BY <3>1, <3>2, <3>3
  <2>6. kb.held /\ kb'.fired /\ kb'.count = 0 /\ kb.count > 0
          => age + 1 >= (IF first THEN Initial ELSE Repeat) /\ kb.key \in kb.down
    <3> SUFFICES ASSUME kb.held, kb'.fired, kb'.count = 0, kb.count > 0
                 PROVE  age + 1 >= (IF first THEN Initial ELSE Repeat) /\ kb.key \in kb.down
      OBVIOUS
    <3>1. kb.key \in kb.down /\ kb.count \in Nat /\ kb.count <= age /\ age \in Nat
          /\ (first => ~kb.fired)
      BY DEF RepeatInv
    <3>2. RepeatDue(b) /\ ~anew
      <4>1. b.held /\ b.count \in Nat
        BY <2>1, Zenon
      <4>2. RepeatDue(b)
        <5>1. ~RepeatDue(b) => kb'.count = b.count + 1
          BY <2>4, <4>1, Zenon
        <5>2. kb'.count = 0 /\ b.count \in Nat
          BY <4>1
        <5> QED
          BY <5>1, <5>2
      <4>3. b.fired = FALSE /\ b.count = 0 => ~(b.count + 1 >= (IF b.fired THEN Repeat ELSE Initial))
        BY <1>0
      <4> QED
        BY <2>1, <2>3, <4>2, <4>3, Zenon
    <3>3. age + 1 >= (IF kb.fired THEN Repeat ELSE Initial)
      <4>1. kb.count + 1 >= (IF kb.fired THEN Repeat ELSE Initial)
        BY <2>1, <2>3, <3>2
      <4> QED
        BY <1>0, <3>1, <4>1
    <3>4. age + 1 >= (IF first THEN Initial ELSE Repeat)
      <4>1. CASE first
        BY <3>1, <3>3, <4>1
      <4>2. CASE ~first
        BY <1>0, <3>1, <3>3, <4>2
      <4> QED
        BY <4>1, <4>2
    <3> QED
      BY <3>1, <3>4
  <2> QED BY <2>5, <2>6
<1>5. CASE Modifier \/ UNCHANGED keysVars
  BY <1>2, <1>5 DEF Modifier, Untouched, keysVars
<1>6. CASE \E h \in HostKeys : KeyDown(h) \/ KeyRepeat(h) \/ KeyUp(h)
  BY <1>3, <1>6 DEF KeyDown, KeyRepeat, KeyUp
<1> QED BY <1>4, <1>5, <1>6 DEF KeysNext

\* A cursor key repeats only while it is down, in its own time, whatever keys
\* are tapped, released and repeated meanwhile (Bus::advanceCycles).
THEOREM RepeatsAreInTime == KeysSpec => RepeatsInTime
<1>1. RepeatInv /\ [KeysNext]_keysVars => RepeatInv'
  BY RepeatStep
<1>2. RepeatInv /\ [KeysNext]_keysVars =>
        [kb.held /\ kb'.fired /\ kb'.count = 0 /\ kb.count > 0
           => /\ age + 1 >= (IF first THEN Initial ELSE Repeat)
              /\ kb.key \in kb.down]_keysVars
  BY RepeatStep
<1> QED
  BY <1>1, <1>2, RepeatInvInit, PTL DEF KeysSpec, RepeatsInTime

-----------------------------------------------------------------------------
(* The machine's keys follow the host's.                                   *)

Releases   == [key : Keys, left : 1..Hold]
Pends(s, k) == \E i \in DOMAIN s : s[i].key = k
Once(s, k)  == \A i, j \in DOMAIN s : s[i].key = k /\ s[j].key = k => i = j

\* The keys a host key has pressed.
HoldsKey(h, k) ==
  \/ h \in DOMAIN Immediate /\ k = Immediate[h]
  \/ h = "F10" /\ k = (IF f10IsRocker THEN "Rocker" ELSE "Sml")
  \/ h = "F12" /\ k = "Off"

KbType(b) == KbParts(b) /\ b.down \subseteq Keys /\ b.releases \in Seq(Releases)

\* One release at most is on its way to a key that no two sources shared, and
\* none while it is held; a key that is down is held or its release on its way.
Owned(b, who, apart) ==
  \A k \in Keys \ apart :
    /\ who[k] # {} => k \in b.down /\ ~Pends(b.releases, k)
    /\ Once(b.releases, k)
Followed(b, who) == \A k \in b.down : who[k] # {} \/ Pends(b.releases, k)

\* Who holds a key is down himself.
HoldersDown ==
  \A k \in Keys : \A h \in holders[k] \ {"queue"} : h \in hostDown /\ HoldsKey(h, k)

KeysInv ==
  /\ KbType(kb) /\ queue \in Seq([key : Keys, pressed : BOOLEAN, for : {Tap, Idle}])
  /\ holders = [k \in Keys |-> holders[k]]
  /\ Owned(kb, holders, shared) /\ Followed(kb, holders) /\ (slipped \/ HoldersDown)

\* A press takes back one release of its key, and none of another.
LEMMA CancelledReleases ==
  ASSUME NEW s \in Seq(Releases), NEW k \in Keys
  PROVE  /\ Cancelled(s, k) \in Seq(Releases)
         /\ \A q \in Keys : /\ Once(s, q) => Once(Cancelled(s, k), q)
                            /\ Pends(Cancelled(s, k), q) => Pends(s, q)
                            /\ q # k /\ Pends(s, q) => Pends(Cancelled(s, k), q)
         /\ Once(s, k) => ~Pends(Cancelled(s, k), k)
<1>1. CASE ~Pends(s, k)
  BY <1>1 DEF Cancelled, Pends, Once
<1>2. CASE Pends(s, k)
  <2> DEFINE I == {i \in 1..Len(s) : s[i].key = k}
             m == SelectInSeq(s, LAMBDA r : r.key = k)
             c == RemoveAt(s, m)
  <2>1. Len(s) \in Nat /\ DOMAIN s = 1..Len(s) /\ I # {} /\ I \subseteq Nat
    BY <1>2, LenProperties DEF Pends
  <2>2. m \in I
    <3>1. \E n \in I : \A i \in I : n <= i
      <4> HIDE DEF I
      <4> QED
        BY <2>1, LeastExists
    <3>2. m = CHOOSE n \in I : \A i \in I : n <= i
      BY <2>1 DEF SelectInSeq, Min
    <3> QED
      BY <3>1, <3>2
  <2>3. m \in 1..Len(s) /\ s[m].key = k
    BY <2>2
  <2>4. Cancelled(s, k) = c
    BY <1>2 DEF Cancelled, Pends
  <2> HIDE DEF m, I
  <2>5. /\ c \in Seq(Releases) /\ Len(c) = Len(s) - 1
        /\ \A j \in 1..(Len(s) - 1) : c[j] = IF j < m THEN s[j] ELSE s[j + 1]
    BY <2>3, RemovedAt
  <2> DEFINE at(j) == IF j < m THEN j ELSE j + 1
  <2>6. /\ DOMAIN c = 1..(Len(s) - 1)
        /\ \A j \in 1..(Len(s) - 1) : at(j) \in 1..Len(s) /\ at(j) # m /\ c[j] = s[at(j)]
        /\ \A i, j \in 1..(Len(s) - 1) : at(i) = at(j) => i = j
        /\ \A i \in 1..Len(s) : i # m => \E j \in 1..(Len(s) - 1) : at(j) = i
    <3>1. DOMAIN c = 1..(Len(s) - 1)
      BY <2>5, LenProperties
    <3>2. \A j \in 1..(Len(s) - 1) : at(j) \in 1..Len(s) /\ at(j) # m /\ c[j] = s[at(j)]
      BY <2>1, <2>3, <2>5
    <3>3. \A i, j \in 1..(Len(s) - 1) : at(i) = at(j) => i = j
      BY <2>1, <2>3
    <3>4. ASSUME NEW i \in 1..Len(s), i # m PROVE \E j \in 1..(Len(s) - 1) : at(j) = i
      <4>1. CASE i < m
        <5>1. i \in 1..(Len(s) - 1) /\ at(i) = i
          BY <4>1, <2>1, <2>3
        <5> QED
          BY <5>1
      <4>2. CASE i > m
        <5>1. i - 1 \in 1..(Len(s) - 1) /\ at(i - 1) = i
          BY <4>2, <2>1, <2>3
        <5> QED
          BY <5>1
      <4> QED
        BY <3>4, <4>1, <4>2, <2>1, <2>3
    <3> QED
      BY <3>1, <3>2, <3>3, <3>4
  <2> HIDE DEF c, at
  <2>7. ASSUME NEW q \in Keys, Once(s, q) PROVE Once(c, q)
    <3> SUFFICES ASSUME NEW i \in DOMAIN c, NEW j \in DOMAIN c, c[i].key = q, c[j].key = q PROVE i = j
      BY DEF Once
    <3>1. at(i) = at(j)
      BY <2>1, <2>6, <2>7 DEF Once
    <3> QED
      BY <2>6, <3>1
  <2>8. \A q \in Keys : Pends(c, q) => Pends(s, q)
    BY <2>1, <2>6 DEF Pends
  <2>9. ASSUME NEW q \in Keys, q # k, Pends(s, q) PROVE Pends(c, q)
    <3>1. PICK i \in 1..Len(s) : s[i].key = q
      BY <2>1, <2>9 DEF Pends
    <3>2. i # m
      BY <2>3, <2>9, <3>1
    <3>3. PICK j \in 1..(Len(s) - 1) : at(j) = i
      BY <2>6, <3>2
    <3>4. c[j].key = q
      BY <2>6, <3>1, <3>3
    <3> QED
      BY <2>6, <3>4 DEF Pends
  <2>10. Once(s, k) => ~Pends(c, k)
    BY <2>1, <2>3, <2>6 DEF Pends, Once
  <2> QED
    BY <2>4, <2>5, <2>7, <2>8, <2>9, <2>10
<1> QED
  BY <1>1, <1>2

\* A release is added for its key.
LEMMA AddedRelease ==
  ASSUME NEW s \in Seq(Releases), NEW r \in Releases
  PROVE  /\ Append(s, r) \in Seq(Releases)
         /\ \A q \in Keys : /\ Pends(Append(s, r), q) <=> Pends(s, q) \/ q = r.key
                            /\ Once(s, q) /\ (q = r.key => ~Pends(s, q)) => Once(Append(s, r), q)
<1> DEFINE t == Append(s, r)
<1>1. /\ t \in Seq(Releases) /\ Len(s) \in Nat /\ Len(t) = Len(s) + 1 /\ t[Len(s) + 1] = r
      /\ \A i \in 1..Len(s) : t[i] = s[i]
  BY AppendProperties
<1>2. DOMAIN s = 1..Len(s) /\ DOMAIN t = 1..(Len(s) + 1)
  BY <1>1, LenProperties
<1>3. \A i \in 1..(Len(s) + 1) : i \in 1..Len(s) \/ i = Len(s) + 1
  BY <1>1
<1>4. Len(s) + 1 \in DOMAIN t /\ \A i \in DOMAIN s : i \in DOMAIN t
  BY <1>1, <1>2
<1> HIDE DEF t
<1>5. ASSUME NEW q \in Keys PROVE Pends(t, q) <=> Pends(s, q) \/ q = r.key
  BY <1>1, <1>2, <1>3, <1>4 DEF Pends
<1>6. ASSUME NEW q \in Keys, Once(s, q), q = r.key => ~Pends(s, q) PROVE Once(t, q)
  BY <1>1, <1>2, <1>3, <1>4, <1>6 DEF Pends, Once
<1> QED
  BY <1>1, <1>5, <1>6 DEF t

\* What a frame leaves of the releases.
LEMMA AdvancedReleases ==
  ASSUME NEW b, KbType(b)
  PROVE  /\ KbType(Advanced(b))
         /\ Advanced(b).down \subseteq b.down
         /\ \A q \in Keys :
              /\ Once(b.releases, q) => Once(Advanced(b).releases, q)
              /\ Pends(Advanced(b).releases, q) => Pends(b.releases, q)
              /\ Pends(b.releases, q) => Pends(Advanced(b).releases, q) \/ q \notin Advanced(b).down
              /\ q \in b.down /\ ~Pends(b.releases, q) => q \in Advanced(b).down
<1> DEFINE s == b.releases
           S == [key : Keys, left : 2..Hold]
           due == {s[i].key : i \in {j \in DOMAIN s : s[j].left <= 1}}
           later == Those(s, S)
           t == [i \in DOMAIN later |-> [later[i] EXCEPT !.left = @ - 1]]
<1>0. Hold \in Nat
  BY KeysAssumption DEF KeysAssumption
<1>1. /\ KbParts(Rolled(b)) /\ Rolled(b).down = b.down
  BY DEF KbType, KbParts, Rolled
<1>2. Advanced(b) = [Rolled(b) EXCEPT !.down = @ \ due, !.held = @ /\ b.key \notin due, !.releases = t]
  BY Zenon DEF Advanced
<1>3. KbParts(Advanced(b)) /\ Advanced(b).down = b.down \ due /\ Advanced(b).releases = t
  <2> HIDE DEF due, t
  <2> QED
    BY <1>1, <1>2 DEF KbParts
<1>4. s \in Seq(Releases) /\ Len(s) \in Nat /\ DOMAIN s = 1..Len(s) /\ \A i \in 1..Len(s) : s[i] \in Releases
  BY LenProperties, ElementOfSeq DEF KbType
<1>5. PICK e : later \in Seq(Releases) /\ PlacesOf(e, later, s, Len(s), S)
  BY <1>4, ThosePlaces
<1>6. DOMAIN later = 1..Len(later) /\ Len(later) \in Nat
  BY <1>5, LenProperties
<1> HIDE DEF later, S
<1>7. \A j \in 1..Len(later) : e[j] \in 1..Len(s) /\ later[j] = s[e[j]] /\ later[j] \in S
  BY <1>5 DEF PlacesOf
<1>8. \A j \in 1..Len(later) : later[j] \in [key : Keys, left : 2..Hold]
  BY <1>7 DEF S
<1>9. \A j \in 1..Len(later) : t[j] \in Releases /\ t[j].key = s[e[j]].key
  <2> TAKE j \in 1..Len(later)
  <2>1. later[j].left - 1 \in 1..Hold
    BY <1>0, <1>8
  <2>2. t[j] = [key |-> later[j].key, left |-> later[j].left - 1]
    BY <1>6, <1>8
  <2> QED
    BY <1>7, <1>8, <2>1, <2>2 DEF Releases
<1>10. t \in Seq(Releases) /\ DOMAIN t = 1..Len(later)
  BY <1>6, <1>9, SeqDef
<1>11. ASSUME NEW q \in Keys, Once(s, q) PROVE Once(t, q)
  <2> SUFFICES ASSUME NEW i \in 1..Len(later), NEW j \in 1..Len(later), t[i].key = q, t[j].key = q
               PROVE  i = j
    BY <1>10 DEF Once
  <2>1. e[i] = e[j]
    BY <1>4, <1>7, <1>9, <1>11 DEF Once
  <2>2. ~(i < j) /\ ~(j < i)
    BY <1>5, <1>7, <2>1 DEF PlacesOf
  <2> QED
    BY <2>2, <1>6
<1>12. ASSUME NEW q \in Keys, Pends(t, q) PROVE Pends(s, q)
  <2>1. PICK j \in 1..Len(later) : t[j].key = q
    BY <1>10, <1>12 DEF Pends
  <2>2. e[j] \in DOMAIN s /\ s[e[j]].key = q
    BY <1>4, <1>7, <1>9, <2>1
  <2> QED
    BY <2>2 DEF Pends
<1>13. ASSUME NEW q \in Keys, Pends(s, q), q \notin due PROVE Pends(t, q)
  <2>1. PICK i \in 1..Len(s) : s[i].key = q
    BY <1>4, <1>13 DEF Pends
  <2>2. ~(s[i].left <= 1)
    BY <1>4, <1>13, <2>1
  <2>3. s[i] \in S
    BY <1>0, <1>4, <2>2 DEF S, Releases
  <2>4. PICK j \in 1..Len(later) : e[j] = i
    BY <1>5, <2>3 DEF PlacesOf
  <2>5. t[j].key = q
    BY <1>9, <2>1, <2>4
  <2> QED
    BY <1>10, <2>5 DEF Pends
<1>14. \A q \in due : Pends(s, q)
  BY <1>4 DEF Pends
<1> HIDE DEF t, due
<1>15. KbType(Advanced(b))
  BY <1>3, <1>10 DEF KbType
<1> QED
  BY <1>3, <1>11, <1>12, <1>13, <1>14, <1>15

\* A press, a release and a frame keep what is said of the keys.
LEMMA PressOwns ==
  ASSUME NEW b, KbType(b), NEW h, h = [k \in Keys |-> h[k]], NEW apart, Owned(b, h, apart), Followed(b, h),
         NEW k \in Keys, NEW who, NEW now, k \in now \/ h[k] \ {who} = {}, apart \subseteq now
  PROVE  LET c == Pressed(b, k)
             g == [h EXCEPT ![k] = @ \cup {who}]
         IN KbType(c) /\ Owned(c, g, now) /\ Followed(c, g)
<1> DEFINE c == Pressed(b, k)
           g == [h EXCEPT ![k] = @ \cup {who}]
           s == b.releases
           t == Cancelled(s, k)
<1>1. KbParts(c) /\ c.down = b.down \cup {k}
  <2>1. KbParts(Pressed(b, k))
    BY PressedFields DEF KbType
  <2>2. Pressed(b, k).down = b.down \cup {k}
    BY DEF Pressed, Rolls, KbType, KbParts
  <2> QED
    BY <2>1, <2>2
<1>2. c.releases = t
  BY DEF Pressed, Rolls, KbType, KbParts
<1>3. s \in Seq(Releases) /\ b.down \subseteq Keys
  BY DEF KbType
<1>4. /\ t \in Seq(Releases)
      /\ \A q \in Keys : /\ Once(s, q) => Once(t, q)
                         /\ Pends(t, q) => Pends(s, q)
                         /\ q # k /\ Pends(s, q) => Pends(t, q)
      /\ Once(s, k) => ~Pends(t, k)
  BY <1>3, CancelledReleases
<1>5. g[k] = h[k] \cup {who} /\ \A q \in Keys : q # k => g[q] = h[q]
  OBVIOUS
<1> HIDE DEF c, g, t
<1>6. KbType(c)
  BY <1>1, <1>2, <1>3, <1>4 DEF KbType
<1>7. ASSUME NEW q \in Keys \ now
      PROVE  (g[q] # {} => q \in c.down /\ ~Pends(t, q)) /\ Once(t, q)
  <2>1. q \in Keys /\ Once(s, q) /\ Once(t, q) /\ (h[q] # {} => q \in b.down /\ ~Pends(s, q))
    BY <1>4 DEF Owned
  <2> QED
    BY <1>1, <1>4, <1>5, <2>1
<1>8. ASSUME NEW q \in c.down PROVE g[q] # {} \/ Pends(t, q)
  <2>1. q = k \/ (q \in b.down /\ q # k /\ q \in Keys)
    BY <1>1, <1>3
  <2> QED
    BY <1>4, <1>5, <2>1 DEF Followed
<1> QED
  BY <1>2, <1>6, <1>7, <1>8 DEF Owned, Followed, c, g

LEMMA ReleaseOwns ==
  ASSUME NEW b, KbType(b), NEW h, h = [k \in Keys |-> h[k]], NEW apart, Owned(b, h, apart), Followed(b, h),
         NEW k \in Keys, NEW who, NEW now, k \in now \/ (h[k] \ {who} = {} /\ ~Pends(b.releases, k)),
         apart \subseteq now
  PROVE  LET c == Released(b, k)
             g == [h EXCEPT ![k] = @ \ {who}]
         IN KbType(c) /\ Owned(c, g, now) /\ Followed(c, g)
<1> DEFINE c == Released(b, k)
           g == [h EXCEPT ![k] = @ \ {who}]
           s == b.releases
           r == [key |-> k, left |-> Hold]
           t == Append(s, r)
<1>1. KbParts(c) /\ c.down = b.down
  BY ReleasedFields DEF KbType
<1>2. c.releases = t
  <2>1. c = [b EXCEPT !.releases = t]
    BY DEF Released
  <2> HIDE DEF t, c
  <2> QED
    BY <2>1 DEF KbType, KbParts
<1>3. s \in Seq(Releases) /\ b.down \subseteq Keys /\ r \in Releases /\ r.key = k
  <2>1. Hold \in 1..Hold
    BY KeysAssumption DEF KeysAssumption
  <2> QED
    BY <2>1 DEF KbType, Releases
<1> HIDE DEF r
<1>4. /\ t \in Seq(Releases)
      /\ \A q \in Keys : /\ Pends(t, q) <=> Pends(s, q) \/ q = k
                         /\ Once(s, q) /\ (q = k => ~Pends(s, q)) => Once(t, q)
  BY <1>3, AddedRelease
<1>5. g[k] = h[k] \ {who} /\ \A q \in Keys : q # k => g[q] = h[q]
  OBVIOUS
<1> HIDE DEF c, g, t
<1>6. KbType(c)
  BY <1>1, <1>2, <1>3, <1>4 DEF KbType
<1>7. ASSUME NEW q \in Keys \ now
      PROVE  (g[q] # {} => q \in c.down /\ ~Pends(t, q)) /\ Once(t, q)
  <2>1. q \in Keys /\ Once(s, q) /\ (h[q] # {} => q \in b.down /\ ~Pends(s, q))
    BY DEF Owned
  <2> QED
    BY <1>1, <1>4, <1>5, <2>1
<1>8. ASSUME NEW q \in c.down PROVE g[q] # {} \/ Pends(t, q)
  BY <1>1, <1>3, <1>4, <1>5 DEF Followed
<1> QED
  BY <1>2, <1>6, <1>7, <1>8 DEF Owned, Followed, c, g

LEMMA AdvanceOwns ==
  ASSUME NEW b, KbType(b), NEW h, NEW apart, Owned(b, h, apart), Followed(b, h)
  PROVE  KbType(Advanced(b)) /\ Owned(Advanced(b), h, apart) /\ Followed(Advanced(b), h)
<1>1. b.down \subseteq Keys
  BY DEF KbType
<1> QED
  BY <1>1, AdvancedReleases DEF Owned, Followed

LEMMA KeysInvInit == KeysInit => KeysInv
<1> SUFFICES ASSUME KeysInit PROVE KeysInv
  OBVIOUS
<1>1. <<>> \in Seq(Releases) /\ <<>> \in Seq([key : Keys, pressed : BOOLEAN, for : {Tap, Idle}])
      /\ DOMAIN <<>> = {}
  BY EmptySeq
<1>2. KbType(kb)
  BY <1>1 DEF KeysInit, KbType, KbParts
<1>3. Owned(kb, holders, shared) /\ Followed(kb, holders) /\ HoldersDown
  BY <1>1 DEF KeysInit, Owned, Followed, HoldersDown, Once, Pends
<1> QED
  BY <1>1, <1>2, <1>3 DEF KeysInit, KeysInv

\* What is said of the keys but for who is down: after any step.
KeptKeys ==
  /\ KbType(kb) /\ holders = [k \in Keys |-> holders[k]]
  /\ Owned(kb, holders, shared) /\ Followed(kb, holders)

LEMMA SetKeyStateKeeps ==
  ASSUME KeysInv, NEW who, NEW k \in Keys, NEW pressed \in BOOLEAN, SetKeyState(who, k, pressed)
  PROVE  KeptKeys'
<1>1. KbType(kb) /\ holders = [q \in Keys |-> holders[q]] /\ Owned(kb, holders, shared) /\ Followed(kb, holders)
  BY DEF KeysInv
<1>2. shared \subseteq shared' /\ (k \in shared' \/ ~Contended(who, k, pressed))
  BY DEF SetKeyState
<1>3. CASE pressed
  <2>1. kb' = Pressed(kb, k) /\ holders' = [holders EXCEPT ![k] = @ \cup {who}]
    BY <1>3 DEF SetKeyState
  <2>2. k \in shared' \/ holders[k] \ {who} = {}
    BY <1>2 DEF Contended
  <2>3. KbType(kb') /\ Owned(kb', holders', shared') /\ Followed(kb', holders')
    BY ONLY <1>1, <1>2, <2>1, <2>2, k \in Keys, PressOwns
  <2>4. holders' = [q \in Keys |-> holders'[q]]
    BY <1>1, <2>1
  <2> QED
    BY <2>3, <2>4 DEF KeptKeys, KbType, KbParts, Owned, Followed, Pends, Once
<1>4. CASE ~pressed
  <2>1. kb' = Released(kb, k) /\ holders' = [holders EXCEPT ![k] = @ \ {who}]
    BY <1>4 DEF SetKeyState
  <2>2. k \in shared' \/ (holders[k] \ {who} = {} /\ ~Pends(kb.releases, k))
    BY <1>2, <1>4 DEF Contended, ReleasePending, Pends
  <2>3. KbType(kb') /\ Owned(kb', holders', shared') /\ Followed(kb', holders')
    BY ONLY <1>1, <1>2, <2>1, <2>2, k \in Keys, ReleaseOwns
  <2>4. holders' = [q \in Keys |-> holders'[q]]
    BY <1>1, <2>1
  <2> QED
    BY <2>3, <2>4 DEF KeptKeys, KbType, KbParts, Owned, Followed, Pends, Once
<1> QED
  BY <1>3, <1>4

LEMMA UntouchedKeeps ==
  ASSUME KeysInv, Untouched
  PROVE  KeptKeys' /\ holders' = holders
BY DEF Untouched, KeysInv, KeptKeys, KbType, KbParts, Owned, Followed, Pends, Once

\* A key event: its key, if it sets one, is the one it holds or is to hold.
LEMMA EventKeeps ==
  ASSUME KeysInv, NEW h \in HostKeys, NEW pressed \in BOOLEAN, NEW repeat \in BOOLEAN,
         Event(h, pressed, repeat), h \in hostDown <=> (~pressed \/ repeat), repeat => pressed
  PROVE  KeysInv'
<1> DEFINE held == \A k \in Keys : \A g \in holders[k] \ {"queue"} : g \in hostDown /\ HoldsKey(g, k)
<1>1. /\ queue \in Seq([key : Keys, pressed : BOOLEAN, for : {Tap, Idle}])
      /\ slipped \/ HoldersDown
  BY DEF KeysInv
<1>2. CASE Reserved(h)
  <2>1. KeptKeys' /\ holders' = holders /\ queue' = queue /\ f10IsRocker' = f10IsRocker
    BY <1>2, UntouchedKeeps DEF Event
  <2>2. slipped' \/ HoldersDown'
    <3>1. CASE pressed
      <4>1. hostDown \subseteq hostDown' /\ (slipped => slipped')
        BY <3>1 DEF Event
      <4> QED
        BY <1>1, <2>1, <4>1 DEF HoldersDown, HoldsKey
    <3>2. CASE ~pressed
      BY <1>2, <3>2 DEF Event
    <3> QED
      BY <3>1, <3>2
  <2> QED
    BY <1>1, <2>1, <2>2 DEF KeysInv, KeptKeys
<1>3. CASE ~Reserved(h)
  <2>1. Pass(h, pressed, repeat) /\ (slipped => slipped')
        /\ hostDown' = IF pressed THEN hostDown \cup {h} ELSE hostDown \ {h}
    BY <1>3 DEF Event
  <2>2. ASSUME slipped' \/ HoldersDown', KeptKeys', queue' \in Seq([key : Keys, pressed : BOOLEAN, for : {Tap, Idle}])
        PROVE  KeysInv'
    BY <2>2 DEF KeysInv, KeptKeys
  <2>3. ASSUME NEW k \in Keys, SetKeyState(h, k, pressed), h # "queue", queue' = queue,
               HoldsKey(h, k)', ~slipped' => \A q \in Keys : HoldsKey(h, q) /\ h \in holders[q] => q = k,
               ~slipped' => \A g, q : g # h /\ HoldsKey(g, q) => HoldsKey(g, q)'
        PROVE  KeysInv'
    <3>1. /\ KeptKeys' /\ \A q \in Keys : q # k => holders'[q] = holders[q]
          /\ pressed => holders'[k] = holders[k] \cup {h}
          /\ ~pressed => holders'[k] = holders[k] \ {h}
      <4>1. KeptKeys'
        BY <2>3, SetKeyStateKeeps
      <4>2. holders = [q \in Keys |-> holders[q]]
            /\ holders' = [holders EXCEPT ![k] = IF pressed THEN @ \cup {h} ELSE @ \ {h}]
        BY <2>3 DEF SetKeyState, KeysInv
      <4> QED
        BY <4>1, <4>2
    <3>2. ASSUME ~slipped' PROVE HoldersDown'
      <4>1. HoldersDown
        BY <1>1, <2>1, <3>2
      <4>2. ASSUME NEW q \in Keys, NEW g \in holders'[q] \ {"queue"}
            PROVE  g \in hostDown' /\ HoldsKey(g, q)'
        <5>1. CASE g = h
          <6>1. q = k
            BY <2>3, <3>1, <3>2, <4>1, <4>2, <5>1 DEF HoldersDown
          <6>2. pressed
            BY <3>1, <4>2, <5>1, <6>1
          <6> QED
            BY <2>1, <2>3, <5>1, <6>1, <6>2
        <5>2. CASE g # h
          <6>1. g \in holders[q] \ {"queue"}
            BY <3>1, <4>2, <5>2
          <6>2. g \in hostDown /\ HoldsKey(g, q)
            BY <4>1, <6>1 DEF HoldersDown
          <6> QED
            BY <2>1, <2>3, <3>2, <5>2, <6>2
        <5> QED
          BY <5>1, <5>2
      <4> QED
        BY <4>2 DEF HoldersDown
    <3> QED
      BY <1>1, <2>2, <2>3, <3>1, <3>2
  <2>4. ASSUME Untouched, h \in DOMAIN Immediate \cup {"F12"} => pressed, f10IsRocker' = f10IsRocker, h # "F10",
               queue' \in Seq([key : Keys, pressed : BOOLEAN, for : {Tap, Idle}])
        PROVE  KeysInv'
    <3>1. KeptKeys' /\ holders' = holders
      BY <2>4, UntouchedKeeps
    <3>2. slipped' \/ HoldersDown'
      BY <1>1, <2>1, <2>4, <3>1 DEF HoldersDown, HoldsKey
    <3> QED
      BY <2>2, <2>4, <3>1, <3>2
  <2>5. CASE /\ h \in DOMAIN Immediate
             /\ IF repeat THEN Untouched ELSE SetKeyState(h, Immediate[h], pressed)
             /\ UNCHANGED <<queue, onKeyLine, f10IsRocker>>
    <3>1. h \in {"left", "backspace", "right"} /\ Immediate[h] \in Keys
      BY <2>5 DEF Immediate, Keys
    <3>2. CASE repeat
      BY <1>1, <2>4, <2>5, <3>1, <3>2
    <3>3. CASE ~repeat
      <4>1. HoldsKey(h, Immediate[h])' /\ \A q : HoldsKey(h, q) => q = Immediate[h]
        BY <2>5, <3>1 DEF HoldsKey
      <4>2. \A g, q : HoldsKey(g, q) => HoldsKey(g, q)'
        BY <2>5 DEF HoldsKey
      <4>3. SetKeyState(h, Immediate[h], pressed) /\ queue' = queue
        BY <2>5, <3>3
      <4> QED
        BY ONLY <2>3, <3>1, <4>1, <4>2, <4>3
    <3> QED
      BY <3>2, <3>3
  <2>6. CASE /\ h \in DOMAIN Taps /\ Untouched
             /\ queue' = IF pressed /\ ~repeat THEN queue \o Taps[h] ELSE queue
             /\ UNCHANGED <<onKeyLine, f10IsRocker>>
    <3>1. h \in {"letter", "delete"}
      BY <2>6 DEF Taps
    <3>2. Taps[h] \in Seq([key : Keys, pressed : BOOLEAN, for : {Tap, Idle}])
      <4>1. \A k \in Keys : TapOf(k) \in Seq([key : Keys, pressed : BOOLEAN, for : {Tap, Idle}])
        BY DEF TapOf
      <4>2. TapOf("Shift") \o TapOf("Left") \in Seq([key : Keys, pressed : BOOLEAN, for : {Tap, Idle}])
        BY <4>1, ConcatProperties DEF Keys
      <4> QED
        <5>1. TapOf("A") \in Seq([key : Keys, pressed : BOOLEAN, for : {Tap, Idle}])
          BY <4>1 DEF Keys
        <5>2. Taps["letter"] = TapOf("A") /\ Taps["delete"] = TapOf("Shift") \o TapOf("Left")
          BY DEF Taps
        <5> QED
          BY ONLY <3>1, <4>2, <5>1, <5>2
    <3>3. queue' \in Seq([key : Keys, pressed : BOOLEAN, for : {Tap, Idle}])
      BY <1>1, <2>6, <3>2, ConcatProperties
    <3> QED
      BY <2>4, <2>6, <3>1, <3>3 DEF Immediate
  <2>7. CASE /\ h = "F10"
             /\ f10IsRocker' = IF pressed THEN shift ELSE f10IsRocker
             /\ SetKeyState(h, F10Key(pressed), pressed)
             /\ UNCHANGED <<queue, onKeyLine>>
    <3>0. PICK k : k = F10Key(pressed)
      OBVIOUS
    <3>1. k \in Keys /\ HoldsKey(h, k)'
      <4>1. k = IF f10IsRocker' THEN "Rocker" ELSE "Sml"
        BY <2>7, <3>0 DEF F10Key
      <4>2. k \in Keys
        BY <4>1 DEF Keys
      <4>3. HoldsKey(h, k)'
        BY <2>7, <4>1 DEF HoldsKey
      <4> QED
        BY <4>2, <4>3
    <3>2. \A g, q : g # h /\ HoldsKey(g, q) => HoldsKey(g, q)'
      BY <2>7 DEF HoldsKey
    <3>3. ASSUME ~slipped', NEW q \in Keys, HoldsKey(h, q), h \in holders[q]
          PROVE  q = k
      <4>1. q = IF f10IsRocker THEN "Rocker" ELSE "Sml"
        BY <2>7, <3>3 DEF HoldsKey, Immediate
      <4>2. h \in hostDown
        BY <1>1, <2>1, <2>7, <3>3 DEF HoldersDown
      <4>3. CASE ~pressed
        BY <3>0, <4>1, <4>3 DEF F10Key
      <4>4. CASE pressed
        <5>1. repeat /\ ~ctrl /\ shift = f10IsRocker
          BY <1>3, <2>7, <3>3, <4>2, <4>4 DEF Event, Reserved
        <5> QED
          BY <3>0, <4>1, <4>4, <5>1 DEF F10Key
      <4> QED
        BY <4>3, <4>4
    <3>4. SetKeyState(h, k, pressed) /\ h # "queue" /\ queue' = queue
      BY <2>7, <3>0
    <3> QED
      BY ONLY <2>3, <3>1, <3>2, <3>3, <3>4
  <2>8. CASE /\ h = "F12" /\ UNCHANGED <<queue, f10IsRocker>>
             /\ CASE pressed /\ ctrl -> Untouched /\ UNCHANGED onKeyLine
                  [] pressed /\ ~ctrl /\ shift -> SetKeyState(h, "Off", TRUE) /\ UNCHANGED onKeyLine
                  [] pressed /\ ~ctrl /\ ~shift -> onKeyLine' = TRUE /\ Untouched
                  [] ~pressed -> onKeyLine' = FALSE /\ SetKeyState(h, "Off", FALSE)
    <3>1. "Off" \in Keys /\ HoldsKey(h, "Off")' /\ (\A q : HoldsKey(h, q) => q = "Off")
          /\ \A g, q : HoldsKey(g, q) => HoldsKey(g, q)'
      BY <2>8 DEF HoldsKey, Keys, Immediate
    <3>2. CASE SetKeyState(h, "Off", pressed)
      BY <2>3, <2>8, <3>1, <3>2
    <3>3. CASE pressed /\ Untouched
      BY <1>1, <2>4, <2>8, <3>3
    <3> QED
      BY <2>8, <3>2, <3>3
  <2> QED
    BY <2>1, <2>5, <2>6, <2>7, <2>8 DEF Pass
<1> QED
  BY <1>2, <1>3

\* A frame: a step of the queue, if one is due, and what a frame leaves.
LEMMA FrameKeeps ==
  ASSUME KeysInv, Frame
  PROVE  KeysInv'
<1> DEFINE T == [key : Keys, pressed : BOOLEAN, for : {Tap, Idle}]
<1>1. /\ KbType(kb) /\ queue \in Seq(T) /\ holders = [k \in Keys |-> holders[k]]
      /\ Owned(kb, holders, shared) /\ Followed(kb, holders)
      /\ slipped \/ HoldersDown
  BY DEF KeysInv
<1>2. slipped' = slipped /\ hostDown' = hostDown /\ f10IsRocker' = f10IsRocker
  BY DEF Frame
<1>3. ASSUME NEW b, kb' = Advanced(b), KbType(b), Owned(b, holders', shared'), Followed(b, holders'),
             queue' \in Seq(T), holders' = [k \in Keys |-> holders'[k]],
             \A k \in Keys : holders'[k] \ {"queue"} \subseteq holders[k]
      PROVE  KeysInv'
  <2>1. KbType(kb') /\ Owned(kb', holders', shared') /\ Followed(kb', holders')
    BY <1>3, AdvanceOwns
  <2>2. slipped' \/ HoldersDown'
    BY <1>1, <1>2, <1>3 DEF HoldersDown, HoldsKey
  <2> QED
    BY <1>3, <2>1, <2>2 DEF KeysInv, KbType, KbParts, Owned, Followed, Pends, Once
<1>4. CASE ~QueueDue
  <2>1. kb' = Advanced(kb) /\ queue' = queue /\ holders' = holders /\ shared' = shared
    BY <1>4 DEF Frame
  <2> QED
    BY <1>1, <1>3, <2>1
<1>5. CASE QueueDue
  <2>1. PICK k, pressed : k = Head(queue).key /\ pressed = Head(queue).pressed
    OBVIOUS
  <2>2. Head(queue) \in T /\ Tail(queue) \in Seq(T)
    BY <1>1, <1>5, HeadTailProperties DEF QueueDue
  <2>3. k \in Keys /\ pressed \in BOOLEAN
    BY <2>1, <2>2
  <2>4. /\ kb' = Advanced(IF pressed THEN Pressed(kb, k) ELSE Released(kb, k))
        /\ queue' = Tail(queue)
        /\ holders' = [holders EXCEPT ![k] = IF pressed THEN @ \cup {"queue"} ELSE @ \ {"queue"}]
        /\ shared' = IF Contended("queue", k, pressed) THEN shared \cup {k} ELSE shared
    BY <1>5, <2>1 DEF Frame
  <2>5. /\ holders' = [q \in Keys |-> holders'[q]]
        /\ \A q \in Keys : holders'[q] \ {"queue"} \subseteq holders[q]
    BY <1>1, <2>3, <2>4
  <2>6. shared \subseteq shared' /\ (k \in shared' \/ ~Contended("queue", k, pressed))
    BY <2>4
  <2>7. CASE pressed = TRUE
    <3>1. kb' = Advanced(Pressed(kb, k)) /\ holders' = [holders EXCEPT ![k] = @ \cup {"queue"}]
      BY <2>4, <2>7
    <3>2. k \in shared' \/ holders[k] \ {"queue"} = {}
      BY <2>6 DEF Contended
    <3>3. KbType(Pressed(kb, k)) /\ Owned(Pressed(kb, k), holders', shared') /\ Followed(Pressed(kb, k), holders')
      BY ONLY <1>1, <2>3, <2>6, <3>1, <3>2, PressOwns
    <3> QED
      BY ONLY <1>3, <2>2, <2>4, <2>5, <3>1, <3>3
  <2>8. CASE pressed = FALSE
    <3>1. kb' = Advanced(Released(kb, k)) /\ holders' = [holders EXCEPT ![k] = @ \ {"queue"}]
      BY <2>4, <2>8
    <3>2. k \in shared' \/ (holders[k] \ {"queue"} = {} /\ ~Pends(kb.releases, k))
      BY <2>6, <2>8 DEF Contended, ReleasePending, Pends
    <3>3. KbType(Released(kb, k)) /\ Owned(Released(kb, k), holders', shared') /\ Followed(Released(kb, k), holders')
      BY ONLY <1>1, <2>3, <2>6, <3>1, <3>2, ReleaseOwns
    <3> QED
      BY ONLY <1>3, <2>2, <2>4, <2>5, <3>1, <3>3
  <2> QED
    BY <2>3, <2>7, <2>8
<1> QED
  BY <1>4, <1>5

LEMMA KeysInvStep ==
  ASSUME KeysInv, [KeysNext]_keysVars
  PROVE  KeysInv'
<1>1. ASSUME NEW h \in HostKeys, KeyDown(h) PROVE KeysInv'
  <2>1. h \notin hostDown /\ Event(h, TRUE, FALSE)
    BY <1>1 DEF KeyDown
  <2> QED
    BY ONLY KeysInv, h \in HostKeys, <2>1, EventKeeps
<1>2. ASSUME NEW h \in HostKeys, KeyRepeat(h) PROVE KeysInv'
  <2>1. h \in hostDown /\ Event(h, TRUE, TRUE)
    BY <1>2 DEF KeyRepeat
  <2> QED
    BY ONLY KeysInv, h \in HostKeys, <2>1, EventKeeps
<1>3. ASSUME NEW h \in HostKeys, KeyUp(h) PROVE KeysInv'
  <2>1. h \in hostDown /\ Event(h, FALSE, FALSE)
    BY <1>3 DEF KeyUp
  <2> QED
    BY ONLY KeysInv, h \in HostKeys, <2>1, EventKeeps
<1>4. CASE Modifier \/ UNCHANGED keysVars
  <2>1. KeptKeys' /\ holders' = holders
    BY <1>4, UntouchedKeeps DEF Modifier, Untouched, keysVars
  <2>2. queue' = queue /\ slipped' = slipped /\ hostDown' = hostDown /\ f10IsRocker' = f10IsRocker
    BY <1>4 DEF Modifier, keysVars
  <2> QED
    BY <2>1, <2>2 DEF KeysInv, KeptKeys, HoldersDown, HoldsKey
<1>5. CASE Frame
  BY <1>5, FrameKeeps
<1> QED
  BY <1>1, <1>2, <1>3, <1>4, <1>5 DEF KeysNext

\* The machine's keys follow the host's, whatever is tapped, held and released
\* in whatever order and with whatever delay: a key of one source is down while
\* it is held and none is stuck (Bus::setKeyState, the event loop's queue).
THEOREM HostKeysAreFollowed == KeysSpec => []KeysFollowTheHost
<1>1. KeysInv => KeysFollowTheHost
  <2> SUFFICES ASSUME KeysInv PROVE KeysFollowTheHost
    OBVIOUS
  <2>1. \A k \in Keys \ shared : holders[k] # {} => k \in kb.down
    BY DEF KeysInv, Owned
  <2>2. ASSUME ~slipped, NEW k \in kb.down
        PROVE  (holders[k] # {} /\ (holders[k] \ {"queue"}) \subseteq hostDown) \/ ReleasePending(k)
    BY <2>2 DEF KeysInv, KbType, Followed, HoldersDown, Pends, ReleasePending
  <2> QED
    BY <2>1, <2>2 DEF KeysFollowTheHost, NoKeyStuck
<1> QED
  BY <1>1, KeysInvInit, KeysInvStep, PTL DEF KeysSpec

=============================================================================
