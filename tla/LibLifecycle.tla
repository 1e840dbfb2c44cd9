---------------------------- MODULE LibLifecycle ----------------------------
(***************************************************************************)
(* The interface of libvsyncalter (lib/vsyncalter.cpp): vsync_lib_init     *)
(* finds the card's chip, maps its registers, and builds a PHY object for  *)
(* every pipe that is driven; the other calls work on those PHYs;          *)
(* vsync_lib_uninit takes everything down.  Programs initialise and        *)
(* uninitialise it many times in one process (unittest/test_genlock.c).    *)
(*                                                                         *)
(* The state is what outlives a call: the MMIO singleton with the pci      *)
(* device it remembers (os/linux/mmio_linux.cpp), the list of PHYs, and    *)
(* the global tables of PLLs in which a PHY object marks the one it uses.  *)
(* There is no flag of the library's own: INIT and UNINIT do nothing, and  *)
(* IS_INIT asks whether the registers are mapped.                          *)
(***************************************************************************)
EXTENDS Integers, FiniteSetsExt

CONSTANTS
  Cards,      \* device strings a caller may give
  Devices,    \* the pci devices
  NoDevice,
  Target,     \* the device intel_get_pci_device finds for each card
  Rows,       \* the rows of platform_table
  Foreign,    \* the chip of a device that is in no row
  Chip,       \* the row of each device, or Foreign
  FirstRow,   \* TGL, whose list of ids is padded with zeros
  NumPipes,
  Off,        \* a pipe that is turned off, or whose DDI is not in the table
  Routings    \* what a scan may find, for each row of the table

Pipes    == 0 .. (NumPipes - 1)
AllPipes == NumPipes          \* VSYNC_ALL_PIPES
Kinds    == {"combo", "dkl", "c10", "c20"}

\* What TRANS_DDI_FUNC_CTL and the PHY's own registers say of a pipe: the PLL
\* the display uses, whether it is clocked, whether it is a DisplayPort.
Outputs == [kind : Kinds, pll : Nat, live : BOOLEAN, dp : BOOLEAN]

\* The PHY objects a scan may build.
PhyObjects == [pipe : Pipes, kind : Kinds \cup {"m_n"}, pll : Nat, live : BOOLEAN]

ASSUME LibAssumption ==
  /\ NoDevice \notin Devices
  /\ Foreign \notin Rows
  /\ FirstRow \in Rows
  /\ NumPipes \in Nat
  /\ Target \in [Cards -> Devices]
  /\ Chip \in [Devices -> Rows \cup {Foreign}]
  /\ Routings \in [Rows -> SUBSET [Pipes -> Outputs \cup {Off}]]
  /\ Off \notin Outputs

VARIABLES
  mapped,     \* the device whose registers are mapped: IS_INIT
  cached,     \* pci_dev_: the device the singleton remembers
  row,        \* supported_platform
  hasList,    \* phy_enabled_list is not null
  list,       \* the PHY objects on it
  taken,      \* the entries of the PLL tables that are marked as enabled
  hwTs,       \* hardware_ts
  counting,   \* the devices whose timestamp counter has been enabled
  shutdown,   \* lib_client_done
  loop,       \* synchronize_vsync: the PHYs it has yet to program, and so on
  last,       \* history: the last call, its result, whether a fault hit it
  idUnread    \* history: the chip was chosen with the id read as zero

global == <<hwTs, counting, shutdown>>
phys == <<hasList, list, taken>>
libVars == <<mapped, cached, row, phys, global, loop, last, idUnread>>

-----------------------------------------------------------------------------
(* PHY objects.                                                            *)

\* The PHY object for pipe p: M & N replaces the PLL of a DisplayPort.
PhyOf(r, p, mn) ==
  IF mn /\ r[p].dp
  THEN [pipe |-> p, kind |-> "m_n", pll |-> p, live |-> TRUE]
  ELSE [pipe |-> p, kind |-> r[p].kind, pll |-> r[p].pll, live |-> r[p].live]

\* The table entry a PHY object marks: C10 and C20 keep their registers.
Marks(x) == IF x.kind \in {"c10", "c20"} THEN {} ELSE {<<x.kind, x.pll>>}
MarksOf(xs) == UNION {Marks(x) : x \in xs}

Driven(r) == {p \in Pipes : r[p] # Off}

\* The PHY objects the scan has built when it comes to pipe p.
BuiltBefore(r, p, mn) == {PhyOf(r, q, mn) : q \in {q \in Driven(r) : q < p}}

\* The constructor leaves init unset: the clock is off, the registers read as
\* ones, or the PLL already belongs to another pipe's PHY.
Unusable(r, p, mn) ==
  LET x == PhyOf(r, p, mn)
  IN  /\ x.kind \in {"combo", "dkl"}
      /\ ~x.live \/ Marks(x) \cap (taken \cup MarksOf(BuiltBefore(r, p, mn))) # {}

UnusablePipes(r, mn) == {p \in Driven(r) : Unusable(r, p, mn)}

-----------------------------------------------------------------------------

LibInit ==
  /\ mapped = NoDevice /\ cached = NoDevice
  /\ row = FirstRow
  /\ hasList = FALSE /\ list = {} /\ taken = {}
  /\ hwTs = FALSE /\ counting = {} /\ shutdown = FALSE
  /\ loop = [op |-> "none"]
  /\ last = [call |-> "none", result |-> 0]
  /\ idUnread = FALSE

IsInit == mapped # NoDevice

\* The caller is between two calls, and the process is alive.
MayCall == loop.op = "none" /\ last.call # "crash"

Returned(name, result) == last' = [call |-> name, result |-> result]

-----------------------------------------------------------------------------
(* vsync_lib_init.                                                         *)

\* Another card may be asked for: nothing is looked at.
InitAgain ==
  /\ MayCall /\ IsInit
  /\ Returned("init", 0)
  /\ UNCHANGED <<mapped, cached, row, phys, global, loop, idUnread>>

InitNotOpened ==
  /\ MayCall /\ ~IsInit
  /\ Returned("init", 1)
  /\ UNCHANGED <<mapped, cached, row, phys, global, loop, idUnread>>

\* The device get_device_id asks: the one that is remembered, whatever the card,
\* else the card's. The lookup may fail.
Identified(card) ==
  IF cached # NoDevice THEN {cached} ELSE {Target[card], NoDevice}

\* The id of no device is 0, which the padding of the first row matches.
RowOf(dev) == IF dev = NoDevice THEN FirstRow ELSE Chip[dev]

\* A chip in no row of platform_table: its device stays in the singleton.
InitForeign(card) ==
  /\ MayCall /\ ~IsInit
  /\ \E dev \in Identified(card) :
       /\ RowOf(dev) = Foreign
       /\ cached' = dev
  /\ Returned("init", 1)
  /\ UNCHANGED <<mapped, row, phys, global, loop, idUnread>>

\* Variant: a device that could not be mapped is still remembered.
InitNotMapped_Remembers(card) ==
  /\ MayCall /\ ~IsInit
  /\ \E dev \in Identified(card) :
       /\ RowOf(dev) # Foreign
       /\ row' = RowOf(dev)
       /\ cached' = Target[card]
       /\ idUnread' = (dev = NoDevice)
  /\ Returned("init", 1)
  /\ UNCHANGED <<mapped, phys, global, loop>>

\* initialize looks the card up once more; that, or the mapping, fails.
InitNotMapped(card) ==
  /\ MayCall /\ ~IsInit
  /\ \E dev \in Identified(card) :
       /\ RowOf(dev) # Foreign
       /\ row' = RowOf(dev)
       /\ cached' = NoDevice
       /\ idUnread' = (dev = NoDevice)
  /\ Returned("init", 1)
  /\ UNCHANGED <<mapped, phys, global, loop>>

\* find_enabled_phys builds a PHY for every driven pipe.
InitReady(card, mn, ts) ==
  /\ MayCall /\ ~IsInit
  /\ \E dev \in Identified(card) :
       /\ RowOf(dev) # Foreign
       /\ row' = RowOf(dev)
       /\ idUnread' = (dev = NoDevice)
       /\ \E r \in Routings[RowOf(dev)] :
            /\ UnusablePipes(r, mn) = {}
            /\ hasList' = TRUE
            /\ list' = {PhyOf(r, p, mn) : p \in Driven(r)}
            /\ taken' = taken \cup MarksOf(list')
  /\ mapped' = Target[card]
  /\ cached' = Target[card]
  /\ hwTs' = (hwTs \/ ts)
  /\ counting' = IF ts THEN counting \cup {Target[card]} ELSE counting
  /\ Returned("init", 0)
  /\ UNCHANGED <<shutdown, loop>>

\* vsync_lib_uninit: every destructor clears its entry, the registers are
\* unmapped, the singleton goes. left: entries marked by objects in no list yet.
TakeDown(left) ==
  /\ hasList' = FALSE /\ list' = {}
  /\ taken' = taken \ (left \cup MarksOf(list))
  /\ mapped' = NoDevice
  /\ cached' = NoDevice

\* The first PHY that is not usable ends the scan. The destructor of a Dekel
\* PHY clears the entry it did not get, too; that of a combo PHY takes the
\* entry's number from the DDI it was not given, a null pointer.
InitUnusable(card, mn) ==
  /\ MayCall /\ ~IsInit
  /\ \E dev \in Identified(card) :
       /\ RowOf(dev) # Foreign
       /\ row' = RowOf(dev)
       /\ idUnread' = (dev = NoDevice)
       /\ \E r \in Routings[RowOf(dev)] :
            /\ UnusablePipes(r, mn) # {}
            /\ LET p == Min(UnusablePipes(r, mn))
                   x == PhyOf(r, p, mn)
               IN  IF x.kind = "combo"
                   THEN /\ Returned("crash", 1)
                        /\ UNCHANGED <<mapped, cached, phys>>
                   ELSE /\ Returned("init", 1)
                        /\ TakeDown(Marks(x) \cup MarksOf(BuiltBefore(r, p, mn)))
  /\ UNCHANGED <<global, loop>>

\* vsync_lib_uninit, called at any time. Unmapping may fail: the result says so,
\* but nothing is kept. hardware_ts stays, and so does lib_client_done.
Uninit ==
  /\ MayCall
  /\ TakeDown({})
  /\ \E result \in IF IsInit THEN {0, 1} ELSE {0} : Returned("uninit", result)
  /\ UNCHANGED <<row, global, loop, idUnread>>

-----------------------------------------------------------------------------
(* The calls that work on the PHYs.                                        *)

Matching(pipe) == {x \in list : pipe = AllPipes \/ pipe = x.pipe}

\* synchronize_vsync is not initialised, or refuses its arguments.
SyncRefused ==
  /\ MayCall
  /\ Returned("sync", 1)
  /\ UNCHANGED <<mapped, cached, row, phys, global, loop, idUnread>>

\* Variant: whether the library is initialised is not asked.
LoopStart_Unchecked(op, pipe) ==
  /\ MayCall
  /\ loop' = [op |-> op, pipe |-> pipe, todo |-> {}, done |-> {}, failed |-> {}]
  /\ UNCHANGED <<mapped, cached, row, phys, global, last, idUnread>>

\* set_pll_clock goes over the same list, and is content with no match at all.
LoopStart(op, pipe) ==
  /\ MayCall /\ IsInit
  /\ loop' = [op |-> op, pipe |-> pipe, todo |-> Matching(pipe), done |-> {}, failed |-> {}]
  /\ UNCHANGED <<mapped, cached, row, phys, global, last, idUnread>>

\* Variant: the first failure ends the loop.
LoopNext_GivesUp ==
  /\ loop.op # "none" /\ loop.todo # {}
  /\ \E x \in loop.todo :
       /\ \A y \in loop.todo : x.pipe <= y.pipe
       /\ \/ loop' = [loop EXCEPT !.todo = @ \ {x}, !.done = @ \cup {x}]
          \/ loop' = [loop EXCEPT !.todo = {}, !.failed = @ \cup {x}]
  /\ UNCHANGED <<mapped, cached, row, phys, global, last, idUnread>>

\* The next PHY in the order of the pipes is programmed, or fails to be; the
\* others still get their turn.
LoopNext ==
  /\ loop.op # "none" /\ loop.todo # {}
  /\ \E x \in loop.todo :
       /\ \A y \in loop.todo : x.pipe <= y.pipe
       /\ \/ loop' = [loop EXCEPT !.todo = @ \ {x}, !.done = @ \cup {x}]
          \/ loop' = [loop EXCEPT !.todo = @ \ {x}, !.failed = @ \cup {x}]
  /\ UNCHANGED <<mapped, cached, row, phys, global, last, idUnread>>

LoopEnd ==
  /\ loop.op # "none" /\ loop.todo = {}
  /\ Returned(loop.op,
       IF loop.failed # {} \/ (loop.op = "sync" /\ Matching(loop.pipe) = {})
       THEN 1 ELSE 0)
  /\ loop' = [op |-> "none"]
  /\ UNCHANGED <<mapped, cached, row, phys, global, idUnread>>

\* get_pll_clock and get_phy_name answer for one pipe, or not at all.
Ask(pipe) ==
  /\ MayCall
  /\ Returned("ask",
       IF IsInit /\ pipe # AllPipes /\ Matching(pipe) # {} THEN 0 ELSE 1)
  /\ UNCHANGED <<mapped, cached, row, phys, global, loop, idUnread>>

\* shutdown_lib, from a signal handler: any time, even inside a call.
Shutdown ==
  /\ last.call # "crash" /\ ~shutdown
  /\ shutdown' = TRUE
  /\ UNCHANGED <<mapped, cached, row, phys, hwTs, counting, loop, last, idUnread>>

Dead == last.call = "crash" /\ UNCHANGED libVars

LibNext ==
  \/ InitAgain \/ InitNotOpened
  \/ \E card \in Cards : InitForeign(card) \/ InitNotMapped(card)
  \/ \E card \in Cards, mn, ts \in BOOLEAN : InitReady(card, mn, ts)
  \/ \E card \in Cards, mn \in BOOLEAN : InitUnusable(card, mn)
  \/ Uninit
  \/ SyncRefused
  \/ \E op \in {"sync", "set"}, pipe \in Pipes \cup {AllPipes} : LoopStart(op, pipe)
  \/ LoopNext \/ LoopEnd
  \/ \E pipe \in Pipes \cup {AllPipes} : Ask(pipe)
  \/ Shutdown
  \/ Dead

LibSpec == LibInit /\ [][LibNext]_libVars

-----------------------------------------------------------------------------
(* Properties.                                                             *)

LoopTypes ==
  [op : {"none"}] \cup
  [op : {"sync", "set"}, pipe : Pipes \cup {AllPipes}, todo : SUBSET PhyObjects,
   done : SUBSET PhyObjects, failed : SUBSET PhyObjects]

\* Every variable has the type of the global or field it stands for; there is a
\* list exactly while the registers are mapped, and calls use it only then.
TypeOK ==
  /\ mapped \in Devices \cup {NoDevice} /\ cached \in Devices \cup {NoDevice}
  /\ row \in Rows
  /\ hasList \in BOOLEAN /\ list \subseteq PhyObjects
  /\ taken \subseteq (Kinds \cup {"m_n"}) \X Nat
  /\ hwTs \in BOOLEAN /\ counting \subseteq Devices /\ shutdown \in BOOLEAN
  /\ loop \in LoopTypes
  /\ last \in [call : {"none", "init", "uninit", "sync", "set", "ask", "crash"},
              result : {0, 1}]
  /\ idUnread \in BOOLEAN
  /\ hasList <=> IsInit
  /\ loop.op # "none" => IsInit

\* The PHYs are programmed by the table of the chip they are on: the id of one
\* device is never used with the registers of another (mmio_linux.cpp:225-232),
\* unless it could not be read.
OwnChip ==
  IsInit => /\ cached = mapped
            /\ row = Chip[mapped] \/ (idUnread /\ row = FirstRow)

\* The entries marked in the PLL tables are those of the listed PHYs, and each
\* belongs to one of them (dkl.cpp:80, combo.cpp:94).
Exclusive ==
  /\ taken = MarksOf(list)
  /\ \A x, y \in list : x # y => x.pipe # y.pipe /\ Marks(x) \cap Marks(y) = {}

\* A library that is not mapped has kept nothing that a later vsync_lib_init
\* would trip over, whether it failed, was taken down or never was up; what a
\* foreign card leaves behind goes with vsync_lib_uninit.
NothingLeftBehind ==
  ~IsInit => /\ list = {} /\ taken = {}
             /\ cached = NoDevice \/ Chip[cached] = Foreign

Consistent == OwnChip /\ Exclusive /\ NothingLeftBehind

\* A call that goes over the PHYs leaves none out that it was asked for, though
\* others fail (vsyncalter.cpp:475), and a failure is not forgotten.
EveryPhyTried ==
  [][loop.op # "none" /\ loop'.op = "none" =>
       /\ loop.done \cup loop.failed = Matching(loop.pipe)
       /\ loop.failed # {} => last'.result = 1]_libVars

\* What the comment of vsync_lib_init (vsyncalter.cpp:318-320) promises: it
\* returns, with 0 or with 1.
InitReturns == last.call # "crash"

=============================================================================
