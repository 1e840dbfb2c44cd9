# A TLA+ model of SW Genlock

SW Genlock keeps the vblanks of several displays together: a secondary system
measures how late its displays are against those of a primary, runs a display's PLL
a little faster or slower for a while, and puts it back. This directory models the
library that shifts the PLL (`lib/`, `os/linux/`), the programs that measure and decide
(`swgenlock/`), the one that sets a PLL by hand (`pllctl/`) and the demonstration that relies on
the result (`framesync/`).

Every module says which files it stands for; `PROJECT.json` maps every definition to
its lines. Names are the code's where TLA+ allows it.

## 1. The system

| component | state it keeps | operations | hard behaviour | module |
|---|---|---|---|---|
| PHY control, `lib/phy.cpp`, `os/linux/system_platform_linux.cpp` | saved and modified registers, `pll_freq_orig`, `pll_freq_mod`, `used_shift`, `done`, a POSIX timer | `program_phy`, `set_pll_clock`, `reset_phy_regs`, `wait_until_done`, `make_timer` | the timer's signal handler runs on any thread; Ctrl+C makes the waiting thread do the same reset; logging takes a mutex inside the handler | `PllLoan`, implemented by `PhyControl` |
| synchronisation loop, `swgenlock/secondary.cpp` | `g_pipe_stats`, the time of the last synchronisation, the timestamps to capture | `do_pipe_sync`, `perform_synchronization`, `background_task` | a late answer of the primary; the copy of the statistics and the flag shared with the logger; learning | `PipeSync` |
| exchange of timestamps, `swgenlock/primary.cpp`, `connection.cpp` | the collector's rolling buffer, connections, sockets | collect, accept, `do_msg`, `send_msg`, `recv_msg`, Ctrl+C on either side | lost and misdirected frames, closed and reset connections, retries, SIGPIPE, a primary that stops | `VblankExchange` |
| PHY classes, `lib/combo.cpp`, `dkl.cpp`, `dp_m_n.cpp`, `c10.cpp`, `c20.cpp` | the registers; for Dekel the index register | read, clock from dividers, dividers from clock, write modified, write saved | rounding, carries and ranges; an aperture that other PHYs shift | `PhyRegisters` |
| PHYs on the CX0 message bus, `lib/c10.cpp`, `c20.cpp`, `cx0_helper.cpp` | the bus, its acknowledgements, saved and modified bytes | read, write and read-modify-write of a byte with three tries, reset of the bus | late answers, refused commands, silent failures, two contexts on one bus | `Cx0Bus` |
| library interface and device, `lib/vsyncalter.cpp`, `lib/mmio_factory.cpp`, `os/linux/mmio_linux.cpp` | the list of PHYs, `supported_platform`, `lib_client_done`, the marks in the PLL tables, the mapped device | init, scan, synchronise, set, ask, shutdown, uninit, in any order | every step of init may fail, and what was done before it must be undone; globals and a singleton outlive a failure | `LibLifecycle` |
| primary, `swgenlock/primary.cpp`, `sync_common.cpp`, `main.cpp` | the server, `g_monitoring`, `g_collecting`, the monitor thread | start and stop of collector and monitor, accept, `server_close_signal` | a signal handler that joins a thread and deletes what others use, at any point of `main` | `PrimaryProcess` |
| vblank capture, `os/linux/drm_platform_linux.cpp` | one event queue per call | `os_get_vsync` | returns success after an interruption or a time-out, slots unfilled | `PllCtl`; as others meet it, in `VblankExchange`, `PipeSync` and `FrameSync` |
| pllctl, `pllctl/pllctl.cpp` | `pll_clock`, the last measurement, `thread_continue` | adjust, measure, background thread, Ctrl+C | a loop closed over measurements that may be wrong; two threads that capture | `PllCtl` |
| framesync, `framesync/` | the queue of pending updates, `g_shutdown` | announce, receive, present | updates lost or late, threads late, vblanks apart, join at the end | `FrameSync` |
| logging, `lib/debug.cpp` | `log_mutex` | `log_message` | called from signal handlers | in `PhyControl`, `PrimaryProcess`, `PllCtl`, `FrameSync` |
| `vblmon`, scripts, tests | none | | | not modelled |

How they interact. `swgenlock` runs, on a secondary, one thread per pipe. Each iteration
captures vblanks of its display (capture), asks the primary for its own (exchange),
computes the delta and decides (`PipeSync`), and calls `synchronize_vsync` (`PhyControl`),
which programs a PHY (`PhyRegisters`) and sleeps until the handler of a timer has put it
back. All of this shares a process, hence its signals, its `log_mutex` and its end.
On a primary, `main` accepts connections while its collector, its monitor and a handler for each
client run, until a signal takes all of it down (`PrimaryProcess`). `pllctl` is a process of its own
on the same library. Every process initialises the library once and takes it down at its end
(`LibLifecycle`). `framesync` runs beside them and assumes the result: vblanks that are close together.

What makes each part correct: a PHY is always given back exactly as it was found, one
actor at a time works on it, no write moves it further than the monitor bears; a
measurement points to the nearest vblank, a correction brings the displays together and
never apart; an answer is recent, complete and in order; the registers hold what was
asked for; all displays change at one vblank; and everything ends after Ctrl+C.

## 2. The modules

### PllLoan

What the library promises of the clocks, without a thread, a timer or a register: a synchronisation
borrows the clock of one PHY, moves it about, and returns it as it found it; only a learning call
(`Adjust`) changes where the clock is at home; after Ctrl+C what is lent counts as returned, and is
wound down. `PhyControl` implements it (`LoanSpec`): `clock` is the divider register, `home` is
`base`, and a PHY is lent from `read_registers` until the flag is up again (`Borrowed`).

### PhyControl

One state per field of `phys`; `hw` is the divider register, expressed as the clock it
produces. A *context* of a PHY is its thread (`"sync"`) or an activation of its timer's
handler; `pc` says where each is, `plan` is the loop of `set_pll_clock` it is in, and
`host` names the thread a handler has interrupted, which stands still meanwhile. The
steps are those that other contexts can observe: each register write, the flag, the
timer, each place that takes `log_mutex`.

 * `StartSync`, `RefuseSync`, `StartLearning` are the two calls that
   `perform_synchronization` makes; `PrepareStep`, `WriteStep`, `EndSteps` the loop of
   `set_pll_clock`, wherever it runs; `LowerDone`, `MakeTimer`, `StopWaiting` the rest of
   `program_phy` and `wait_until_done`; `Expire` the signal; `DeleteTimer`, `PlanRestore`,
   `WriteOriginal`, `RaiseDone` are `reset_phy_regs`, in a handler or in the thread.
 * The registers are abstracted to a clock that may be off by `MaxLoss` (`Dividers`).
   `PhyRegisters!HoldsTarget` is what justifies it for the classes modelled there.
 * `base` is history: the clock the PHY is to be at between synchronisations.

### PipeSync

The thread of one pipe, with the logger thread it starts for the time of a correction.
The display is a `phase` (how late its vblanks are) and a `drift`. `Capture` runs the code's own
arithmetic on timestamps (`find_minimum_delta`, `find_avg`, `normalize_delta` with C's
remainder) for an answer that is `lag` vblanks late. `stats` and `local` are the shared
statistics and the copy that `do_pipe_sync` works on and stores at the end: the logger's
flag is in the shared one, and is overwritten by the copy.

### VblankExchange

The primary's collector and its handlers, and the pipes of one secondary, over TCP, over raw
frames (PTP mode) or inside one process (pipelock). A connection goes from the listen
queue to open, closed and reset as the kernel's does; the handler closes it after its
answer. A raw socket gets every reply frame that is sent to the secondary. A message fits one segment, so
that partial reads do not occur and are left out. It is assumed that the collector has
pushed a timestamp before the next vblank. `mixed` is history: the pipes whose socket has received an
answer to another pipe.

### PhyRegisters

The five classes, with a small radix instead of 2^14, 2^15, 2^16 or 2^22. C10 and C20 keep the multiplier
and change the quotient, C20 the remainder too; their registers are read and written at once here,
the bus in between is `Cx0Bus`. `Script` is the order in which `program_phy` and `reset_phy_regs` call a class.
Each register access is a step, so that PHYs that share an index register interleave. `disturbed` is
history: the PHYs whose aperture another one shifted in the middle of an operation. What becomes of
them is followed no further, which keeps the search finite in practice.
Reading a Dekel PHY is `Probe` (DIV0), perhaps `Select` (the index register) and `Reread`,
then `ReadBias`; writing is `WriteDiv0` and `WriteBias`. The registers that the code copies
or sets to constants (visa serializer, SSC, DCO, N) are left out.

### Cx0Bus

C10 and C20, whose registers are reached byte by byte over a bus for each lane. `C10Read`,
`C10Program`, `C20Read`, `C20Program` are what the classes do, as sequences of accesses to bytes;
`Send`, `Ack`, `Clear`, `Reset` are an access: the command, the look at the status register, the
flag cleared, and the bus reset after which it is tried again. `Conclude` is what follows: the
write half of a read-modify-write, the next access, or the next operation. The contexts are
`program_phy` in the thread and the reset in the handler or, after Ctrl+C, in the thread. The device
is external: `Answer` and `Refuse`, with what the code's own sequences presuppose (an update
request puts the dividers in effect, two address bytes select a register of the SRAM).

 * The waits for a register read it once (`__intel_wait_for_register_fw`), so the code is never
   held up, and whether a device has answered by then is a matter of its speed. Nor does the code look
   at the flag that says an answer is there. `Reliable` names the devices with which this can work at all:
   those that answer before they are looked at or, for C10, those whose old answers disappear
   with the flag. Of the latter a late answer is met by the next try or by a reset bus.
 * A byte is a set of bits. Of the registers that `read_registers` saves, those that `program_mmio` writes
   back are kept: the quotient and, for C20, the remainder. `program_phy` programs once here; its steps are in
   `PhyControl`. What the dividers are computed to be is open (`Goals`), and in `PhyRegisters`.

### FrameSync

A primary and one secondary, two processes. Time is relative: `left` counts down what each
main thread waits for, updates carry the ticks until their announced time. `Tick` cannot
pass a thread that has been ready for `Latency` ticks, nor an update that is under way for
`MaxDelay` ticks and not yet lost. `CtrlC` is a signal in one of the processes. Mostly (`Interrupted`) it raises
`g_shutdown` and ends the wait of one thread: `get_vsync` or a sleep returns as if it had succeeded. But the
handler logs before it raises the flag: if it strikes a thread inside `log_message`, as it can with `-v info`, that process
is `"stuck"` for good (`Blocked`).

### LibLifecycle

The calls of the library by one caller, in any order and with any device. An action is a way in
which a call can go: `vsync_lib_init` ends as `InitAgain`, `InitNotOpened`, `InitForeign`,
`InitNotMapped`, `InitUnusable` or `InitReady`, each with all that was done and undone before; the
loops over the PHYs are `LoopStart`, `LoopNext` and `LoopEnd`, with one PHY a step. A device is a card
with a chip; a routing says for each pipe which output and which PLL it has, and whether that has a
clock. The marks of the global PLL tables and the singleton of the device are state, since they
outlive the calls. What happens to one PHY inside a call is `PhyControl`.

### PrimaryProcess

The threads of a primary and the activations of `server_close_signal`. `MainWay` and `HandlerWay` are
the two ways to the end, as sequences of the same steps (`Lower`, `JoinMonitor`, `CloseServer`, ...), which
whoever is on the way takes; a handler runs on a thread (`host`), which stands still meanwhile, and a
second signal interrupts the first's. What the other threads use is state: the server, the flags, the
mapped registers, the destroyed globals; a step that uses what is gone may crash the process
(`MonitorCrashes`, `ClientCrashes`, `CollectorCrashes`). What is exchanged is `VblankExchange`.

### PllCtl

`main` of pllctl after its arguments, its background thread, and the captures of both. Time is counted in units in
which a step of the clock is `Step`; the clock is given as the interval it makes, so that a slower
clock is a greater number. A capture (`BeginCapture`, `Vblank`, `SelectTimesOut`) has as many turns
as slots; a turn without a vblank leaves a slot at the end unwritten, and what it holds is `Junk`. A
capture that fails yields 0. `misread` is history: the last measurement was one of those.

 * `phy` is the kind of PHY the display has. `get_pll_clock` calculates from the object's fields without reading the
   registers, so the loop of `-R` starts from the display's clock only where the calculation reads them itself
   (`ReadsClock`: Combo and Dekel). On C20 and M & N it starts from 0 (`ZeroClock`), and every set of a multiple of 0 is
   refused. On C10 the value is undefined: zeroed fields make it 0 / 0 in doubles, converted to an integer;
   the sets that follow move the display to any interval (`SetUnread`).
 * `set_pll_clock` may fail at any time (`SetFails`); `main` does not look, and `pll` moves on.

## 3. What is checked

All runs are complete searches with TLC. A `pass` run shows that its properties hold in every
behaviour of the instance; a `violation` run shows that what a document or a comment says does not.

| run | instance | what it shows |
|---|---|---|
| `phy_two` | two PHYs, handlers on each other's threads, timers that may fail, a thread that may be inside `log_message`; no learning | `TypeOK`; `HandlerIsAwaited`: who is at work on a PHY; `RestoredAtExit`, wherever Ctrl+C strikes, with no timer or handler left |
| `phy_live` | one PHY, learning, every kind of time difference, fairness; timers that work, no thread inside `log_message` | `LoanSpec`: it implements `PllLoan`; `RestoredAfterSync`; `NoLargeJump`: each write within the shift of its call; `WaitsEnd`: `synchronize_vsync` returns and the program ends |
| `phy_log` (violation) | the background thread may be inside `log_message` | `EventuallyRestored` fails |
| `pipe_loop` | period 16, all phases, drifts -1, 0, 3 and learning steps of 2, errors -1, 1, answers up to 6 vblanks late | measurement (`NearestVblank`), decision (`NoHastySync`), correction (`NeverFurtherApart`, `Resyncs`), learning, which stops though it leaves a drift of 1 (`LearningStabilises`), the logger (`LoggerOfOneSync`), the ends (`CorrectionsEnd`) |
| `exchange_all` | two pipes, three transports, a buffer of 2 | `FreshAndComplete`, `KilledOnlyByRefusal`, `WaitsEnd` |
| `registers_all` | two PHYs of each of five kinds, Dekel PHYs on one index register, radix 4 | `TypeOK`: values within their bits; `HoldsTarget`, `RestoredExactly`, `WritesArrive` |
| `cx0_all` | C10 and C20; a device that answers at once and refuses up to three commands, one that refuses none, for C10 one that answers late up to six times; C10 also with thread and handler at it together | `NoForeignByte`: a byte read is the register's; `TriesSuffice`: three tries are enough; `RestoredExactly`: dividers and other bits as before |
| `framesync_all` | frames of 8 ticks, vblanks 1 tick apart either way, latency 1, delay 1, three times ahead, two updates | `Simultaneous`, `NeverFarBehind`, `NoBacklog`; `Ends`: once `g_shutdown` is up the process ends, unless a signal finds a thread inside `log_message` |
| `lib_calls` | cards of two supported chips and one that is not, three pipes, every fault of init, routings with shared and dead PLLs | `TypeOK`; `Consistent`: the PHYs are of the mapped chip, no PLL serves two, nothing is left behind; `EveryPhyTried` |
| `lib_crash` (violation) | the same | `InitReturns` fails |
| `primary_stop` | a collector, a monitor, a client; TCP and raw frames; one or two signals, or an accept that fails | `TypeOK`; `MonitorJoined`; `DiesOnlyIf`: what may die of the shutdown, and of what; `ShutdownEnds` |
| `pll_all` | a display at 60 Hz, 8 intervals up to four steps away, three kinds of PHY, three slots, two captures or sets that go wrong | where `get_pll_clock` reads the registers `Approaches`: every change brings the display closer, and `ConvergedIsTrue`: it is there when the loop ends; on all PHYs `TypeOK`, `CaptureWhileMapped`, `Ends` |

### Bounds, and why they are enough

 * Two PHYs, two pipes: each reads and writes its own state and, besides, what is shared
   by all (the threads that handlers interrupt, `log_mutex`, the index register, the raw
   sockets). Two are enough for one to disturb the other, a third meets no new place.
 * `Handlers = {"h1"}`: one activation of a PHY's handler at a time. A periodic timer can
   expire again before the handler has deleted it; see 5.
 * `MCTimeDiffs`: one that is refused, two that need steps, slower and faster, one that is
   within `--shift` with a timer of whole seconds, and none at all. `MaxLearn = 1` in `phy_live`: one
   learning call and further synchronisations on the clock it leaves.
 * `MaxCount`, `MaxAge`: the counters of `PipeStats` are compared with 1 and 2 only, the age with
   `TimePeriod`.
 * Period 16, threshold 2: every phase occurs, on either side of the half period, and deltas small enough for
   the overshoot as well as too great. A drift of 3, 1 or -1 and a learning step of 2: no sequence of steps makes the drift 0, so
   that only the guard on the age of the last correction can stop the learning. In `pipe_loop` the drift left takes longer
   than `TimePeriod` to be noticed; where it does not the learning never stops (section 5).
 * Buffer of 2, requests for 2 and 1: the buffer overflows, a request is refused while it is
   not filled, and the first iteration asks for more than the later ones, as the code does; in PTP
   mode an answer to the other pipe may be too short, too long or too old.
 * Radix 4 and 4 clocks per fraction: changes below the resolution, over the last fraction, and
   over an integer boundary in both directions.
 * `Cx0Bus`: one shift and its return, all bytes different. Three refusals: two are what three tries
   can bear, and three of one access make it give up; six late answers make two accesses give up. The overlap of thread and handler (`Overlapping`) is bounded
   to a C10 that answers at once and refuses nothing; for C20 see 5.
 * `LibLifecycle`: three pipes, so that two can share a PLL and a third fail after both; two chips,
   so that one card could be taken for the other; calls without a bound, as its state is finite.
 * `PrimaryProcess`: two signals, since a second meets whatever the first's handler has done; one client, since
   clients meet only what is shared by all.
 * `PllCtl`: starts on both sides of the tolerance, of half a step and of whole steps; `MaxIterations`
   is 8 instead of 1000, and two captures or sets may go wrong, which costs four steps: `PllAssumption` says
   that the steps suffice, as 1000 do for 1 % of the interval. A Combo stands for Dekel too, a C20 for M & N.
 * Frames of 8 ticks: the 500 us pause and the skew are a tick each. The times ahead are 2 (less
   than a frame), 10 (the least that is in time) and 18 (over two frames); the interval
   of 9 is sometimes over and sometimes not when the primary looks after a frame (the default is
   16 ms, about a frame). Two updates: one can meet the other. One signal that raises `g_shutdown` in a process: further ones only end
   further waits; one that blocks it may come before or after.

### Fairness

 * `PhyControl`: threads and handlers are scheduled (strongly, because a thread that handlers interrupt again and
   again still runs in between), an armed timer expires, `log_message` returns. Nobody has
   to press Ctrl+C or to start a synchronisation.
 * `PipeSync`: both threads are scheduled. `VblankExchange`: threads are scheduled, the collector's
   too; nothing is assumed of the network, of the primary's life or of the user.
 * `FrameSync`: time passes, threads run, `select` times out after 100 ms. The window of the
   primary is closed when the bound on updates is reached.
 * `PrimaryProcess`: each thread is scheduled where nothing of another's holds it (`WayOut`,
   `LeaveLog`, `StopCollecting`, `MonitorProceeds`); no client has to connect, no report has to come, nobody
   has to send a signal.
 * `PllCtl`: both threads are scheduled, and a display that is on has vblanks; Ctrl+C need not come.

Deadlock is checked except where a system may stop: `PhyControl` with a logger (`phy_two`; it is the
finding of `phy_log`), `VblankExchange` once all threads have ended, `FrameSync`, `PrimaryProcess` and `PllCtl` at their end.

## 4. What is proved

The proofs hold for all values of the constants that satisfy the module's named assumption
(`PhyAssumption`: any number of PHYs, threads and time differences, any shift and loss;
`LibAssumption`: any cards, chips, tables and routings; `PllAssumption`: any display, tolerance, number
of slots and content of them, any kinds of PHY, any step that is less than the window it must hit, and iterations
that suffice; `PipeAssumption`: any display, threshold and counts; `ExchangeAssumption`: any pipes, buffer
and counts that fit it; `PrimaryAssumption`: any clients, command lines and number of signals, their names all
different; `RegisterAssumption`: any PHYs, index registers, divider widths, boot values and changes;
`Cx0Assumption`: any devices, bytes and dividers; `FrameAssumption`: any frame, skews of less than one, times
ahead, interval, pause, latency and delay).

 * `TypeCorrect` (`PhyControl_proofs`): `Spec => []TypeOK`. The invariant is inductive once it
   says that a handler has a host exactly while it runs (`PlacesOK`) and that the loop of
   `set_pll_clock` stays within its steps and, in a handler, is followed by the rest of the reset
   (`LoopsOK`). There is a lemma for each action.
 * `Restored`, `Awaited` and `Saved` (`PhyControl_proofs`): `RestoredAfterSync`, `HandlerIsAwaited` and
   `SavedUntilReset`, under `OneActivation`. None of them is inductive. `OwnershipInv` is: until
   Ctrl+C a PHY belongs to its thread or, while the thread waits with the flag down, to its
   handler. Its parts say where each can be (`ThreadInv`), which copy of the clock is good when
   (`ValueInv`: from `read_registers` until the flag is up again, `orig_val` is the only one) and
   that a timer or a handler exists only while it is waited for (`HandlerInv`). A step of one PHY
   leaves the others `Untouched`; for its own, the lemmas go by the groups of actions.
 * `Implements` (`PhyControl_proofs`): `Spec => LoanSpec`, the refinement, under `OneActivation`. Every
   step of `PhyControl` is a step of `PllLoan` or a stutter: `OwnershipInv` gives the guard of `Borrow` and
   `Return` (the clock is at home), and that whoever else moves a clock moves one that is lent.
 * `LoanSettled` (`PhyControl_proofs`): what `PllLoan` promises, that a clock which is not lent is at home until
   Ctrl+C, follows from `LoanSpec` alone and, with `Implements`, holds of `PhyControl`.
 * `AtExit` (`PhyControl_proofs`): `RestoredAtExit`, which is about the part that the ownership does not reach, after
   Ctrl+C, when the main thread deletes timers that may just have expired. `ResetInv` does not ask who owns a PHY: a clock that
   is not where it was has somebody who is yet to write the saved registers (`Pending`), and these are the
   original ones while anybody is to write them. `HostsOK` says that no thread ends under a handler, `FreedOK` that
   the PHYs outlive threads and handlers. Its hypotheses are what the code needs: one handler of a PHY at a time, no learning
   and no detached thread, since section 5 shows that a learning or a detached thread violates the property.
 * `Gradual` (`PhyControl_proofs`): `NoLargeJump`, under `OneActivation`. `JumpInv` follows the clock through both loops: at
   every step the register is within `MaxLoss` of the clock `Reached` (`OnWay`), before the loop back within
   `MaxLoss` of the one the loop forth has ended at (`Shifted`), and the fields the loop back starts from are those of
   the call (`Programmed`). `Counts` is the lemma on the number of steps, `StepsWithinShare` that on their size, and
   `BackOver` shows that the final write of the saved registers, which is not a step, is within the limit too. The half
   millionth in the limit is what rounding the change to millionths can hide: with a zero shift the loop forth may
   even take its one step, since the change rounds to nothing of the original clock, and the loop back none, since it
   does not of the shifted one. That leaves the step back to the last write.
 * `TypeCorrect` and `AlwaysConsistent` (`PipeSync_proofs`, which holds the proofs about `LibLifecycle` too): `TypeOK` and `Consistent`. The marks are a
   function of the PHYs that exist, which makes `Consistent` inductive together with the types.
 * `AllTried` (`PipeSync_proofs`): `EveryPhyTried`, an action property. `Tried` counts the PHYs of a call as yet to come,
   programmed or failed; it is inductive because the list does not change under a call (`OutsideLoop`).
 * `TypeCorrect` and `OnlyCloser` (`PllCtl_proofs`): `TypeOK` and `Approaches`. `PllInv` adds that a capture never has more
   turns and written slots than slots (`CapturesOK`), and that in the loop a good measurement is off by the jitter
   at most (`AdjustingOK`). `Approaches` is stated for PHYs with `ReadsClock`; there `pll_clock` is the display's clock until a set fails, and a
   step that follows makes up for what was not set, which is why the jump is bounded by both together. `GoodAverage` is the
   lemma on `get_vblank_interval`: the average of full slots is the interval and the error of the last
   one; `AdjustStep` is where the assumption on the step is needed.
 * `Converged` and `Mapped` (`PllCtl_proofs`): `ConvergedIsTrue` and `CaptureWhileMapped`. The measure is `InReach`: the
   display is never further from the target than the iterations that are left can go, less two for each
   capture or set that can still go wrong and for one that is spoilt already (`StepsSure`). When sets have failed,
   `pll_clock` and not the display has moved, by a step for each of them, and that is counted too (`Behind`). A good step uses up one, a step
   after a bad measurement goes one the wrong way at the expense of the two (`AdjustConverge`); when the count ends the
   loop nothing is left to go (`LeaveConverge`).
 * `OneLogger` and `TwoInARow` (`PipeSync_proofs`): `LoggerOfOneSync` and `NoHastySync`. `PipeInv` says that `do_pipe_sync` decides
   on what it has loaded and that a correction works on a copy whose counter is 0 (`CopyOK`), and that the counter
   never exceeds the measurements in a row (`CountOK`). The value of the measurement is not needed.
 * `MeasuresNearest` and `Nearer` (`PipeSync_proofs`): `NearestVblank` and `NeverFurtherApart`. `ClosestPair` is the lemma on
   `find_minimum_delta`: it names the pair at which the search of all pairs in their order ends. `AverageIs` and `NormalizeNearest`
   are those on `find_avg` and on the normalisation, and `Measured` puts them together. The hypothesis
   `Covered` says that an answer is at most `N_EXTRA` + 1 vblanks late; section 5 shows what happens
   to a later one. `Nearer` has the further hypothesis that the overshoot is at most the delta itself, the
   range that `swgenlock/main.cpp:171` documents: `NotFurther` is the step from the delta to the distance.
 * `Fresh` and `RefusalOnly` (`VblankExchange_proofs`): `FreshAndComplete` and `KilledOnlyByRefusal`. `ExchangeInv` follows
   a request and its answer along the way: the buffer ends with the last vblank collected or a later one (`BufferOK`);
   at most one request is on the way, or its answer (`RequestOK`, `AnswerOK`); a primary that is up ends
   a connection it has not refused only after its answer (`ClosedOK`); and an answer in a socket that no answer to
   another pipe has reached has the count this request asked for and what was collected when it asked (`Good`).
 * `TypeCorrect`, `Joined` and `SingleSignal` (`PrimaryProcess_proofs`): `TypeOK`, `MonitorJoined` and `DiesOnlyIf`. The
   argument of `PrimaryInv` is that main stands still from the moment a handler runs on it, so that until a second
   signal the program is one thread that goes first main's way and then the handler's: `MainOK` and `HandlerOK` say
   for each place on the way what has been lowered, joined, closed and deleted, `ServerOK` the same from the side
   of the server's state. After a second signal two handlers run over each other's objects, and only the
   types and the places hold, which is why both properties stop there.
 * `Restored`, `Held`, `Arrive` and `TypeCorrect` (`PhyRegisters_proofs`): `RestoredExactly`, `HoldsTarget`, `WritesArrive` and
   `TypeOK`. `RegisterInv` says of a thread that nobody has disturbed what it knows at each place (`PlaceOK`: the
   aperture is its own, DIV0 as read is that of its own PLL) and after each operation (`DoneOK`). The lemmas on division
   and rounding bring `Held` down to linear arithmetic: `ClockIs` is a clock as its dividers, `CutHolds`, `DklHolds`,
   `C10Holds` and `C20Holds` are the tolerances of the kinds. `TypeCorrect` has the hypothesis `ClocksFit`, that the clocks asked for
   fit the integer divider: Combo and M & N put the integer into the register without a mask, and a clock
   beyond it would reach the neighbouring bits. The other three do not need it.

 * `OwnAnswers`, `ThreeTries` and `RestoredInTheEnd` (`Cx0Bus_proofs`): `NoForeignByte`, `TriesSuffice` and `RestoredExactly`.
   The first two follow from `TransactionInv`: on a bus that a context has to itself a command under way is its own, an
   answer is the answer to it or nothing at all, the other lane is quiet, and each try but the first has cost a refusal
   (`TransactionOK`, `TriesOK`). `ProgressInv` says for each access what those before it have done: which saved bytes are
   good (`HasRead`), which are back in the registers (`HasRestored`), and that a byte about to be written keeps the bits that
   are not the code's (`ByteOK`); `C10Table` and its like take the accesses one by one. With two
   contexts on the bus neither holds: `CalmInv` says that no read-modify-write finds the request for an
   update set already (`NoUpdateLeft`), so that each of the two asks for the last update by a write of its own, and
   that whatever either writes to a quotient in the meantime is the saved byte (`HandlerOK`). The hypothesis of
   `RestoredInTheEnd`, that no two contexts restore a C20 at once, is needed: see section 5.
 * `ShownTogether` and `NothingPiles` (`FrameSync_proofs`): `Simultaneous` and `NoBacklog`. While both processes run a
   step is one of the primary, of the secondary, of the network or of time (`Steps`). `Separate` is what holds of a
   display by itself: how a thread's place in its loop goes with its clock and its lateness. `TogetherInv` relates the
   two. Its measure is `Due`, the ticks to the announced time, which each part compares with where the primary is in its frame:
   the announcement reaches the queue and the secondary looks there before the time (`FlightOK`, `QueueOK`), both wake in
   the same frame (`WakeOK`), the next time is not announced before this one is over (`PaceOK`), and whoever shows it
   first is less than the skew and a latency ahead (`FrontOK`). `InTime` gives the first, `BetweenVblanks` that
   the two wake between the same vblanks.
 * `NeverFar` (`FrameSync_proofs`): `NeverFarBehind`, for any time ahead. `LateInv` follows an update that may already be due
   when it arrives: until it is taken (`SentOK`, `TakenOK`), slept for (`AsleepOK`) and shown at the next vblank (`ShowOK`), with
   `BehindOK` for how far behind that leaves the display. The hypothesis is `Prompt`: skew, pause, delay and two
   latencies are less than a frame. Without it the property fails: with frames of 3 ticks and a delay of 3 TLC finds an
   update that arrives so late that the next vblank is more than a frame behind the primary's.
 * `TypeCorrect` (`FrameSync_proofs`): `TypeOK`, which no run checks.

Only model-checked: liveness, which the prover does not reach (`WaitsEnd` twice, `Ends` twice, `CorrectionsEnd`,
`Resyncs`, `LearningStabilises`, `ShutdownEnds`). Every invariant and every action property of a passing run is
stated by a theorem, some under the hypotheses named above.

Nothing is proved about what a recursive definition computes; the proved modules have none.

## 5. What the models show of the code

Disagreements with a document or a comment, each with a run (`findings` in `PROJECT.json`):

 1. `phy_log`: `INFO` in the handler deadlocks on a thread interrupted inside `log_message`.
 2. `lib_crash`: two pipes on one combo PLL, or a combo PHY without a clock, make `vsync_lib_init` crash in the
    destructor of the PHY that could not be built.

Without a run of their own; the constant or the conjunct to change is named where the models show it:

 * A learning step that leaves a drift which `-d` notices within `time_period` is turned round at every correction, for
   ever, in spite of `README.md:268` (`TimePeriod = 6` violates `LearningStabilises`). With the default step of 1 ppm, 100 us
   and 480 s that is a drift between 0.21 and 0.79 ppm; a step of at most 0.2 ppm avoids it.
 * The signal handler of framesync logs before it raises `g_shutdown`: with the `-v info` of `docs/framesync.md:709` a Ctrl+C that strikes
   a thread inside `log_message` never ends the process, in spite of `docs/framesync.md:250` (`Ends` excuses it as `"stuck"`).
 * `pllctl -R` starts from a clock of 0 on C20 and M & N PHYs, since `get_pll_clock` reads no registers (`lib/phy.cpp:348`): every set is refused
   (`lib/phy.cpp:240`) and the loop runs to its count without effect, in spite of `pllctl.cpp:117` (without `ReadsClock`,
   `ConvergedIsTrue` fails). On a C10 it starts from an undefined clock. The result of `set_pll_clock` is ignored on any PHY
   (`pllctl.cpp:306`).
 * Ctrl+C in the middle of a reset, followed by the learning call of `swgenlock/secondary.cpp:258`, leaves a
   shifted clock behind, in spite of `lib/phy.cpp:221` (`LearningRate = 20` in `phy_two` violates `RestoredAtExit`):
   the learning call re-reads the registers half way back.
 * With the overshoot a delta may exceed the limit of 20 ms; `synchronize_vsync` refuses it, nobody looks at
   the result, and it repeats for ever, in spite of `docs/swgenlock.md:143` (`Period = 33` with `Learning = 0` violates `Resyncs`).
 * In PTP mode each pipe's raw socket receives every reply, and a reply names neither pipe nor request: a pipe may
   take another's answer, too old or too short (`FreshAndComplete` fails without `c \in mixed`), in
   spite of `swgenlock/secondary.cpp:60`.
 * An index register serves four Dekel PHYs and is written as a whole: a PHY that does so in the middle of
   another's operation makes that read 0 again after it has shifted its aperture, in spite of `lib/dkl.cpp:294`
   (`HoldsTarget` and `WritesArrive` fail without `disturbed`, in their bounds and in `Step`).
 * The collector thread is never joined before `vsync_lib_uninit` in pipelock mode; a handler that
   runs on it may outlive the PHYs (`Detached = {collector}` violates `RestoredAtExit`).
 * A timer that cannot be created leaves `synchronize_vsync` waiting for Ctrl+C
   (`TimerMayFail = TRUE` violates `WaitsEnd`): the result of `os_make_timer` is not used.
 * The interval of the timer is the millisecond part of the expiry time. A second activation of the
   handler can begin before the first has deleted the timer and end after the next synchronisation has
   begun (`Handlers = {"h1", "h2"}` in an instance like `phy_live` violates `HandlerIsAwaited`).
 * After Ctrl+C the clock goes back at once, not gradually: the loop of `set_pll_clock` looks at
   `lib_client_done`. `NoLargeJump` is therefore stated while the program runs.
 * `sync_count` counts corrections that were refused, so learning may start without one.
 * `N_EXTRA` is 5 where the comment at `swgenlock/secondary.cpp:60` says 10: `MCTenLags`
   instead of `MCCoveredLags` violates `NearestVblank`.
 * A request that comes before the buffer holds enough timestamps is refused by closing the
   connection; the client sends again on it, and SIGPIPE ends the secondary, other pipes' clocks still
   shifted (the exception in `KilledOnlyByRefusal`).
 * In PTP mode a lost frame is waited for until Ctrl+C (that a capture ends is stated for TCP).
 * Between the writes of DIV0 and BIAS a Dekel PLL runs with the new integer and the old fraction.
 * framesync: `schedule_ahead_ms` is 16 in `demo_common.h:65`, 33 in the usage text and in
   `docs/framesync.md`. The formula there, ahead greater than latency plus processing time, is not
   enough: the secondary looks into its queue once a frame only, so that an update must be a frame
   earlier (`InTime`); below that it shows each colour a frame late. And an announced time that falls
   between the two displays' vblanks separates them by a frame (`BetweenVblanks`).
 * C10 and C20 never change the multiplier: a clock beyond the quotient's range wraps by a whole step, and a C20 quotient
   that is rounded up leaves a negative remainder, which becomes the greatest. `HoldsTarget` is stated for
   the clocks in range (`Reachable`), and for C20 with a unit more of tolerance; with a denominator
   between 1 and 65535 that greatest remainder would be many units.
 * C10 and C20: the message bus takes whatever the status register holds for the answer. A C20 that answers
   late is silently left with other dividers (uncommitted writes are never waited for: without `Reliable`,
   `RestoredExactly` fails); one whose cleared answers can still be read gives a byte of another register
   (`NoForeignByte` fails). A read that is given up is 0, and a read-modify-write then clears the register's
   other bits; `program_mmio` reports success in every case.
 * C20 after Ctrl+C: address and data are written in separate accesses, so a handler and the thread that restore
   at the same time mix them, and a register gets the other's data, even on a faultless device
   (`Overlapping = {"c20"}` violates `RestoredExactly`). With C10, which has no address bytes, it holds.
 * The library: `set_pll_clock` returns 0 when no PHY has the pipe; `vsync_lib_init` of another card while one is mapped
   returns 0 and changes nothing; the device that a failed init has found stays in the singleton until uninit;
   `hardware_ts` is never reset.
 * The primary: the handler joins the monitor, so it waits for ever if it interrupted `main` inside
   `log_message` while the monitor needs the lock (`Stuck`); it deletes the server under the clients' handlers, and `exit`
   destroys what the detached collector still pushes to (`DiesOnlyIf`). `g_collecting` is raised by the collector
   itself, so a stop before it runs is undone, and nobody joins it (the comment at `primary.cpp:101`). When the monitor gives up early
   `g_monitoring` stays true; its stop works all the same. A second Ctrl+C may abort the process.
 * pllctl: `-R` and `-f` change the clock in spite of `--no-commit`, which the usage text describes as a
   dry run. The comments at `pllctl.cpp:295` have slower and faster the wrong way round (the mutant of `Approaches`); the
   code is right. "Converged" is also printed after Ctrl+C, and the warning that it did not converge when the last
   step did. A failed capture counts as 0 and costs a step the wrong way and one back; a slot nobody wrote makes
   any number. Where a step is wider than the window, below about 50 Hz, the loop hunts around the target until
   the count ends it. If the thread cannot be created `main` returns with the library as it is.
 * Documented defaults that differ: `time_period` 240 and 480 (`swgenlock/main.cpp:203`),
   `learning_rate` 0.0 and 0.0001 (`main.cpp:207`).

## 6. What is not modelled

 * C20 with a denominator other than the greatest, and without its fraction enabled; C20 on MPLLA, where the code never
   fills `frac_quot`, `frac_rem` and `frac_den` (`c20.cpp:268-297`) and calculates the clock without them; the registers C10 and C20 only read.
 * The memory that a signal handler must not allocate or free (`log_message`, `delete` and `exit` inside one): undefined
   behaviour whose outcomes the sources do not bound.
 * Listing connectors, printing and the pipe of a connector: queries of the DRM device without state.
 * Argument parsing, formatting, log levels, csv files, the platform tables: text and data.
 * Drawing and the window of framesync; `vblmon`, which prints intervals; scripts and tests.
   `SDL_RENDERER_PRESENTVSYNC` (`renderer.cpp:85`) may make the present itself wait for a vblank; in `FrameSync` it takes no
   longer than a thread's latency.

## 7. Plan

The modules of section 2 are done. What would come next, in this order:

 1. `Genlock`: `PipeSync` composed with `PllLoan`, so that the phase moves by what the shifted clock
    did in the time the timer gave it, and a missed vblank in a capture reaches the measurement.
 2. A run for the C20 overlap of section 5; other denominators of C20.
