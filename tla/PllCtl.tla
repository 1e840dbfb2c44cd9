------------------------------- MODULE PllCtl -------------------------------
(***************************************************************************)
(* pllctl (pllctl/pllctl.cpp): the program that sets one display's PLL by  *)
(* hand - to a clock, to a refresh period it approaches in small steps, or *)
(* by shifting the vblank once - while a thread prints the display's       *)
(* vblank interval, and the captures of vblanks that both make             *)
(* (get_vblank_interval, get_vsync, os_get_vsync).                         *)
(*                                                                         *)
(* A capture takes one timestamp per turn of its loop; a turn in which     *)
(* select times out or is interrupted takes none, and in the end the call  *)
(* succeeds with slots at the end of the array that nobody has written.    *)
(*                                                                         *)
(* Times are integers, in a unit in which the display's interval changes   *)
(* by Step when its clock changes by 0.001 %.  The clock is given as the   *)
(* interval it makes.  What synchronize_vsync does meanwhile is in         *)
(* PhyControl.                                                             *)
(*                                                                         *)
(* Where the loop of -R starts depends on the PHY: get_pll_clock           *)
(* calculates from what the object of the PHY holds, and nobody has read   *)
(* the registers yet.                                                      *)
(***************************************************************************)
EXTENDS Integers

CONSTANTS
  RefreshPeriod,   \* the interval asked for with -R
  Tolerance,       \* TOLERANCE: 0.1 us
  Step,            \* what SMALL_INCREMENT makes of the interval
  Jitter,          \* how far an average of good timestamps may be off
  MaxIterations,
  Intervals,       \* the display's interval when the program starts
  Phys,            \* the kinds of PHY the display may have
  Slots,           \* how many timestamps a capture asks for
  Junk,            \* what a slot may hold that nobody has written
  MaxFaults        \* bounds the captures that fail or miss a vblank, and the sets that fail

Distance(a, b) == IF a < b THEN b - a ELSE a - b

PhyTypes == {"COMBO", "DKL", "C10", "C20", "M_N"}

ASSUME PllAssumption ==
  /\ {RefreshPeriod, Tolerance, Step, Jitter, MaxFaults} \subseteq Nat
  /\ MaxIterations \in Nat \ {0} /\ Slots \in Nat \ {0, 1}
  /\ Intervals \subseteq Nat /\ Junk \subseteq Int /\ Phys \subseteq PhyTypes
  \* A step is less than the window it must hit: displays above 50 Hz.
  /\ Step < 2 * (Tolerance - Jitter)
  \* The steps suffice, though a bad capture costs one the wrong way and one back, and
  \* a set that fails makes a later one jump too far.
  /\ \A i \in Intervals :
       Distance(i, RefreshPeriod) <= Tolerance - Jitter + Step * (MaxIterations - 2 * MaxFaults)

VARIABLES
  way,         \* what the command line asks for
  commit,      \* whether there is a background thread (no --no-commit)
  phy,         \* phy_type of the display's PHY
  pc,          \* where the two threads are
  cap,         \* the capture each is in: turns to go, slots written
  interval,    \* the display's
  pll,         \* pll_clock, which the loop adjusts
  measured,    \* vblank_interval
  iteration,
  continue,    \* thread_continue
  shutdown,    \* lib_client_done
  mapped,      \* the library is initialised
  deadlocked,  \* the handler waits for the log_mutex its own thread holds
  faults,      \* how many captures and sets have gone wrong so far
  misread      \* history: the last measurement was of such a capture

loop  == <<pll, measured, iteration, misread>>
stops == <<continue, shutdown, mapped, deadlocked>>
vars  == <<way, commit, phy, pc, cap, interval, loop, stops, faults>>

Threads == {"main", "background"}
NoCapture == [left |-> 0, filled |-> 0]

At(t, place) == pc[t] = place /\ (t = "main" => ~deadlocked)
Goto(t, place) == pc' = [pc EXCEPT ![t] = place]

Init ==
  /\ way \in {"frequency", "refresh", "delta"} /\ commit \in BOOLEAN /\ phy \in Phys
  /\ pc = [t \in Threads |-> IF t = "main" THEN "init" ELSE "none"]
  /\ cap = [t \in Threads |-> NoCapture]
  /\ interval \in Intervals
  /\ pll = interval /\ measured = 0 /\ iteration = 0 /\ misread = FALSE
  /\ continue = TRUE /\ shutdown = FALSE /\ mapped = FALSE /\ deadlocked = FALSE
  /\ faults = 0

-----------------------------------------------------------------------------
(* get_vblank_interval and the capture it makes.                           *)

\* The array after a capture: a slot that is not written holds anything.
Stamps(filled, error, junk) ==
  [k \in 1 .. Slots |->
    IF k > filled THEN junk ELSE k * interval + (IF k = Slots THEN error ELSE 0)]

\* The average of the differences is that of the ends.
Average_BySize(stamps) == (stamps[Slots] - stamps[1]) \div Slots
Average(stamps) == (stamps[Slots] - stamps[1]) \div (Slots - 1)

Readings(filled) ==
  {Average(Stamps(filled, e * (Slots - 1), j)) : e \in -Jitter .. Jitter, j \in Junk}

\* A thread that has read interval m, well or not, goes on; what the background
\* thread reads, and main in the end, is only printed.
Read(t, m, ill) ==
  IF At("main", "measure") /\ t = "main"
  THEN /\ measured' = m /\ misread' = ill
       /\ Goto("main", "loop")
       /\ UNCHANGED <<pll, iteration>>
  ELSE Goto(t, IF t = "main" THEN "uninit" ELSE "check") /\ UNCHANGED loop

Capturing == {"measure", "final"}

\* drmWaitVBlank queues the first event.
BeginCapture(t) ==
  /\ \E place \in Capturing : At(t, place)
  /\ cap[t].left = 0
  /\ cap' = [cap EXCEPT ![t] = [left |-> Slots, filled |-> 0]]
  /\ UNCHANGED <<way, commit, phy, pc, interval, loop, stops, faults>>

\* No card, or no vblanks to wait for.  0.0 stands for an error.
CaptureFails(t) ==
  /\ \E place \in Capturing : At(t, place)
  /\ faults < MaxFaults /\ faults' = faults + 1
  /\ Read(t, 0, TRUE)
  /\ cap' = [cap EXCEPT ![t] = NoCapture]
  /\ UNCHANGED <<way, commit, phy, interval, stops>>

\* vblank_handler writes a slot and queues the next event.
Vblank(t) ==
  /\ \E place \in Capturing : At(t, place)
  /\ cap[t].left > 0
  /\ IF cap[t].left > 1
     THEN /\ cap' = [cap EXCEPT ![t].left = @ - 1, ![t].filled = @ + 1]
          /\ UNCHANGED <<pc, loop>>
     ELSE /\ \E m \in Readings(cap[t].filled + 1) : Read(t, m, cap[t].filled + 1 < Slots)
          /\ cap' = [cap EXCEPT ![t] = NoCapture]
  /\ UNCHANGED <<way, commit, phy, interval, stops, faults>>

\* A turn without a vblank, because select timed out or was interrupted.
Missed(t) ==
  /\ \E place \in Capturing : At(t, place)
  /\ cap[t].left > 0
  /\ IF cap[t].left > 1
     THEN /\ cap' = [cap EXCEPT ![t].left = @ - 1]
          /\ UNCHANGED <<pc, loop>>
     ELSE /\ \E m \in Readings(cap[t].filled) : Read(t, m, TRUE)
          /\ cap' = [cap EXCEPT ![t] = NoCapture]

SelectTimesOut(t) ==
  /\ faults < MaxFaults /\ faults' = faults + 1
  /\ Missed(t)
  /\ UNCHANGED <<way, commit, phy, interval, stops>>

-----------------------------------------------------------------------------
(* main.                                                                   *)

InitLib_AlwaysThreads ==
  /\ At("main", "init")
  /\ \/ mapped' = TRUE /\ Goto("main", "create")
     \/ Goto("main", "done") /\ UNCHANGED mapped
  /\ UNCHANGED <<way, commit, phy, cap, interval, loop, continue, shutdown, deadlocked, faults>>

InitLib ==
  /\ At("main", "init")
  /\ \/ mapped' = TRUE /\ Goto("main", IF commit THEN "create" ELSE way)
     \/ Goto("main", "done") /\ UNCHANGED mapped
  /\ UNCHANGED <<way, commit, phy, cap, interval, loop, continue, shutdown, deadlocked, faults>>

\* Without the thread main returns at once, the library as it is.
CreateThread ==
  /\ At("main", "create")
  /\ \/ pc' = [pc EXCEPT !["main"] = way, !["background"] = "check"]
     \/ Goto("main", "done")
  /\ UNCHANGED <<way, commit, phy, cap, interval, loop, stops, faults>>

\* set_pll_clock: its loop takes no step once the library is shut down.
SetClock(clock) == interval' = IF shutdown THEN interval ELSE clock

\* It refuses when what it reads from the registers gives no clock, and nobody looks
\* at the result.
SetFails ==
  /\ faults < MaxFaults /\ faults' = faults + 1
  /\ UNCHANGED interval

SetFrequency ==
  /\ At("main", "frequency")
  /\ \/ (\E clock \in Intervals : SetClock(clock)) /\ UNCHANGED faults
     \/ SetFails
  /\ Goto("main", "stop")
  /\ UNCHANGED <<way, commit, phy, cap, loop, stops>>

Synchronize ==
  /\ At("main", "delta") /\ Goto("main", "stop")
  /\ UNCHANGED <<way, commit, phy, cap, interval, loop, stops, faults>>

\* calculate_pll_clock of these two reads the registers for itself.
ReadsClock == phy \in {"COMBO", "DKL"}

\* That of these two gives 0, from fields that nobody has filled yet.
ZeroClock == phy \in {"C20", "M_N"}

\* pll_clock is the display's clock - or else 0, or on a C10 what is made of 0 / 0.
StartAdjusting ==
  /\ At("main", "refresh") /\ Goto("main", "measure")
  /\ pll' = IF ReadsClock THEN interval ELSE 0
  /\ UNCHANGED <<way, commit, phy, cap, interval, measured, iteration, misread, stops, faults>>

Unfinished ==
  /\ Distance(measured, RefreshPeriod) > Tolerance
  /\ iteration < MaxIterations /\ continue

\* A longer interval is made by a slower clock.
Adjusted_AsCommented(p, m) == IF RefreshPeriod - m > 0 THEN p - Step ELSE p + Step
Adjusted(p, m) == IF RefreshPeriod - m > 0 THEN p + Step ELSE p - Step

\* No multiple of 0 is a clock that set_pll_clock takes; what it makes of the one that
\* is undefined is not defined either.
SetUnread ==
  /\ IF ZeroClock \/ shutdown THEN UNCHANGED interval ELSE interval' \in Intervals \cup {interval}
  /\ UNCHANGED <<pll, faults>>

Adjust ==
  /\ At("main", "loop") /\ Unfinished
  /\ iteration' = iteration + 1
  /\ IF ReadsClock
     THEN /\ pll' = Adjusted(pll, measured)
          /\ (SetClock(pll') /\ UNCHANGED faults) \/ SetFails
     ELSE SetUnread
  /\ Goto("main", "measure")
  /\ UNCHANGED <<way, commit, phy, cap, measured, misread, stops>>

\* What main says of it: "Converged", whenever fewer than MaxIterations were made.
LeaveLoop ==
  /\ At("main", "loop") /\ ~Unfinished
  /\ Goto("main", "stop")
  /\ UNCHANGED <<way, commit, phy, cap, interval, loop, stops, faults>>

Stop_LeavesThread ==
  /\ At("main", "stop")
  /\ continue' = FALSE /\ Goto("main", "uninit")
  /\ UNCHANGED <<way, commit, phy, cap, interval, loop, shutdown, mapped, deadlocked, faults>>

Stop_Silent ==
  /\ At("main", "stop")
  /\ Goto("main", IF commit THEN "join" ELSE "uninit")
  /\ UNCHANGED <<way, commit, phy, cap, interval, loop, stops, faults>>

Stop ==
  /\ At("main", "stop")
  /\ continue' = FALSE /\ Goto("main", IF commit THEN "join" ELSE "uninit")
  /\ UNCHANGED <<way, commit, phy, cap, interval, loop, shutdown, mapped, deadlocked, faults>>

Join ==
  /\ At("main", "join") /\ pc["background"] = "done"
  /\ Goto("main", "final")
  /\ UNCHANGED <<way, commit, phy, cap, interval, loop, stops, faults>>

Uninit ==
  /\ At("main", "uninit")
  /\ mapped' = FALSE /\ Goto("main", "done")
  /\ UNCHANGED <<way, commit, phy, cap, interval, loop, continue, shutdown, deadlocked, faults>>

-----------------------------------------------------------------------------
(* background_task, and Ctrl+C.                                            *)

BackgroundStep ==
  /\ At("background", "check") /\ pc["main"] # "done"
  /\ Goto("background", IF continue THEN "measure" ELSE "done")
  /\ UNCHANGED <<way, commit, phy, cap, interval, loop, stops, faults>>

\* terminate_signal runs on main.  Its last act is to log: if main was inside
\* log_message - with -v trace that is nearly anywhere - it waits for ever.  Else it
\* interrupts select.
CtrlC ==
  /\ mapped /\ ~shutdown /\ pc["main"] # "done"
  /\ continue' = FALSE /\ shutdown' = TRUE
  /\ \/ /\ pc["main"] # "join" /\ deadlocked' = TRUE
        /\ UNCHANGED <<pc, cap, loop>>
     \/ /\ UNCHANGED deadlocked
        /\ IF cap["main"].left > 0 THEN Missed("main") ELSE UNCHANGED <<pc, cap, loop>>
  /\ UNCHANGED <<way, commit, phy, interval, mapped, faults>>

MainStep ==
  \/ InitLib \/ CreateThread \/ SetFrequency \/ Synchronize \/ StartAdjusting
  \/ Adjust \/ LeaveLoop \/ Stop \/ Join \/ Uninit

CaptureStep(t) == BeginCapture(t) \/ Vblank(t)

Next ==
  \/ MainStep \/ BackgroundStep \/ CtrlC
  \/ \E t \in Threads : CaptureStep(t) \/ CaptureFails(t) \/ SelectTimesOut(t)

Spec == Init /\ [][Next]_vars

\* Threads are scheduled and displays that are on have vblanks.
FairSpec ==
  /\ Spec /\ WF_vars(MainStep) /\ WF_vars(BackgroundStep)
  /\ \A t \in Threads : WF_vars(CaptureStep(t))

-----------------------------------------------------------------------------
(* Properties.                                                             *)

Places == {"init", "create", "frequency", "refresh", "delta", "measure", "loop", "stop",
           "join", "final", "uninit", "done", "none", "check"}

PcOK ==
  /\ pc \in [Threads -> Places]
  /\ pc["main"] \notin {"none", "check"}
  /\ pc["background"] \in {"none", "check", "measure", "done"}
  /\ pc["main"] = "create" \/ pc["background"] # "none" => commit

LoopTypes ==
  /\ pll \in Int /\ measured \in Int
  /\ iteration \in 0 .. MaxIterations /\ misread \in BOOLEAN

TypeOK ==
  /\ way \in {"frequency", "refresh", "delta"} /\ commit \in BOOLEAN /\ phy \in PhyTypes
  /\ PcOK
  /\ cap \in [Threads -> [left : 0 .. Slots, filled : 0 .. Slots]]
  /\ interval \in Int /\ LoopTypes
  /\ continue \in BOOLEAN /\ shutdown \in BOOLEAN
  /\ mapped \in BOOLEAN /\ deadlocked \in BOOLEAN
  /\ faults \in 0 .. MaxFaults

\* Where get_pll_clock gives the display's clock: each change that follows a good
\* measurement brings the display's interval closer to the one asked for (the loop of
\* main with -R), and none jumps further than a step and what failed sets have left
\* undone - which may then be too far.
Approaches ==
  [][interval' # interval /\ way = "refresh" /\ ReadsClock =>
       /\ Distance(interval', interval) <= Step + Distance(pll, interval)
       /\ \/ misread \/ pll # interval
          \/ Distance(interval', RefreshPeriod) < Distance(interval, RefreshPeriod)]_vars

\* The display has the interval asked for, unless Ctrl+C has ended the loop or its last
\* capture was a bad one.
Achieved ==
  \/ shutdown \/ misread
  \/ Distance(interval, RefreshPeriod) <= Tolerance + Jitter

LoopLeft == way = "refresh" /\ pc["main"] \in {"stop", "join", "final", "uninit"}

\* When main leaves the loop, the display has the interval asked for, whatever captures
\* and sets went wrong before - where get_pll_clock gives the display's clock.
ConvergedIsTrue == LoopLeft /\ ReadsClock => Achieved

\* The library is there as long as a thread may be capturing (pthread_join before
\* vsync_lib_uninit): with -H a capture reads the mapped registers.
CaptureWhileMapped ==
  pc["background"] \in Capturing \/ pc["main"] \in Capturing => mapped

\* pllctl ends, of itself or by Ctrl+C, unless that caught main inside log_message.
Ends == <>(pc["main"] = "done" \/ deadlocked)

=============================================================================
