----------------------------- MODULE PhyControl -----------------------------
(***************************************************************************)
(* How libvsyncalter shifts the PLL clock of a PHY for a while and puts it *)
(* back (lib/phy.cpp), driven by the per-pipe threads of swgenlock.        *)
(*                                                                         *)
(* One synchronisation of PHY p is: read the registers, move the clock to  *)
(* a shifted value in steps, arm a POSIX timer, poll a flag.  When the     *)
(* timer expires its signal handler, which runs on ANY thread of the       *)
(* process, deletes the timer, steps the clock back, rewrites the saved    *)
(* registers and raises the flag.  Ctrl+C makes the polling thread do the  *)
(* same reset itself, perhaps while the handler is still in the middle.    *)
(*                                                                         *)
(* Units.  A PLL clock is a natural number of "grains" and a shift a       *)
(* number of millionths of the clock: --shift 0.01 (percent) is 100.       *)
(* Time differences are in microseconds.                                   *)
(***************************************************************************)
EXTENDS Integers, FiniteSets

CONSTANTS
  Phys,          \* the PHYs, each with one synchronisation thread of its name
  Helpers,       \* the other threads: main, the background and collector ones
  Detached,      \* the helpers nobody joins before vsync_lib_uninit
  Loggers,       \* the threads a signal may find inside log_message
  Handlers,      \* how many handler activations of one PHY may overlap
  NoThread,      \* host of a handler that is not running
  BaseClock,     \* the PLL clock the display driver programmed
  Shift, Shift2, LearningRate,   \* --shift, --shift2, --learning_rate
  StepThreshold, \* --step_threshold, in microseconds
  TimeDiffs,     \* the time differences a thread may ask to correct
  MaxLoss,       \* grains the divider values of a clock may be off
  MaxLearn,      \* bound: permanent adjustments of one PHY
  TimerMayFail   \* may timer_create or timer_settime fail?

Threads  == Phys \cup Helpers
Contexts == Handlers \cup {"sync"}
PPM      == 1000000
TimeLimit == 20000       \* synchronize_vsync refuses 20 ms and more

ASSUME PhyAssumption ==
  /\ "sync" \notin Handlers
  /\ Phys \cap Helpers = {}
  /\ Detached \subseteq Helpers
  /\ Loggers \subseteq Threads
  /\ NoThread \notin Threads
  /\ BaseClock \in Nat \ {0}
  /\ Shift \in Nat /\ Shift2 \in Nat /\ LearningRate \in Nat
  /\ StepThreshold \in Nat
  /\ TimeDiffs \subseteq Int
  /\ MaxLoss \in Nat
  /\ MaxLearn \in Nat
  /\ TimerMayFail \in BOOLEAN

VARIABLES
  hw,        \* the divider register of each PHY, as the clock it produces
  orig,      \* orig_val: the register as read_registers found it
  mod,       \* mod_val: the register calculate_feedback_dividers prepared
  freqOrig,  \* pll_freq_orig
  freqMod,   \* pll_freq_mod
  usedShift, \* used_shift
  done,      \* the flag wait_until_done polls
  timer,     \* the POSIX timer of the PHY
  pc,        \* where each context of a PHY is: its thread, its handlers
  plan,      \* the loop of set_pll_clock each context is running
  call,      \* the synchronize_vsync call of the PHY's thread
  host,      \* the thread each handler activation has interrupted
  logOwner,  \* the thread inside log_message, holding log_mutex
  libDone,   \* lib_client_done and client_done, set by Ctrl+C
  freed,     \* vsync_lib_uninit has deleted the PHY objects
  base,      \* history: the clock the PHY runs at between synchronisations
  learned    \* history: permanent adjustments made so far

regs  == <<hw, mod, base>>
saved == <<orig, freqOrig, freqMod, usedShift>>
proc  == <<logOwner, libDone, freed>>
vars  == <<regs, saved, done, timer, pc, plan, call, host, proc, learned>>

-----------------------------------------------------------------------------
(* The arithmetic of program_phy and set_pll_clock.                        *)

Abs(x) == IF x < 0 THEN -x ELSE x

CeilDiv(a, b)  == (a + b - 1) \div b
RoundDiv(a, b) == (2 * a + b) \div (2 * b)

\* Milliseconds the shifted clock s must run to make up td microseconds.
StepsToSync(td, s) == IF s = 0 THEN 0 ELSE (Abs(td) * 1000) \div s

ChosenShift(td, s1, s2) ==
  IF s2 # 0 /\ Abs(td) >= StepThreshold THEN s2 ELSE s1

\* The clock program_phy aims at: slower when the time difference is positive.
TargetClock(clock, td, s) ==
  LET impact == (s * clock) \div PPM
  IN  IF td > 0 THEN clock - impact ELSE clock + impact

\* set_pll_clock refuses clocks that are not positive.
ValidClocks(from, to) == from > 0 /\ to > 0

\* Variant: the change is applied at once, whatever the shift.
StepCount_AtOnce(from, to, s) == 1

\* One step unless the change, rounded to millionths, exceeds the shift. With
\* a zero shift the step size is 0, the quotient infinite and its conversion to
\* int the least integer, so that the loop body never runs.
StepCount(from, to, s) ==
  LET total == Abs(to - from)
  IN  IF ~ValidClocks(from, to) THEN 0
      ELSE IF RoundDiv(total * PPM, from) <= s THEN 1
      ELSE IF s = 0 THEN 0
      ELSE CeilDiv(total * PPM, from * s)

NewPlan(from, to, s, then) ==
  [from |-> from, to |-> to, n |-> StepCount(from, to, s), i |-> 0, then |-> then]

\* The clock the step after pl.i sets: the last one is the target exactly.
StepClock(pl) ==
  IF pl.i + 1 = pl.n THEN pl.to
  ELSE pl.from + ((pl.to - pl.from) * (pl.i + 1)) \div pl.n

\* Register values that calculate_feedback_dividers may find for a clock.
Dividers(clock) == (clock - MaxLoss) .. (clock + MaxLoss)

-----------------------------------------------------------------------------
(* Threads, and the handlers that interrupt them.                          *)

Hosting(t) == \E p \in Phys, h \in Handlers : host[p][h] = t
Active(p)  == \E h \in Handlers : host[p][h] # NoThread

\* A context runs when its thread is neither suspended under a handler nor in
\* log_message; a handler is itself what its thread executes.
Runs(p, c) ==
  /\ ~freed
  /\ c = "sync" => ~Hosting(p) /\ logOwner # p

LogFree == logOwner = NoThread

At(p, c, label) == pc[p][c] = label /\ Runs(p, c)
Goto(p, c, label) == pc' = [pc EXCEPT ![p][c] = label]

Init ==
  /\ hw = [p \in Phys |-> BaseClock]
  /\ base = hw
  /\ orig = [p \in Phys |-> 0]
  /\ mod = orig
  /\ freqOrig = orig
  /\ freqMod = orig
  /\ usedShift = orig
  /\ done = [p \in Phys |-> TRUE]
  /\ timer = [p \in Phys |-> "none"]
  /\ pc = [p \in Phys |-> [c \in Contexts |-> IF c = "sync" THEN "idle" ELSE "off"]]
  /\ plan = [p \in Phys |-> [c \in Contexts |->
               [from |-> 0, to |-> 0, n |-> 0, i |-> 0, then |-> "orig"]]]
  /\ call = [p \in Phys |-> [td |-> 0, reset |-> FALSE, steps |-> 0]]
  /\ host = [p \in Phys |-> [h \in Handlers |-> NoThread]]
  /\ logOwner = NoThread
  /\ libDone = FALSE
  /\ freed = FALSE
  /\ learned = [p \in Phys |-> 0]

-----------------------------------------------------------------------------
(* synchronize_vsync and program_phy, up to the loop of set_pll_clock.     *)

\* What program_phy computes. Nothing is written when no time is to be made up,
\* and a PHY whose clock reads zero is given up, its timer never armed.
ProgramPhy(p, td, s1, s2, reset) ==
  LET s     == ChosenShift(td, s1, s2)
      steps == StepsToSync(td, s)
      goal  == TargetClock(hw[p], td, s)
  IN  /\ LogFree
      /\ orig' = [orig EXCEPT ![p] = hw[p]]
      /\ freqOrig' = [freqOrig EXCEPT ![p] = hw[p]]
      /\ freqMod' = [freqMod EXCEPT ![p] = goal]
      /\ usedShift' = [usedShift EXCEPT ![p] = s1]
      /\ call' = [call EXCEPT ![p] = [td |-> td, reset |-> reset, steps |-> steps]]
      /\ plan' = [plan EXCEPT ![p]["sync"] =
                    NewPlan(hw[p], goal, s1, IF reset THEN "arm" ELSE "return")]
      /\ Goto(p, "sync", CASE steps = 0 -> IF reset THEN "wait" ELSE "return"
                           [] steps # 0 /\ ValidClocks(hw[p], goal) -> "step"
                           [] OTHER -> IF reset THEN "post" ELSE "return")

\* The call of perform_synchronization that restores the clock afterwards.
StartSync(p, td) ==
  /\ At(p, "sync", "idle")
  /\ Abs(td) < TimeLimit
  /\ ProgramPhy(p, td, Shift, Shift2, TRUE)
  /\ UNCHANGED <<regs, done, timer, host, proc, learned>>

\* A time difference of 20 ms and more is refused before anything is touched.
RefuseSync(p, td) ==
  /\ At(p, "sync", "idle")
  /\ Abs(td) >= TimeLimit
  /\ call' = [call EXCEPT ![p] = [td |-> td, reset |-> TRUE, steps |-> 0]]
  /\ Goto(p, "sync", "post")
  /\ UNCHANGED <<regs, saved, done, timer, plan, host, proc, learned>>

\* The learning call that follows it: a permanent adjustment, never waited for.
StartLearning(p) ==
  /\ At(p, "sync", "post")
  /\ LearningRate # 0 /\ learned[p] < MaxLearn
  /\ Abs(call[p].td) < TimeLimit
  /\ ProgramPhy(p, call[p].td, LearningRate, 0, FALSE)
  /\ learned' = [learned EXCEPT ![p] = @ + 1]
  /\ UNCHANGED <<regs, done, timer, host, proc>>

\* pipe_sync_thread goes round its loop, or leaves it: after Ctrl+C, or when a
\* capture failed before any synchronisation was started.
NextIteration(p) ==
  /\ \/ /\ At(p, "sync", "post") \/ At(p, "sync", "return")
        /\ Goto(p, "sync", IF libDone THEN "exited" ELSE "idle")
     \/ /\ At(p, "sync", "idle")
        /\ Goto(p, "sync", "exited")
  /\ UNCHANGED <<regs, saved, done, timer, plan, call, host, proc, learned>>

-----------------------------------------------------------------------------
(* The loop of set_pll_clock, run by program_phy and by reset_phy_regs.    *)

\* Variant: the loop runs once too often.
MoreSteps_OneMore(p, c) == plan[p][c].i <= plan[p][c].n /\ ~libDone

MoreSteps(p, c) == plan[p][c].i < plan[p][c].n /\ ~libDone

\* calculate_feedback_dividers for the next intermediate clock, which it logs.
PrepareStep(p, c) ==
  /\ At(p, c, "step")
  /\ MoreSteps(p, c)
  /\ LogFree
  /\ \E d \in Dividers(StepClock(plan[p][c])) : mod' = [mod EXCEPT ![p] = d]
  /\ plan' = [plan EXCEPT ![p][c].i = @ + 1]
  /\ Goto(p, c, "write")
  /\ UNCHANGED <<hw, base, saved, done, timer, call, host, proc, learned>>

\* program_mmio(true). What a learning call writes is there to stay.
WriteStep(p, c) ==
  /\ At(p, c, "write")
  /\ hw' = [hw EXCEPT ![p] = mod[p]]
  /\ base' = IF c = "sync" /\ plan[p][c].then = "return"
             THEN [base EXCEPT ![p] = mod[p]] ELSE base
  /\ Goto(p, c, "step")
  /\ UNCHANGED <<mod, saved, done, timer, plan, call, host, proc, learned>>

EndSteps(p, c) ==
  /\ At(p, c, "step")
  /\ ~MoreSteps(p, c)
  /\ Goto(p, c, plan[p][c].then)
  /\ UNCHANGED <<regs, saved, done, timer, plan, call, host, proc, learned>>

-----------------------------------------------------------------------------
(* The timer, and waiting for it.                                          *)

\* Variant: the flag stays as the previous synchronisation left it.
LowerDone_Missing(p) ==
  /\ At(p, "sync", "arm")
  /\ Goto(p, "sync", "settimer")
  /\ UNCHANGED <<regs, saved, done, timer, plan, call, host, proc, learned>>

\* The flag is lowered before the timer that will raise it exists.
LowerDone(p) ==
  /\ At(p, "sync", "arm")
  /\ done' = [done EXCEPT ![p] = FALSE]
  /\ Goto(p, "sync", "settimer")
  /\ UNCHANGED <<regs, saved, timer, plan, call, host, proc, learned>>

\* os_make_timer: the interval is the millisecond part of the expiry time, so
\* that only whole seconds give a timer that expires once. Its failure is lost.
MakeTimer(p) ==
  /\ At(p, "sync", "settimer")
  /\ LogFree
  /\ \/ timer' = [timer EXCEPT ![p] =
                    IF call[p].steps % 1000 = 0 THEN "once" ELSE "periodic"]
     \/ TimerMayFail /\ UNCHANGED timer
  /\ Goto(p, "sync", "wait")
  /\ UNCHANGED <<regs, saved, done, plan, call, host, proc, learned>>

\* Variant: Ctrl+C ends the wait, and that is all.
StopWaiting_NoReset(p) ==
  /\ At(p, "sync", "wait")
  /\ done[p] \/ libDone
  /\ Goto(p, "sync", "post")
  /\ UNCHANGED <<regs, saved, done, timer, plan, call, host, proc, learned>>

\* wait_until_done leaves its loop; after Ctrl+C it resets the PHY itself.
StopWaiting(p) ==
  /\ At(p, "sync", "wait")
  /\ done[p] \/ libDone
  /\ Goto(p, "sync", IF libDone THEN "delete" ELSE "post")
  /\ UNCHANGED <<regs, saved, done, timer, plan, call, host, proc, learned>>

\* The timer expires and its signal interrupts thread t.
Expire(p, h, t) ==
  /\ ~freed
  /\ timer[p] # "none"
  /\ host[p][h] = NoThread
  /\ ~Hosting(t)
  /\ t \in Phys => pc[t]["sync"] # "exited"
  /\ timer' = IF timer[p] = "once" THEN [timer EXCEPT ![p] = "none"] ELSE timer
  /\ host' = [host EXCEPT ![p][h] = t]
  /\ Goto(p, h, "delete")
  /\ UNCHANGED <<regs, saved, done, plan, call, proc, learned>>

-----------------------------------------------------------------------------
(* reset_phy_regs, run by a handler or, after Ctrl+C, by the PHY's thread. *)

\* Variant: the timer goes on expiring.
DeleteTimer_Missing(p, c) ==
  /\ At(p, c, "delete")
  /\ Goto(p, c, "plan")
  /\ UNCHANGED <<regs, saved, done, timer, plan, call, host, proc, learned>>

DeleteTimer(p, c) ==
  /\ At(p, c, "delete")
  /\ timer' = [timer EXCEPT ![p] = "none"]
  /\ Goto(p, c, "plan")
  /\ UNCHANGED <<regs, saved, done, plan, call, host, proc, learned>>

\* set_pll_clock back to the original clock; a change in steps is logged.
PlanRestore(p, c) ==
  LET pl == NewPlan(freqMod[p], freqOrig[p], usedShift[p], "orig")
  IN  /\ At(p, c, "plan")
      /\ pl.n > 1 => LogFree
      /\ plan' = [plan EXCEPT ![p][c] = pl]
      /\ Goto(p, c, "step")
      /\ UNCHANGED <<regs, saved, done, timer, call, host, proc, learned>>

\* Variant: the stepwise return is trusted to be exact.
WriteOriginal_Missing(p, c) ==
  /\ At(p, c, "orig")
  /\ Goto(p, c, "finish")
  /\ UNCHANGED <<regs, saved, done, timer, plan, call, host, proc, learned>>

\* program_mmio(false): the saved registers, free of any rounding.
WriteOriginal(p, c) ==
  /\ At(p, c, "orig")
  /\ hw' = [hw EXCEPT ![p] = orig[p]]
  /\ Goto(p, c, "finish")
  /\ UNCHANGED <<mod, base, saved, done, timer, plan, call, host, proc, learned>>

\* Variant: the reset returns without raising the flag.
RaiseDone_Silent(p, c) ==
  /\ At(p, c, "finish")
  /\ LogFree
  /\ IF c = "sync"
     THEN Goto(p, c, "post") /\ UNCHANGED host
     ELSE Goto(p, c, "off") /\ host' = [host EXCEPT ![p][c] = NoThread]
  /\ UNCHANGED <<regs, saved, done, timer, plan, call, proc, learned>>

\* The elapsed time is logged, the flag is raised and the reset returns.
RaiseDone(p, c) ==
  /\ At(p, c, "finish")
  /\ LogFree
  /\ done' = [done EXCEPT ![p] = TRUE]
  /\ IF c = "sync"
     THEN Goto(p, c, "post") /\ UNCHANGED host
     ELSE Goto(p, c, "off") /\ host' = [host EXCEPT ![p][c] = NoThread]
  /\ UNCHANGED <<regs, saved, timer, plan, call, proc, learned>>

-----------------------------------------------------------------------------
(* The rest of the process.                                                *)

\* Where the code of a synchronisation thread calls log_message; the polling
\* loop of wait_until_done does not.
LogLabels == {"idle", "step", "settimer", "plan", "finish", "post"}

\* A thread takes log_mutex in log_message, or leaves it: a thread suspended
\* under a handler can do neither.
EnterLog(t) ==
  /\ ~freed /\ LogFree /\ ~Hosting(t)
  /\ t \in Phys => pc[t]["sync"] \in LogLabels
  /\ logOwner' = t
  /\ UNCHANGED <<regs, saved, done, timer, pc, plan, call, host, libDone, freed, learned>>

LeaveLog(t) ==
  /\ ~freed /\ logOwner = t /\ ~Hosting(t)
  /\ logOwner' = NoThread
  /\ UNCHANGED <<regs, saved, done, timer, pc, plan, call, host, libDone, freed, learned>>

\* client_close_signal. The two flags it sets are one here: the loop that reads
\* client_done sleeps a second before, the stores are next to each other.
CtrlC ==
  /\ ~libDone /\ ~freed
  /\ libDone' = TRUE
  /\ UNCHANGED <<regs, saved, done, timer, pc, plan, call, host, logOwner, freed, learned>>

\* main has joined the synchronisation threads, deletes the PHYs and returns.
\* Threads that were joined, and main itself, are not under a handler then.
Uninit ==
  /\ ~freed
  /\ \A p \in Phys : pc[p]["sync"] = "exited"
  /\ \A t \in Helpers \ Detached : ~Hosting(t) /\ logOwner # t
  /\ freed' = TRUE
  /\ UNCHANGED <<regs, saved, done, timer, pc, plan, call, host, logOwner, libDone, learned>>

Terminated == freed /\ UNCHANGED vars

ContextStep(p, c) ==
  \/ PrepareStep(p, c) \/ WriteStep(p, c) \/ EndSteps(p, c)
  \/ DeleteTimer(p, c) \/ PlanRestore(p, c)
  \/ WriteOriginal(p, c) \/ RaiseDone(p, c)

ThreadStep(p) ==
  \/ ContextStep(p, "sync")
  \/ LowerDone(p) \/ MakeTimer(p) \/ StopWaiting(p)

Expiry(p) == \E h \in Handlers, t \in Threads : Expire(p, h, t)

Next ==
  \/ \E p \in Phys :
       \/ \E td \in TimeDiffs : StartSync(p, td) \/ RefuseSync(p, td)
       \/ StartLearning(p)
       \/ NextIteration(p)
       \/ ThreadStep(p)
       \/ Expiry(p)
       \/ \E h \in Handlers : ContextStep(p, h)
  \/ \E t \in Loggers : EnterLog(t)
  \/ \E t \in Threads : LeaveLog(t)
  \/ CtrlC
  \/ Uninit
  \/ Terminated

Spec == Init /\ [][Next]_vars

(* Threads and handlers are scheduled, an armed timer expires, log_message *)
(* returns. Nobody has to press Ctrl+C or to ask for a synchronisation. A  *)
(* thread that handlers interrupt again and again still runs in between.   *)
Fairness ==
  /\ \A p \in Phys :
       /\ SF_vars(ThreadStep(p))
       /\ WF_vars(Expiry(p))
       /\ \A h \in Handlers : SF_vars(ContextStep(p, h))
       /\ SF_vars(NextIteration(p) /\ (libDone \/ pc[p]["sync"] # "idle"))
  /\ \A t \in Threads : SF_vars(LeaveLog(t))
  /\ WF_vars(Uninit)

FairSpec == Spec /\ Fairness

-----------------------------------------------------------------------------
(* Properties.                                                             *)

ResetLabels  == {"delete", "plan", "step", "write", "orig", "finish"}
ThreadLabels == ResetLabels \cup
  {"idle", "arm", "settimer", "wait", "post", "return", "exited"}
LabelsOf(c)  == IF c = "sync" THEN ThreadLabels ELSE ResetLabels \cup {"off"}

\* The loops of set_pll_clock.
Plans == [from : Int, to : Int, n : Int, i : Nat,
          then : {"arm", "return", "orig"}]

ClockTypeOK ==
  /\ hw \in [Phys -> Int] /\ orig \in [Phys -> Int]
  /\ mod \in [Phys -> Int] /\ base \in [Phys -> Int]
  /\ freqOrig \in [Phys -> Int] /\ freqMod \in [Phys -> Int]
  /\ usedShift \in [Phys -> Nat]

ControlTypeOK ==
  /\ done \in [Phys -> BOOLEAN]
  /\ timer \in [Phys -> {"none", "once", "periodic"}]
  /\ pc \in [Phys -> [Contexts -> ThreadLabels \cup {"off"}]]
  /\ plan \in [Phys -> [Contexts -> Plans]]
  /\ call \in [Phys -> [td : Int, reset : BOOLEAN, steps : Int]]
  /\ host \in [Phys -> [Handlers -> Threads \cup {NoThread}]]
  /\ logOwner \in Threads \cup {NoThread}
  /\ libDone \in BOOLEAN /\ freed \in BOOLEAN
  /\ learned \in [Phys -> Nat]

\* A handler activation is somewhere in its code exactly while it has a host,
\* and a thread is never outside its own.
PlacesOK ==
  /\ \A p \in Phys, c \in Contexts : pc[p][c] \in LabelsOf(c)
  /\ \A p \in Phys, h \in Handlers : pc[p][h] = "off" <=> host[p][h] = NoThread

\* The loop of set_pll_clock never goes past its last step, and one that a
\* handler runs is followed by the rest of reset_phy_regs.
LoopOK(c, pl) ==
  /\ pl.i > 0 => pl.i <= pl.n
  /\ c \in Handlers => pl.then = "orig"
LoopsOK == \A p \in Phys, c \in Contexts : LoopOK(c, plan[p][c])

\* Every variable has the type of the field or local variable it stands for.
TypeOK == ClockTypeOK /\ ControlTypeOK /\ PlacesOK /\ LoopsOK

\* The PHY's thread is not inside synchronize_vsync.
AtRest(p) == pc[p]["sync"] \in {"idle", "post", "return", "exited"}

\* A synchronisation leaves no trace: when synchronize_vsync has returned, the
\* register is again exactly what it was, however many steps and roundings lie
\* in between, and only a learning call has changed it for good (phy.cpp:90-93).
RestoredAfterSync ==
  ~libDone => \A p \in Phys : AtRest(p) => hw[p] = base[p]

\* No single write moves the clock by more than the shift that was asked for while the
\* program runs: this is what keeps the monitor from blanking (phy.cpp:132-140). It is a
\* share of the clock a loop starts from. The code rounds it to millionths, a step to a
\* grain, and either register may be off by MaxLoss.
AskedShift(p) == IF call[p].reset THEN Shift ELSE LearningRate
Share(clock, s) == ((2 * s + 1) * clock) \div (2 * PPM)
JumpLimit(p) ==
  LET clock == IF freqOrig[p] < freqMod[p] THEN freqMod[p] ELSE freqOrig[p]
  IN  Share(clock, AskedShift(p)) + 2 * MaxLoss + 1
WithinShift ==
  \A p \in Phys : hw'[p] # hw[p] => Abs(hw'[p] - hw[p]) <= JumpLimit(p)
NoLargeJump == [][~libDone => WithinShift]_vars

\* When the program ends, every clock is where it was (phy.cpp:221), and no timer
\* or handler is left that would dereference the PHY it was given.
RestoredAtExit ==
  freed => \A p \in Phys : hw[p] = base[p] /\ timer[p] = "none" /\ ~Active(p)

\* A handler interrupts only a PHY that its thread is waiting for, and the flag
\* it is to raise is still down: no reset runs twice, none is forgotten.
HandlerIsAwaited ==
  ~libDone => \A p \in Phys :
    timer[p] # "none" \/ Active(p) => pc[p]["sync"] = "wait" /\ ~done[p]

\* synchronize_vsync returns (phy.cpp:205-209), and so does the program after
\* Ctrl+C.
WaitsEnd ==
  /\ \A p \in Phys : pc[p]["sync"] = "wait" ~> pc[p]["sync"] \in {"post", "exited"}
  /\ libDone ~> freed

\* After the timer expires, the original values are restored (phy.cpp:207-208).
EventuallyRestored ==
  \A p \in Phys : pc[p]["sync"] = "wait" ~> hw[p] = base[p]

-----------------------------------------------------------------------------
(* Why RestoredAfterSync and HandlerIsAwaited hold: who owns a PHY when.   *)

\* From read_registers until the flag is up again, orig_val is the only copy of
\* the clock to return to.
Borrowed(p) ==
  \/ pc[p]["sync"] \in {"arm", "settimer"}
  \/ pc[p]["sync"] = "wait" /\ ~done[p]
  \/ pc[p]["sync"] \in {"step", "write"} /\ plan[p]["sync"].then = "arm"

\* The promise of PllLoan, and what implements each part of it. After Ctrl+C the
\* PHYs count as given back: RestoredAtExit says what is still to be done.
LentOut == IF libDone THEN {} ELSE {p \in Phys : Borrowed(p)}

Loan == INSTANCE PllLoan
          WITH clock <- hw, home <- base, lent <- LentOut,
               stopped <- libDone, ended <- freed

\* PhyControl implements PllLoan: whatever threads, handlers and timers do, a
\* clock moves only while it is lent, no PHY is lent twice, one that is not is
\* at home, and only a learning call moves the home (phy.cpp:122-227).
LoanSpec == Loan!Spec

ThreadInv(p) ==
  LET at == pc[p]["sync"] IN
  /\ at \notin {"delete", "plan", "orig", "finish"}
  /\ at \in {"step", "write"} => plan[p]["sync"].then # "orig"
  /\ at = "settimer" => ~done[p]
  /\ at \notin {"settimer", "wait"} => done[p]

ValueInv(p) ==
  /\ AtRest(p) => hw[p] = base[p]
  /\ pc[p]["sync"] = "wait" /\ done[p] => hw[p] = base[p]
  /\ pc[p]["sync"] \in {"step", "write"} /\ plan[p]["sync"].then = "return"
       => hw[p] = base[p]
  /\ Borrowed(p) => orig[p] = base[p]

HandlerInv(p) ==
  /\ timer[p] # "none" => pc[p]["sync"] = "wait" /\ ~done[p]
  /\ \A h \in Handlers :
       /\ pc[p][h] # "off" => pc[p]["sync"] = "wait" /\ ~done[p]
       /\ pc[p][h] \notin {"off", "delete"} => timer[p] = "none"
       /\ pc[p][h] = "finish" => hw[p] = base[p]

\* Until Ctrl+C, a PHY is either its thread's or, while the thread waits, its
\* handler's: the inductive strengthening of the two invariants.
PhyInv(p) == ThreadInv(p) /\ ValueInv(p) /\ HandlerInv(p)
OwnershipInv == ~libDone => \A p \in Phys : PhyInv(p)

=============================================================================
