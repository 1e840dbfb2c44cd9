-------------------------- MODULE PhyControl_proofs --------------------------
(***************************************************************************)
(* Theorems about PhyControl, for any set of PHYs, threads and shifts: its *)
(* types; who owns a PHY, its thread or, while the thread waits, the       *)
(* handler of its timer, so that a synchronisation leaves the clock as it  *)
(* was and PhyControl implements PllLoan; that after Ctrl+C, when both may *)
(* reset the PHY at once, the clock is put back all the same; and that no  *)
(* write moves it by more than the shift.                                  *)
(*                                                                         *)
(* Except for the types, the proofs assume that the activations of one     *)
(* PHY's handler never overlap. A periodic timer may expire again before   *)
(* its handler deletes it: README.md, section 5, says what is lost then.   *)
(***************************************************************************)
EXTENDS PhyControl, TLAPS

-----------------------------------------------------------------------------
(* The arithmetic stays among the integers.                                *)

\* A loop of set_pll_clock always has a whole number of steps.
LEMMA StepCountInt ==
  ASSUME NEW from \in Int, NEW to \in Int, NEW s \in Nat
  PROVE  StepCount(from, to, s) \in Int
<1> DEFINE total == Abs(to - from)
<1>1. total * PPM \in Int
  BY DEF Abs, PPM
<1>2. CASE ~ValidClocks(from, to) \/ s = 0
  BY <1>2 DEF StepCount
<1>3. CASE ValidClocks(from, to) /\ s # 0
  <2>1. from * s \in Int /\ from * s > 0
    BY <1>3 DEF ValidClocks
  <2>2. CeilDiv(total * PPM, from * s) \in Int
    <3> DEFINE a == total * PPM
               b == from * s
    <3> HIDE DEF a, b
    <3>1. a \in Int /\ b \in Int /\ b > 0
      BY <1>1, <2>1 DEF a, b
    <3>2. CeilDiv(a, b) \in Int
      BY <3>1 DEF CeilDiv
    <3> QED
      BY <3>2 DEF a, b
  <2> QED
    BY <1>3, <2>2 DEF StepCount
<1> QED
  BY <1>2, <1>3

\* A clock within a shift of another one is a whole number of grains.
LEMMA TargetClockInt ==
  ASSUME NEW clock \in Int, NEW td \in Int, NEW s \in Nat
  PROVE  TargetClock(clock, td, s) \in Int
<1>1. s * clock \in Int
  OBVIOUS
<1> QED
  BY <1>1 DEF TargetClock, PPM

\* The time to run a shifted clock is a whole number of milliseconds.
LEMMA StepsToSyncInt ==
  ASSUME NEW td \in Int, NEW s \in Nat
  PROVE  StepsToSync(td, s) \in Int
<1>1. Abs(td) * 1000 \in Int
  BY DEF Abs
<1> QED
  BY <1>1 DEF StepsToSync

\* The clock of an intermediate step is a whole number of grains.
LEMMA StepClockInt ==
  ASSUME NEW pl \in Plans, pl.i < pl.n
  PROVE  StepClock(pl) \in Int
<1>1. pl.n \in Int /\ pl.n > 0 /\ (pl.to - pl.from) * (pl.i + 1) \in Int
  BY DEF Plans
<1> QED
  BY <1>1 DEF StepClock, Plans

-----------------------------------------------------------------------------
(* Type correctness.                                                       *)

LEMMA InitTypeOK == Init => TypeOK
<1> SUFFICES ASSUME Init PROVE TypeOK
  OBVIOUS
<1> USE PhyAssumption DEF Init
<1>1. ClockTypeOK
  BY DEF ClockTypeOK
<1>2. ControlTypeOK
  <2>1. [from |-> 0, to |-> 0, n |-> 0, i |-> 0, then |-> "orig"] \in Plans
    BY DEF Plans
  <2>2. plan \in [Phys -> [Contexts -> Plans]]
    BY <2>1
  <2>3. call \in [Phys -> [td : Int, reset : BOOLEAN, steps : Int]]
    OBVIOUS
  <2>4. pc \in [Phys -> [Contexts -> ThreadLabels \cup {"off"}]]
    BY DEF ThreadLabels
  <2> QED
    BY <2>2, <2>3, <2>4 DEF ControlTypeOK
<1>3. PlacesOK
  BY DEF PlacesOK, LabelsOf, Contexts, ThreadLabels
<1>4. LoopsOK
  BY DEF LoopsOK, LoopOK
<1> QED
  BY <1>1, <1>2, <1>3, <1>4 DEF TypeOK

\* The labels of one context are labels.
LEMMA LabelsOfSubset ==
  ASSUME NEW c \in Contexts PROVE LabelsOf(c) \subseteq ThreadLabels \cup {"off"}
BY DEF LabelsOf, ThreadLabels, ResetLabels

\* A context that moves on within its code, its host unchanged.
LEMMA GotoOK ==
  ASSUME ControlTypeOK, PlacesOK, UNCHANGED host,
         NEW p \in Phys, NEW c \in Contexts, pc[p][c] # "off",
         NEW l \in LabelsOf(c), l # "off", Goto(p, c, l)
  PROVE  PlacesOK' /\ pc' \in [Phys -> [Contexts -> ThreadLabels \cup {"off"}]]
<1>1. pc' = [pc EXCEPT ![p] = [pc[p] EXCEPT ![c] = l]]
  BY DEF Goto
<1>2. pc \in [Phys -> [Contexts -> ThreadLabels \cup {"off"}]]
  BY DEF ControlTypeOK
<1>3. l \in ThreadLabels \cup {"off"}
  BY LabelsOfSubset
<1>4. [pc[p] EXCEPT ![c] = l] \in [Contexts -> ThreadLabels \cup {"off"}]
  BY <1>2, <1>3
<1>5. pc' \in [Phys -> [Contexts -> ThreadLabels \cup {"off"}]]
  BY <1>1, <1>2, <1>4
<1>6. \A q \in Phys, d \in Contexts :
        pc'[q][d] = IF q = p /\ d = c THEN l ELSE pc[q][d]
  BY <1>1, <1>2
<1>7. \A q \in Phys, d \in Contexts : pc'[q][d] \in LabelsOf(d)
  BY <1>6 DEF PlacesOK
<1>8. \A q \in Phys, h \in Handlers : pc'[q][h] = "off" <=> host'[q][h] = NoThread
  <2> SUFFICES ASSUME NEW q \in Phys, NEW h \in Handlers
               PROVE  pc'[q][h] = "off" <=> host'[q][h] = NoThread
    OBVIOUS
  <2>1. h \in Contexts
    BY DEF Contexts
  <2>2. CASE q = p /\ h = c
    BY <1>6, <2>1, <2>2 DEF PlacesOK
  <2>3. CASE ~(q = p /\ h = c)
    BY <1>6, <2>1, <2>3 DEF PlacesOK
  <2> QED
    BY <2>2, <2>3
<1> QED
  BY <1>5, <1>7, <1>8 DEF PlacesOK

\* A handler activation that starts on a thread, or leaves it.
LEMMA HostOK ==
  ASSUME ControlTypeOK, PlacesOK,
         NEW p \in Phys, NEW h \in Handlers,
         NEW l \in LabelsOf(h), Goto(p, h, l),
         NEW t \in Threads \cup {NoThread}, l = "off" <=> t = NoThread,
         host' = [host EXCEPT ![p][h] = t]
  PROVE  /\ PlacesOK'
         /\ pc' \in [Phys -> [Contexts -> ThreadLabels \cup {"off"}]]
         /\ host' \in [Phys -> [Handlers -> Threads \cup {NoThread}]]
<1>1. /\ pc' = [pc EXCEPT ![p] = [pc[p] EXCEPT ![h] = l]]
      /\ host' = [host EXCEPT ![p] = [host[p] EXCEPT ![h] = t]]
  BY DEF Goto
<1>2. /\ pc \in [Phys -> [Contexts -> ThreadLabels \cup {"off"}]]
      /\ host \in [Phys -> [Handlers -> Threads \cup {NoThread}]]
  BY DEF ControlTypeOK
<1>3. h \in Contexts /\ l \in ThreadLabels \cup {"off"}
  BY LabelsOfSubset DEF Contexts
<1>4. [pc[p] EXCEPT ![h] = l] \in [Contexts -> ThreadLabels \cup {"off"}]
  BY <1>2, <1>3
<1>5. [host[p] EXCEPT ![h] = t] \in [Handlers -> Threads \cup {NoThread}]
  BY <1>2
<1>6. /\ pc' \in [Phys -> [Contexts -> ThreadLabels \cup {"off"}]]
      /\ host' \in [Phys -> [Handlers -> Threads \cup {NoThread}]]
  BY <1>1, <1>2, <1>4, <1>5
<1>7. \A q \in Phys, d \in Contexts :
        pc'[q][d] = IF q = p /\ d = h THEN l ELSE pc[q][d]
  BY <1>1, <1>2
<1>8. \A q \in Phys, g \in Handlers :
        host'[q][g] = IF q = p /\ g = h THEN t ELSE host[q][g]
  BY <1>1, <1>2
<1>9. \A q \in Phys, d \in Contexts : pc'[q][d] \in LabelsOf(d)
  BY <1>7 DEF PlacesOK
<1>10. \A q \in Phys, g \in Handlers : pc'[q][g] = "off" <=> host'[q][g] = NoThread
  <2> SUFFICES ASSUME NEW q \in Phys, NEW g \in Handlers
               PROVE  pc'[q][g] = "off" <=> host'[q][g] = NoThread
    OBVIOUS
  <2>1. g \in Contexts
    BY DEF Contexts
  <2>2. CASE q = p /\ g = h
    BY <1>7, <1>8, <2>1, <2>2
  <2>3. CASE ~(q = p /\ g = h)
    BY <1>7, <1>8, <2>1, <2>3 DEF PlacesOK
  <2> QED
    BY <2>2, <2>3
<1> QED
  BY <1>6, <1>9, <1>10 DEF PlacesOK

\* A context that starts or continues a loop.
LEMMA PlanOK ==
  ASSUME ControlTypeOK, LoopsOK, NEW p \in Phys, NEW c \in Contexts,
         NEW pl \in Plans, LoopOK(c, pl),
         plan' = [plan EXCEPT ![p][c] = pl]
  PROVE  LoopsOK' /\ plan' \in [Phys -> [Contexts -> Plans]]
<1>1. plan' = [plan EXCEPT ![p] = [plan[p] EXCEPT ![c] = pl]]
  OBVIOUS
<1>2. plan \in [Phys -> [Contexts -> Plans]]
  BY DEF ControlTypeOK
<1>3. [plan[p] EXCEPT ![c] = pl] \in [Contexts -> Plans]
  BY <1>2
<1>4. plan' \in [Phys -> [Contexts -> Plans]]
  BY <1>1, <1>2, <1>3
<1>5. \A q \in Phys, d \in Contexts :
        plan'[q][d] = IF q = p /\ d = c THEN pl ELSE plan[q][d]
  BY <1>1, <1>2
<1> QED
  BY <1>4, <1>5 DEF LoopsOK

\* program_phy, for either of its two callers.
LEMMA ProgramPhyTypes ==
  ASSUME TypeOK, NEW p \in Phys, NEW td \in Int, NEW s1 \in Nat, NEW s2 \in Nat,
         NEW reset \in BOOLEAN,
         ProgramPhy(p, td, s1, s2, reset),
         UNCHANGED <<regs, done, timer, host, proc>>,
         learned' \in [Phys -> Nat]
  PROVE  TypeOK'
<1> DEFINE s == ChosenShift(td, s1, s2)
           goal == TargetClock(hw[p], td, s)
           pl == NewPlan(hw[p], goal, s1, IF reset THEN "arm" ELSE "return")
           newCall == [td |-> td, reset |-> reset, steps |-> StepsToSync(td, s)]
<1>1. s \in Nat /\ hw[p] \in Int
  BY DEF ChosenShift, TypeOK, ClockTypeOK
<1>2. goal \in Int
  BY <1>1, TargetClockInt
<1>3. StepCount(hw[p], goal, s1) \in Int
  BY <1>1, <1>2, StepCountInt
<1>4. pl \in Plans /\ pl.i = 0
  BY <1>1, <1>2, <1>3 DEF NewPlan, Plans
<1>5. newCall \in [td : Int, reset : BOOLEAN, steps : Int]
  BY <1>1, StepsToSyncInt
<1>6. /\ orig' = [orig EXCEPT ![p] = hw[p]]
      /\ freqOrig' = [freqOrig EXCEPT ![p] = hw[p]]
      /\ freqMod' = [freqMod EXCEPT ![p] = goal]
      /\ usedShift' = [usedShift EXCEPT ![p] = s1]
      /\ call' = [call EXCEPT ![p] = newCall]
      /\ plan' = [plan EXCEPT ![p]["sync"] = pl]
      /\ \E l \in {"wait", "return", "step", "post"} : Goto(p, "sync", l)
  BY DEF ProgramPhy
<1> HIDE DEF s, goal, pl, newCall
<1>7. ClockTypeOK'
  BY <1>1, <1>2, <1>6 DEF TypeOK, ClockTypeOK, regs
<1>8. "sync" \in Contexts /\ ControlTypeOK /\ PlacesOK /\ LoopsOK
  BY DEF Contexts, TypeOK
<1>9. PlacesOK' /\ pc' \in [Phys -> [Contexts -> ThreadLabels \cup {"off"}]]
  <2>1. {"wait", "return", "step", "post"} \subseteq LabelsOf("sync")
    BY DEF LabelsOf, ThreadLabels, ResetLabels
  <2>2. pc[p]["sync"] # "off"
    BY <1>8 DEF PlacesOK, LabelsOf, ThreadLabels, ResetLabels
  <2> QED
    BY <1>6, <1>8, <2>1, <2>2, GotoOK
<1>10. LoopsOK' /\ plan' \in [Phys -> [Contexts -> Plans]]
  <2>1. pl \in Plans /\ LoopOK("sync", pl)
    BY <1>4, PhyAssumption DEF LoopOK
  <2>2. plan' = [plan EXCEPT ![p]["sync"] = pl]
    BY <1>6
  <2> QED
    BY <1>8, <2>1, <2>2, PlanOK
<1>11. call' \in [Phys -> [td : Int, reset : BOOLEAN, steps : Int]]
  BY <1>5, <1>6, <1>8 DEF ControlTypeOK
<1>12. UNCHANGED <<done, timer, host, logOwner, libDone, freed>>
  BY DEF proc
<1>13. ControlTypeOK'
  BY <1>8, <1>9, <1>10, <1>11, <1>12 DEF ControlTypeOK
<1> QED
  BY <1>7, <1>9, <1>10, <1>13 DEF TypeOK

\* A step of a context that only moves it on keeps the types.
LEMMA MoveTypes ==
  ASSUME TypeOK, NEW p \in Phys, NEW c \in Contexts, pc[p][c] # "off",
         NEW l \in LabelsOf(c), l # "off", Goto(p, c, l),
         ClockTypeOK', LoopsOK', plan' \in [Phys -> [Contexts -> Plans]],
         done' \in [Phys -> BOOLEAN],
         timer' \in [Phys -> {"none", "once", "periodic"}],
         call' \in [Phys -> [td : Int, reset : BOOLEAN, steps : Int]],
         UNCHANGED <<host, logOwner, libDone, freed, learned>>
  PROVE  TypeOK'
<1>1. ControlTypeOK /\ PlacesOK
  BY DEF TypeOK
<1>2. PlacesOK' /\ pc' \in [Phys -> [Contexts -> ThreadLabels \cup {"off"}]]
  BY <1>1, GotoOK
<1>3. ControlTypeOK'
  BY <1>1, <1>2 DEF ControlTypeOK
<1> QED
  BY <1>2, <1>3 DEF TypeOK

\* calculate_feedback_dividers prepares the register for a step that exists.
LEMMA PrepareStepTypes ==
  ASSUME TypeOK, NEW p \in Phys, NEW c \in Contexts, PrepareStep(p, c)
  PROVE  TypeOK'
<1> DEFINE pl == plan[p][c]
           next == [pl EXCEPT !.i = @ + 1]
<1>1. ClockTypeOK /\ ControlTypeOK /\ PlacesOK /\ LoopsOK
  BY DEF TypeOK
<1>2. pl \in Plans /\ pl.i < pl.n /\ pc[p][c] = "step" /\ Goto(p, c, "write")
  BY <1>1 DEF PrepareStep, MoreSteps, At, ControlTypeOK
<1>3. PICK d \in Dividers(StepClock(pl)) : mod' = [mod EXCEPT ![p] = d]
  BY DEF PrepareStep
<1>4. d \in Int
  <2>1. StepClock(pl) \in Int
    BY <1>2, StepClockInt
  <2> QED
    BY <1>3, <2>1, PhyAssumption DEF Dividers
<1>5. UNCHANGED <<hw, base, saved, done, timer, call, host, proc, learned>>
  BY DEF PrepareStep
<1>6. ClockTypeOK'
  BY <1>1, <1>3, <1>4, <1>5 DEF ClockTypeOK, saved
<1>7. LoopsOK' /\ plan' \in [Phys -> [Contexts -> Plans]]
  <2>1. next \in Plans /\ LoopOK(c, next)
    BY <1>1, <1>2 DEF Plans, LoopsOK, LoopOK
  <2>2. plan' = [plan EXCEPT ![p][c] = next]
    BY DEF PrepareStep
  <2> HIDE DEF next
  <2> QED
    BY <1>1, <2>1, <2>2, PlanOK
<1>8. "write" \in LabelsOf(c) /\ "write" # "off" /\ pc[p][c] # "off"
  BY <1>2 DEF LabelsOf, ThreadLabels, ResetLabels
<1>9. /\ UNCHANGED <<host, logOwner, libDone, freed, learned>>
      /\ done' \in [Phys -> BOOLEAN]
      /\ timer' \in [Phys -> {"none", "once", "periodic"}]
      /\ call' \in [Phys -> [td : Int, reset : BOOLEAN, steps : Int]]
  BY <1>1, <1>5 DEF proc, ControlTypeOK
<1> QED
  BY <1>2, <1>6, <1>7, <1>8, <1>9, MoveTypes

\* A reset plans the way back with a whole number of steps.
LEMMA PlanRestoreTypes ==
  ASSUME TypeOK, NEW p \in Phys, NEW c \in Contexts, PlanRestore(p, c)
  PROVE  TypeOK'
<1> DEFINE pl == NewPlan(freqMod[p], freqOrig[p], usedShift[p], "orig")
<1>1. ClockTypeOK /\ ControlTypeOK /\ PlacesOK /\ LoopsOK
  BY DEF TypeOK
<1>2. freqMod[p] \in Int /\ freqOrig[p] \in Int /\ usedShift[p] \in Nat
  BY <1>1 DEF ClockTypeOK
<1>3. StepCount(freqMod[p], freqOrig[p], usedShift[p]) \in Int
  BY <1>2, StepCountInt
<1>4. pl \in Plans /\ LoopOK(c, pl)
  BY <1>2, <1>3 DEF NewPlan, Plans, LoopOK
<1>5. /\ plan' = [plan EXCEPT ![p][c] = pl]
      /\ pc[p][c] = "plan" /\ Goto(p, c, "step")
      /\ UNCHANGED <<regs, saved, done, timer, call, host, proc, learned>>
  BY DEF PlanRestore, At
<1> HIDE DEF pl
<1>6. LoopsOK' /\ plan' \in [Phys -> [Contexts -> Plans]]
  BY <1>1, <1>4, <1>5, PlanOK
<1>7. ClockTypeOK'
  BY <1>1, <1>5 DEF ClockTypeOK, regs, saved
<1>8. "step" \in LabelsOf(c) /\ "step" # "off" /\ pc[p][c] # "off"
  BY <1>5 DEF LabelsOf, ThreadLabels, ResetLabels
<1>9. /\ UNCHANGED <<host, logOwner, libDone, freed, learned>>
      /\ done' \in [Phys -> BOOLEAN]
      /\ timer' \in [Phys -> {"none", "once", "periodic"}]
      /\ call' \in [Phys -> [td : Int, reset : BOOLEAN, steps : Int]]
  BY <1>1, <1>5 DEF proc, ControlTypeOK
<1> QED
  BY <1>5, <1>6, <1>7, <1>8, <1>9, MoveTypes

\* The end of a reset takes a handler off its host.
LEMMA RaiseDoneTypes ==
  ASSUME TypeOK, NEW p \in Phys, NEW c \in Contexts, RaiseDone(p, c)
  PROVE  TypeOK'
<1>1. ClockTypeOK /\ ControlTypeOK /\ PlacesOK /\ LoopsOK
  BY DEF TypeOK
<1>2. /\ pc[p][c] = "finish"
      /\ done' = [done EXCEPT ![p] = TRUE]
      /\ UNCHANGED <<regs, saved, timer, plan, call, proc, learned>>
  BY DEF RaiseDone, At
<1>3. /\ ClockTypeOK'
      /\ LoopsOK'
      /\ plan' \in [Phys -> [Contexts -> Plans]]
      /\ done' \in [Phys -> BOOLEAN]
      /\ timer' \in [Phys -> {"none", "once", "periodic"}]
      /\ call' \in [Phys -> [td : Int, reset : BOOLEAN, steps : Int]]
      /\ UNCHANGED <<logOwner, libDone, freed, learned>>
  BY <1>1, <1>2 DEF ClockTypeOK, LoopsOK, ControlTypeOK, regs, saved, proc
<1>4. CASE c = "sync"
  <2>1. Goto(p, c, "post") /\ UNCHANGED host
    BY <1>4 DEF RaiseDone
  <2>2. "post" \in LabelsOf(c) /\ "post" # "off" /\ pc[p][c] # "off"
    BY <1>2, <1>4 DEF LabelsOf, ThreadLabels
  <2> QED
    BY <1>3, <2>1, <2>2, MoveTypes
<1>5. CASE c # "sync"
  <2>1. /\ c \in Handlers /\ Goto(p, c, "off")
        /\ host' = [host EXCEPT ![p][c] = NoThread]
    BY <1>5 DEF RaiseDone, Contexts
  <2>2. "off" \in LabelsOf(c)
    BY <1>5 DEF LabelsOf
  <2>3. /\ PlacesOK'
        /\ pc' \in [Phys -> [Contexts -> ThreadLabels \cup {"off"}]]
        /\ host' \in [Phys -> [Handlers -> Threads \cup {NoThread}]]
    BY <1>1, <2>1, <2>2, HostOK
  <2>4. ControlTypeOK'
    BY <1>1, <1>3, <2>3 DEF ControlTypeOK
  <2> QED
    BY <1>3, <2>3, <2>4 DEF TypeOK
<1> QED
  BY <1>4, <1>5

\* A handler starts on some thread.
LEMMA ExpireTypes ==
  ASSUME TypeOK, NEW p \in Phys, NEW h \in Handlers, NEW t \in Threads,
         Expire(p, h, t)
  PROVE  TypeOK'
<1>1. ClockTypeOK /\ ControlTypeOK /\ PlacesOK /\ LoopsOK
  BY DEF TypeOK
<1>2. /\ host' = [host EXCEPT ![p][h] = t]
      /\ Goto(p, h, "delete")
      /\ timer' = IF timer[p] = "once" THEN [timer EXCEPT ![p] = "none"] ELSE timer
      /\ UNCHANGED <<regs, saved, done, plan, call, proc, learned>>
  BY DEF Expire
<1>3. "delete" \in LabelsOf(h) /\ t # NoThread
  BY PhyAssumption DEF LabelsOf, ThreadLabels, ResetLabels
<1>4. /\ PlacesOK'
      /\ pc' \in [Phys -> [Contexts -> ThreadLabels \cup {"off"}]]
      /\ host' \in [Phys -> [Handlers -> Threads \cup {NoThread}]]
  <2>1. t \in Threads \cup {NoThread} /\ ("delete" = "off" <=> t = NoThread)
    BY <1>3
  <2> QED
    BY <1>1, <1>2, <1>3, <2>1, HostOK
<1>5. ClockTypeOK' /\ LoopsOK'
  BY <1>1, <1>2 DEF ClockTypeOK, LoopsOK, LoopOK, regs, saved
<1>6. timer' \in [Phys -> {"none", "once", "periodic"}]
  BY <1>1, <1>2 DEF ControlTypeOK
<1>7. ControlTypeOK'
  BY <1>1, <1>2, <1>4, <1>6 DEF ControlTypeOK, proc
<1> QED
  BY <1>4, <1>5, <1>7 DEF TypeOK

\* The steps that move one context on and leave loops and hosts alone.
LEMMA PlainMoveTypes ==
  ASSUME TypeOK, NEW p \in Phys, NEW c \in Contexts, pc[p][c] # "off",
         NEW l \in LabelsOf(c), l # "off", Goto(p, c, l),
         hw' \in [Phys -> Int], base' \in [Phys -> Int],
         done' \in [Phys -> BOOLEAN],
         timer' \in [Phys -> {"none", "once", "periodic"}],
         call' \in [Phys -> [td : Int, reset : BOOLEAN, steps : Int]],
         UNCHANGED <<mod, saved, plan, host, proc, learned>>
  PROVE  TypeOK'
<1>1. ClockTypeOK'
  BY DEF TypeOK, ClockTypeOK, saved
<1>2. LoopsOK'
  BY DEF TypeOK, LoopsOK
<1>3. plan' \in [Phys -> [Contexts -> Plans]]
  BY DEF TypeOK, ControlTypeOK
<1>4. UNCHANGED <<host, logOwner, libDone, freed, learned>>
  BY DEF proc
<1> QED
  BY <1>1, <1>2, <1>3, <1>4, MoveTypes

\* The rest of set_pll_clock and reset_phy_regs.
LEMMA ResetStepTypes ==
  ASSUME TypeOK, NEW p \in Phys, NEW c \in Contexts,
         WriteStep(p, c) \/ EndSteps(p, c) \/ DeleteTimer(p, c) \/ WriteOriginal(p, c)
  PROVE  TypeOK'
<1>1. ClockTypeOK /\ ControlTypeOK /\ PlacesOK /\ LoopsOK
  BY DEF TypeOK
<1>2. \A l \in ResetLabels : l \in LabelsOf(c) /\ l # "off"
  BY DEF LabelsOf, ThreadLabels, ResetLabels
<1>3. CASE WriteStep(p, c)
  <2>1. /\ pc[p][c] = "write" /\ Goto(p, c, "step")
        /\ hw' = [hw EXCEPT ![p] = mod[p]]
        /\ \/ base' = [base EXCEPT ![p] = mod[p]]
           \/ base' = base
        /\ UNCHANGED <<mod, saved, done, timer, plan, call, host, proc, learned>>
    BY <1>3 DEF WriteStep, At
  <2>2. hw' \in [Phys -> Int] /\ base' \in [Phys -> Int]
    BY <1>1, <2>1 DEF ClockTypeOK
  <2> QED
    BY <1>1, <1>2, <2>1, <2>2, PlainMoveTypes DEF ControlTypeOK, ResetLabels
<1>4. CASE EndSteps(p, c)
  <2>1. /\ pc[p][c] = "step" /\ Goto(p, c, plan[p][c].then)
        /\ UNCHANGED <<regs, saved, done, timer, plan, call, host, proc, learned>>
    BY <1>4 DEF EndSteps, At
  <2>2. plan[p][c] \in Plans /\ LoopOK(c, plan[p][c])
    BY <1>1 DEF ControlTypeOK, LoopsOK
  <2>3. plan[p][c].then \in LabelsOf(c) /\ plan[p][c].then # "off"
    BY <2>2 DEF Plans, LoopOK, LabelsOf, ThreadLabels, ResetLabels, Contexts
  <2> QED
    BY <1>1, <2>1, <2>3, PlainMoveTypes DEF ControlTypeOK, ClockTypeOK, regs
<1>5. CASE DeleteTimer(p, c)
  <2>1. /\ pc[p][c] = "delete" /\ Goto(p, c, "plan")
        /\ timer' = [timer EXCEPT ![p] = "none"]
        /\ UNCHANGED <<regs, saved, done, plan, call, host, proc, learned>>
    BY <1>5 DEF DeleteTimer, At
  <2>2. timer' \in [Phys -> {"none", "once", "periodic"}]
    BY <1>1, <2>1 DEF ControlTypeOK
  <2> QED
    BY <1>1, <1>2, <2>1, <2>2, PlainMoveTypes
       DEF ControlTypeOK, ClockTypeOK, ResetLabels, regs
<1>6. CASE WriteOriginal(p, c)
  <2>1. /\ pc[p][c] = "orig" /\ Goto(p, c, "finish")
        /\ hw' = [hw EXCEPT ![p] = orig[p]]
        /\ UNCHANGED <<mod, base, saved, done, timer, plan, call, host, proc, learned>>
    BY <1>6 DEF WriteOriginal, At
  <2>2. hw' \in [Phys -> Int]
    BY <1>1, <2>1 DEF ClockTypeOK
  <2> QED
    BY <1>1, <1>2, <2>1, <2>2, PlainMoveTypes
       DEF ControlTypeOK, ClockTypeOK, ResetLabels
<1> QED
  BY <1>3, <1>4, <1>5, <1>6

\* What only a PHY's thread does around the shifted clock.
LEMMA ThreadTypes ==
  ASSUME TypeOK, NEW p \in Phys,
         LowerDone(p) \/ MakeTimer(p) \/ StopWaiting(p) \/ NextIteration(p)
  PROVE  TypeOK'
<1> DEFINE c == "sync"
<1>1. ClockTypeOK /\ ControlTypeOK /\ c \in Contexts
  BY DEF TypeOK, Contexts
<1>2. LabelsOf(c) = ThreadLabels /\ pc[p][c] # "off"
  BY <1>1 DEF TypeOK, PlacesOK, LabelsOf, ThreadLabels, ResetLabels
<1>3. "off" \notin ThreadLabels
  BY DEF ThreadLabels, ResetLabels
<1>4. PICK l \in ThreadLabels : Goto(p, c, l)
  BY DEF LowerDone, MakeTimer, StopWaiting, NextIteration, ThreadLabels, ResetLabels
<1>5. UNCHANGED <<regs, saved, plan, call, host, proc, learned>>
  BY DEF LowerDone, MakeTimer, StopWaiting, NextIteration
<1>6. done' \in [Phys -> BOOLEAN]
  BY <1>1 DEF LowerDone, MakeTimer, StopWaiting, NextIteration, ControlTypeOK
<1>7. timer' \in [Phys -> {"none", "once", "periodic"}]
  BY <1>1 DEF LowerDone, MakeTimer, StopWaiting, NextIteration, ControlTypeOK
<1> QED
  BY <1>1, <1>2, <1>3, <1>4, <1>5, <1>6, <1>7, PlainMoveTypes
     DEF ControlTypeOK, ClockTypeOK, regs

\* A call that is refused changes nothing but the call itself.
LEMMA RefuseSyncTypes ==
  ASSUME TypeOK, NEW p \in Phys, NEW td \in TimeDiffs, RefuseSync(p, td)
  PROVE  TypeOK'
<1>1. ClockTypeOK /\ ControlTypeOK /\ PlacesOK /\ "sync" \in Contexts
  BY DEF TypeOK, Contexts
<1>2. /\ call' = [call EXCEPT ![p] = [td |-> td, reset |-> TRUE, steps |-> 0]]
      /\ Goto(p, "sync", "post")
      /\ UNCHANGED <<regs, saved, done, timer, plan, host, proc, learned>>
  BY DEF RefuseSync
<1>3. [td |-> td, reset |-> TRUE, steps |-> 0] \in [td : Int, reset : BOOLEAN, steps : Int]
  BY PhyAssumption
<1>4. call' \in [Phys -> [td : Int, reset : BOOLEAN, steps : Int]]
  BY <1>1, <1>2, <1>3 DEF ControlTypeOK
<1>5. "post" \in LabelsOf("sync") /\ pc[p]["sync"] # "off"
  BY <1>1 DEF PlacesOK, LabelsOf, ThreadLabels, ResetLabels
<1> QED
  BY <1>1, <1>2, <1>4, <1>5, PlainMoveTypes DEF ControlTypeOK, ClockTypeOK, regs

LEMMA ContextTypes ==
  ASSUME TypeOK, NEW p \in Phys, NEW c \in Contexts, ContextStep(p, c)
  PROVE  TypeOK'
BY PrepareStepTypes, PlanRestoreTypes, RaiseDoneTypes, ResetStepTypes DEF ContextStep

\* log_message, Ctrl+C and the end of the program.
LEMMA ProcessTypes ==
  ASSUME TypeOK,
         \/ \E t \in Loggers : EnterLog(t)
         \/ \E t \in Threads : LeaveLog(t)
         \/ CtrlC \/ Uninit \/ UNCHANGED vars
  PROVE  TypeOK'
<1>1. UNCHANGED <<regs, saved, done, timer, pc, plan, call, host, learned>>
  BY DEF EnterLog, LeaveLog, CtrlC, Uninit, vars
<1>2. logOwner' \in Threads \cup {NoThread} /\ libDone' \in BOOLEAN /\ freed' \in BOOLEAN
  BY PhyAssumption
     DEF EnterLog, LeaveLog, CtrlC, Uninit, vars, proc, TypeOK, ControlTypeOK
<1>3. ClockTypeOK' /\ PlacesOK' /\ LoopsOK'
  BY <1>1 DEF TypeOK, ClockTypeOK, PlacesOK, LoopsOK, regs, saved
<1>4. ControlTypeOK'
  BY <1>1, <1>2 DEF TypeOK, ControlTypeOK
<1> QED
  BY <1>3, <1>4 DEF TypeOK

LEMMA NextTypes == TypeOK /\ [Next]_vars => TypeOK'
<1> SUFFICES ASSUME TypeOK, [Next]_vars PROVE TypeOK'
  OBVIOUS
<1>1. ASSUME NEW p \in Phys, NEW td \in TimeDiffs, StartSync(p, td) PROVE TypeOK'
  <2>1. td \in Int /\ Shift \in Nat /\ Shift2 \in Nat
    BY PhyAssumption
  <2>2. /\ ProgramPhy(p, td, Shift, Shift2, TRUE)
        /\ UNCHANGED <<regs, done, timer, host, proc>>
        /\ learned' \in [Phys -> Nat]
    BY <1>1 DEF StartSync, TypeOK, ControlTypeOK
  <2> QED
    BY <2>1, <2>2, ProgramPhyTypes
<1>2. ASSUME NEW p \in Phys, StartLearning(p) PROVE TypeOK'
  <2>1. call[p].td \in Int /\ LearningRate \in Nat
    BY PhyAssumption DEF TypeOK, ControlTypeOK
  <2>2. /\ ProgramPhy(p, call[p].td, LearningRate, 0, FALSE)
        /\ UNCHANGED <<regs, done, timer, host, proc>>
    BY <1>2 DEF StartLearning
  <2>3. learned' \in [Phys -> Nat]
    BY <1>2 DEF StartLearning, TypeOK, ControlTypeOK
  <2> QED
    BY <2>1, <2>2, <2>3, ProgramPhyTypes
<1>3. ASSUME NEW p \in Phys, NextIteration(p) \/ ThreadStep(p) PROVE TypeOK'
  BY <1>3, ThreadTypes, ContextTypes DEF ThreadStep, Contexts
<1>4. ASSUME NEW p \in Phys, Expiry(p) PROVE TypeOK'
  BY <1>4, ExpireTypes DEF Expiry
<1>5. ASSUME NEW p \in Phys, NEW h \in Handlers, ContextStep(p, h) PROVE TypeOK'
  BY <1>5, ContextTypes DEF Contexts
<1> QED
  BY <1>1, <1>2, <1>3, <1>4, <1>5, RefuseSyncTypes, ProcessTypes DEF Next, Terminated

\* Every reachable state is well typed, whatever the PHYs, threads, shifts and
\* time differences: above all, a handler activation is in its code exactly
\* while it has a host, and no loop of set_pll_clock runs past its last step.
THEOREM TypeCorrect == Spec => []TypeOK
<1>1. Init => TypeOK
  BY InitTypeOK
<1>2. TypeOK /\ [Next]_vars => TypeOK'
  BY NextTypes
<1> QED
  BY <1>1, <1>2, PTL DEF Spec

-----------------------------------------------------------------------------
(* Who owns a PHY.                                                         *)

OneActivation == \A g, h \in Handlers : g = h

\* Nothing of PHY p changes.
Untouched(p) ==
  /\ hw'[p] = hw[p] /\ base'[p] = base[p] /\ orig'[p] = orig[p]
  /\ done'[p] = done[p] /\ timer'[p] = timer[p]
  /\ pc'[p] = pc[p] /\ plan'[p] = plan[p]

\* The steps of the thread and of the handlers of PHY p.
PhyStep(p) ==
  \/ \E td \in TimeDiffs : StartSync(p, td) \/ RefuseSync(p, td)
  \/ StartLearning(p)
  \/ NextIteration(p)
  \/ ThreadStep(p)
  \/ Expiry(p)
  \/ \E h \in Handlers : ContextStep(p, h)

LEMMA UntouchedInv ==
  ASSUME NEW p \in Phys, PhyInv(p), Untouched(p)
  PROVE  PhyInv(p)'
BY DEF PhyInv, ThreadInv, ValueInv, HandlerInv, AtRest, Borrowed, Untouched

\* A step of one PHY leaves the others alone.
LEMMA OthersUntouched ==
  ASSUME TypeOK, NEW q \in Phys, PhyStep(q), NEW p \in Phys, p # q
  PROVE  Untouched(p)
<1>1. ClockTypeOK /\ ControlTypeOK
  BY DEF TypeOK
<1> USE <1>1 DEF ClockTypeOK, ControlTypeOK, Untouched, Goto, regs, saved
<1>2. ASSUME NEW c \in Contexts, ContextStep(q, c) PROVE Untouched(p)
  BY <1>2 DEF ContextStep, PrepareStep, WriteStep, EndSteps, DeleteTimer,
       PlanRestore, WriteOriginal, RaiseDone
<1>3. ASSUME NEW td \in TimeDiffs, StartSync(q, td) \/ RefuseSync(q, td)
      PROVE  Untouched(p)
  BY <1>3 DEF StartSync, RefuseSync, ProgramPhy
<1>4. CASE StartLearning(q) \/ NextIteration(q)
  BY <1>4 DEF StartLearning, ProgramPhy, NextIteration
<1>5. CASE ThreadStep(q)
  BY <1>2, <1>5 DEF ThreadStep, LowerDone, MakeTimer, StopWaiting, Contexts
<1>6. CASE Expiry(q)
  BY <1>6 DEF Expiry, Expire
<1> QED
  BY <1>2, <1>3, <1>4, <1>5, <1>6 DEF PhyStep, Contexts

LEMMA GotoPlace ==
  ASSUME TypeOK, NEW p \in Phys, NEW c \in Contexts, NEW l, Goto(p, c, l)
  PROVE  /\ pc'[p][c] = l
         /\ \A d \in Contexts : d # c => pc'[p][d] = pc[p][d]
BY DEF TypeOK, ControlTypeOK, Goto

-----------------------------------------------------------------------------
(* The steps of the PHY's thread.                                          *)

\* Outside synchronize_vsync nobody else works on the PHY.
LEMMA AtRestFacts ==
  ASSUME NEW p \in Phys, PhyInv(p), AtRest(p)
  PROVE  /\ hw[p] = base[p] /\ done[p] /\ timer[p] = "none"
         /\ \A h \in Handlers : pc[p][h] = "off"
BY DEF PhyInv, ThreadInv, ValueInv, HandlerInv, AtRest

LEMMA ProgramPhyInv ==
  ASSUME TypeOK, NEW p \in Phys, PhyInv(p), AtRest(p),
         NEW td, NEW s1, NEW s2, NEW reset \in BOOLEAN,
         ProgramPhy(p, td, s1, s2, reset), UNCHANGED <<hw, base, done, timer>>
  PROVE  PhyInv(p)'
<1> DEFINE then == IF reset THEN "arm" ELSE "return"
<1>1. /\ hw[p] = base[p] /\ done[p] /\ timer[p] = "none"
      /\ \A h \in Handlers : pc[p][h] = "off"
  BY AtRestFacts
<1>2. PICK l \in {"step"} \cup (IF reset THEN {"wait", "post"} ELSE {"return"}) :
        Goto(p, "sync", l)
  BY DEF ProgramPhy
<1>3. /\ pc'[p]["sync"] = l
      /\ \A h \in Handlers : pc'[p][h] = "off"
  BY <1>1, <1>2, GotoPlace, PhyAssumption DEF Contexts
<1>4. orig'[p] = hw[p]
  BY DEF ProgramPhy, TypeOK, ClockTypeOK
<1>5. plan'[p]["sync"].then = then
  <2> DEFINE pl == NewPlan(hw[p], TargetClock(hw[p], td, ChosenShift(td, s1, s2)), s1, then)
  <2>1. plan' = [plan EXCEPT ![p]["sync"] = pl] /\ pl.then = then
    BY DEF ProgramPhy, NewPlan
  <2> HIDE DEF pl, then
  <2> QED
    BY <2>1 DEF TypeOK, ControlTypeOK, Contexts
<1> QED
  BY <1>1, <1>2, <1>3, <1>4, <1>5
     DEF PhyInv, ThreadInv, ValueInv, HandlerInv, AtRest, Borrowed

\* A refused call, and the loop of pipe_sync_thread.
LEMMA RestInv ==
  ASSUME TypeOK, NEW p \in Phys, PhyInv(p), ~libDone,
         (\E td \in TimeDiffs : RefuseSync(p, td)) \/ NextIteration(p)
  PROVE  PhyInv(p)'
<1>1. AtRest(p) /\ UNCHANGED <<hw, base, orig, done, timer, plan>>
  BY DEF RefuseSync, NextIteration, At, AtRest, regs, saved
<1>2. PICK l \in {"idle", "post", "exited"} : Goto(p, "sync", l)
  BY DEF RefuseSync, NextIteration
<1>3. /\ pc'[p]["sync"] = l
      /\ \A h \in Handlers : pc'[p][h] = pc[p][h]
  BY <1>2, GotoPlace, PhyAssumption DEF Contexts
<1> QED
  BY <1>1, <1>2, <1>3, AtRestFacts
     DEF PhyInv, ThreadInv, ValueInv, HandlerInv, AtRest, Borrowed

\* Arming the timer, and the end of the wait.
LEMMA TimerInv ==
  ASSUME TypeOK, NEW p \in Phys, PhyInv(p), ~libDone,
         LowerDone(p) \/ MakeTimer(p) \/ StopWaiting(p)
  PROVE  PhyInv(p)'
<1>1. UNCHANGED <<hw, base, orig, plan>>
  BY DEF LowerDone, MakeTimer, StopWaiting, regs, saved
<1>2. ASSUME NEW l, Goto(p, "sync", l)
      PROVE  /\ pc'[p]["sync"] = l
             /\ \A h \in Handlers : pc'[p][h] = pc[p][h]
  BY <1>2, GotoPlace, PhyAssumption DEF Contexts
<1>3. CASE LowerDone(p)
  <2>1. pc[p]["sync"] = "arm" /\ Goto(p, "sync", "settimer") /\ UNCHANGED timer
    BY <1>3 DEF LowerDone, At
  <2>2. done'[p] = FALSE
    BY <1>3 DEF LowerDone, TypeOK, ControlTypeOK
  <2> QED
    BY <1>1, <1>2, <2>1, <2>2
       DEF PhyInv, ThreadInv, ValueInv, HandlerInv, AtRest, Borrowed
<1>4. CASE MakeTimer(p)
  <2>1. pc[p]["sync"] = "settimer" /\ Goto(p, "sync", "wait") /\ UNCHANGED done
    BY <1>4 DEF MakeTimer, At
  <2> QED
    BY <1>1, <1>2, <2>1
       DEF PhyInv, ThreadInv, ValueInv, HandlerInv, AtRest, Borrowed
<1>5. CASE StopWaiting(p)
  <2>1. /\ pc[p]["sync"] = "wait" /\ done[p] /\ Goto(p, "sync", "post")
        /\ UNCHANGED <<done, timer>>
    BY <1>5 DEF StopWaiting, At
  <2> QED
    BY <1>1, <1>2, <2>1
       DEF PhyInv, ThreadInv, ValueInv, HandlerInv, AtRest, Borrowed
<1> QED
  BY <1>3, <1>4, <1>5

\* The loop of set_pll_clock under program_phy: the thread runs nothing else of
\* what a reset consists of before Ctrl+C.
LEMMA LoopInv ==
  ASSUME TypeOK, NEW p \in Phys, PhyInv(p), ~libDone, ContextStep(p, "sync")
  PROVE  PhyInv(p)'
<1> DEFINE c == "sync"
           then == plan[p][c].then
<1>1. c \in Contexts /\ ClockTypeOK /\ ControlTypeOK
  BY DEF Contexts, TypeOK
<1>2. pc[p][c] \in {"step", "write"}
  BY DEF ContextStep, PrepareStep, WriteStep, EndSteps, DeleteTimer, PlanRestore,
         WriteOriginal, RaiseDone, At, PhyInv, ThreadInv
<1>3. /\ done[p] /\ timer[p] = "none"
      /\ \A h \in Handlers : pc[p][h] = "off"
      /\ \/ then = "arm" /\ orig[p] = base[p]
         \/ then = "return" /\ hw[p] = base[p]
  <2>1. plan[p][c] \in Plans /\ then # "orig"
    BY <1>1, <1>2 DEF PhyInv, ThreadInv, ControlTypeOK
  <2>2. then \in {"arm", "return"}
    BY <2>1 DEF Plans
  <2>3. /\ done[p] /\ timer[p] = "none"
        /\ \A h \in Handlers : pc[p][h] = "off"
    BY <1>2 DEF PhyInv, ThreadInv, HandlerInv
  <2>4. /\ then = "arm" => orig[p] = base[p]
        /\ then = "return" => hw[p] = base[p]
    BY <1>2 DEF PhyInv, ValueInv, Borrowed
  <2> QED
    BY <2>2, <2>3, <2>4
<1>4. UNCHANGED <<orig, done, timer>>
  BY <1>2 DEF ContextStep, PrepareStep, WriteStep, EndSteps, DeleteTimer,
       PlanRestore, WriteOriginal, RaiseDone, At, saved
<1>5. ASSUME NEW l, Goto(p, c, l)
      PROVE  /\ pc'[p][c] = l
             /\ \A h \in Handlers : pc'[p][h] = "off"
  BY <1>1, <1>3, <1>5, GotoPlace, PhyAssumption DEF Contexts
<1>6. plan'[p][c].then = then
  BY <1>1, <1>2
     DEF ContextStep, PrepareStep, WriteStep, EndSteps, DeleteTimer, PlanRestore,
         WriteOriginal, RaiseDone, At, ControlTypeOK, Plans
<1>7. CASE PrepareStep(p, c)
  <2>1. Goto(p, c, "write") /\ UNCHANGED <<hw, base>>
    BY <1>7 DEF PrepareStep
  <2> QED
    BY <1>3, <1>4, <1>5, <1>6, <2>1
       DEF PhyInv, ThreadInv, ValueInv, HandlerInv, AtRest, Borrowed
<1>8. CASE WriteStep(p, c)
  <2>1. Goto(p, c, "step")
    BY <1>8 DEF WriteStep
  <2>2. /\ then = "arm" => UNCHANGED base
        /\ then = "return" => hw'[p] = mod[p] /\ base'[p] = mod[p]
    BY <1>1, <1>8 DEF WriteStep, ClockTypeOK
  <2> QED
    BY <1>3, <1>4, <1>5, <1>6, <2>1, <2>2
       DEF PhyInv, ThreadInv, ValueInv, HandlerInv, AtRest, Borrowed
<1>9. CASE EndSteps(p, c)
  <2>1. Goto(p, c, then) /\ UNCHANGED <<hw, base>>
    BY <1>9 DEF EndSteps, regs
  <2> QED
    BY <1>3, <1>4, <1>5, <1>6, <2>1
       DEF PhyInv, ThreadInv, ValueInv, HandlerInv, AtRest, Borrowed
<1> QED
  BY <1>2, <1>7, <1>8, <1>9
     DEF ContextStep, DeleteTimer, PlanRestore, WriteOriginal, RaiseDone, At

-----------------------------------------------------------------------------
(* The steps of the PHY's handler.                                         *)

LEMMA ExpireInv ==
  ASSUME TypeOK, OneActivation, NEW p \in Phys, PhyInv(p), Expiry(p)
  PROVE  PhyInv(p)'
<1>1. PICK h \in Handlers, t \in Threads : Expire(p, h, t)
  BY DEF Expiry
<1>2. /\ timer[p] # "none"
      /\ timer'[p] \in {timer[p], "none"}
      /\ Goto(p, h, "delete")
      /\ UNCHANGED <<hw, base, orig, done, plan>>
  BY <1>1 DEF Expire, regs, saved, TypeOK, ControlTypeOK
<1>3. /\ pc'[p][h] = "delete"
      /\ pc'[p]["sync"] = pc[p]["sync"]
  BY <1>2, GotoPlace, PhyAssumption DEF Contexts
<1>4. \A g \in Handlers : g = h
  BY DEF OneActivation
<1> QED
  BY <1>2, <1>3, <1>4
     DEF PhyInv, ThreadInv, ValueInv, HandlerInv, AtRest, Borrowed

LEMMA HandlerStepInv ==
  ASSUME TypeOK, OneActivation, NEW p \in Phys, PhyInv(p), ~libDone,
         NEW h \in Handlers, ContextStep(p, h)
  PROVE  PhyInv(p)'
<1>1. h \in Contexts /\ ClockTypeOK /\ ControlTypeOK /\ LoopsOK
  BY DEF Contexts, TypeOK
<1>2. \A g \in Handlers : g = h
  BY DEF OneActivation
<1>3. pc[p][h] # "off"
  BY DEF ContextStep, PrepareStep, WriteStep, EndSteps, DeleteTimer, PlanRestore,
         WriteOriginal, RaiseDone, At
<1>4. pc[p]["sync"] = "wait" /\ ~done[p] /\ orig[p] = base[p]
  BY <1>3 DEF PhyInv, HandlerInv, ValueInv, Borrowed
<1>5. UNCHANGED <<base, orig>>
  BY PhyAssumption
     DEF ContextStep, PrepareStep, WriteStep, EndSteps, DeleteTimer, PlanRestore,
         WriteOriginal, RaiseDone, saved, regs
<1>6. ASSUME NEW l, Goto(p, h, l)
      PROVE  pc'[p][h] = l /\ pc'[p]["sync"] = "wait"
  BY <1>1, <1>4, <1>6, GotoPlace, PhyAssumption DEF Contexts
<1>7. CASE DeleteTimer(p, h)
  <2>1. Goto(p, h, "plan") /\ timer'[p] = "none" /\ UNCHANGED <<hw, done>>
    BY <1>1, <1>7 DEF DeleteTimer, regs, ControlTypeOK
  <2> QED
    BY <1>2, <1>4, <1>5, <1>6, <2>1
       DEF PhyInv, ThreadInv, ValueInv, HandlerInv, AtRest, Borrowed
<1>8. ASSUME pc[p][h] # "delete", UNCHANGED timer
      PROVE  timer'[p] = "none"
  BY <1>3, <1>8 DEF PhyInv, HandlerInv
<1>9. CASE PlanRestore(p, h) \/ PrepareStep(p, h) \/ WriteStep(p, h) \/ EndSteps(p, h)
  <2>1. plan[p][h].then = "orig"
    BY <1>1 DEF LoopsOK, LoopOK
  <2>2. /\ \E l \in {"step", "write", "orig"} : Goto(p, h, l)
        /\ pc[p][h] # "delete" /\ UNCHANGED <<done, timer>>
    BY <1>9, <2>1 DEF PlanRestore, PrepareStep, WriteStep, EndSteps, At
  <2> QED
    BY <1>2, <1>4, <1>5, <1>6, <1>8, <2>2
       DEF PhyInv, ThreadInv, ValueInv, HandlerInv, AtRest, Borrowed
<1>10. CASE WriteOriginal(p, h)
  <2>1. /\ Goto(p, h, "finish") /\ hw'[p] = orig[p]
        /\ pc[p][h] # "delete" /\ UNCHANGED <<done, timer>>
    BY <1>1, <1>10 DEF WriteOriginal, At, ClockTypeOK
  <2> QED
    BY <1>2, <1>4, <1>5, <1>6, <1>8, <2>1
       DEF PhyInv, ThreadInv, ValueInv, HandlerInv, AtRest, Borrowed
<1>11. CASE RaiseDone(p, h)
  <2>1. /\ Goto(p, h, "off") /\ done'[p] = TRUE /\ pc[p][h] = "finish"
        /\ UNCHANGED <<hw, timer>>
    BY <1>1, <1>11, PhyAssumption DEF RaiseDone, At, ControlTypeOK, regs
  <2>2. hw[p] = base[p]
    BY <2>1 DEF PhyInv, HandlerInv
  <2> QED
    BY <1>2, <1>4, <1>5, <1>6, <1>8, <2>1, <2>2
       DEF PhyInv, ThreadInv, ValueInv, HandlerInv, AtRest, Borrowed
<1> QED
  BY <1>7, <1>9, <1>10, <1>11 DEF ContextStep

-----------------------------------------------------------------------------
(* Together.                                                               *)

LEMMA PhyStepInv ==
  ASSUME TypeOK, OneActivation, NEW p \in Phys, PhyInv(p), ~libDone, PhyStep(p)
  PROVE  PhyInv(p)'
<1>1. ASSUME NEW td \in TimeDiffs, StartSync(p, td) PROVE PhyInv(p)'
  <2>1. /\ ProgramPhy(p, td, Shift, Shift2, TRUE)
        /\ AtRest(p) /\ UNCHANGED <<hw, base, done, timer>>
    BY <1>1 DEF StartSync, At, AtRest, regs
  <2> QED
    BY <2>1, ProgramPhyInv
<1>2. CASE StartLearning(p)
  <2>1. /\ ProgramPhy(p, call[p].td, LearningRate, 0, FALSE)
        /\ AtRest(p) /\ UNCHANGED <<hw, base, done, timer>>
    BY <1>2 DEF StartLearning, At, AtRest, regs
  <2> QED
    BY <2>1, ProgramPhyInv
<1> QED
  BY <1>1, <1>2, RestInv, TimerInv, LoopInv, ExpireInv, HandlerStepInv
     DEF PhyStep, ThreadStep

LEMMA InitOwnership == Init => OwnershipInv
<1> SUFFICES ASSUME Init, NEW p \in Phys PROVE PhyInv(p)
  BY DEF OwnershipInv
<1>1. /\ pc[p]["sync"] = "idle" /\ done[p] /\ timer[p] = "none" /\ hw[p] = base[p]
      /\ \A h \in Handlers : pc[p][h] = "off"
  BY PhyAssumption DEF Init, Contexts
<1> QED
  BY <1>1 DEF PhyInv, ThreadInv, ValueInv, HandlerInv, AtRest, Borrowed

LEMMA NextOwnership ==
  ASSUME TypeOK, OneActivation, OwnershipInv, [Next]_vars
  PROVE  OwnershipInv'
<1> SUFFICES ASSUME ~libDone', NEW p \in Phys PROVE PhyInv(p)'
  BY DEF OwnershipInv
<1>1. CASE \E q \in Phys : PhyStep(q)
  <2>1. PICK q \in Phys : PhyStep(q)
    BY <1>1
  <2>2. UNCHANGED libDone
    BY <2>1 DEF PhyStep, StartSync, RefuseSync, StartLearning, NextIteration,
         ThreadStep, Expiry, Expire, ContextStep, PrepareStep, WriteStep, EndSteps,
         DeleteTimer, PlanRestore, WriteOriginal, RaiseDone, LowerDone, MakeTimer,
         StopWaiting, proc
  <2>3. ~libDone /\ PhyInv(p) /\ PhyInv(q)
    BY <2>2 DEF OwnershipInv
  <2>4. CASE q = p
    BY <2>1, <2>3, <2>4, PhyStepInv
  <2>5. CASE q # p
    BY <2>1, <2>3, <2>5, OthersUntouched, UntouchedInv
  <2> QED
    BY <2>4, <2>5
<1>2. CASE ~\E q \in Phys : PhyStep(q)
  <2>1. /\ UNCHANGED <<hw, base, orig, done, timer, pc, plan>>
        /\ ~libDone
    BY <1>2 DEF Next, PhyStep, EnterLog, LeaveLog, CtrlC, Uninit, Terminated, vars,
         regs, saved, proc
  <2>2. PhyInv(p) /\ Untouched(p)
    BY <2>1 DEF OwnershipInv, Untouched
  <2> QED
    BY <2>2, UntouchedInv
<1> QED
  BY <1>1, <1>2

\* What is read off the invariant.
LEMMA OwnershipImplies ==
  ASSUME TypeOK, OwnershipInv
  PROVE  RestoredAfterSync /\ HandlerIsAwaited
<1>1. RestoredAfterSync
  BY DEF RestoredAfterSync, OwnershipInv, PhyInv, ValueInv
<1>2. HandlerIsAwaited
  BY DEF HandlerIsAwaited, OwnershipInv, PhyInv, HandlerInv, Active, TypeOK, PlacesOK
<1> QED
  BY <1>1, <1>2

\* The registers a reset will write back are never replaced while the reset is
\* still to come: no read_registers under an armed timer or a running handler.
SavedUntilReset ==
  [][~libDone => \A p \in Phys :
       orig'[p] # orig[p] => timer[p] = "none" /\ ~Active(p)]_vars

\* The thread is outside synchronize_vsync whenever it reads the registers.
LEMMA SavedStep ==
  ASSUME TypeOK, OwnershipInv, [Next]_vars, ~libDone, NEW p \in Phys,
         orig'[p] # orig[p]
  PROVE  timer[p] = "none" /\ ~Active(p)
<1>1. PICK q \in Phys : (\E td \in TimeDiffs : StartSync(q, td)) \/ StartLearning(q)
  BY DEF Next, RefuseSync, NextIteration, ThreadStep, Expiry, Expire, ContextStep,
       PrepareStep, WriteStep, EndSteps, DeleteTimer, PlanRestore, WriteOriginal,
       RaiseDone, LowerDone, MakeTimer, StopWaiting, EnterLog, LeaveLog, CtrlC,
       Uninit, Terminated, vars, saved
<1>2. q = p
  BY <1>1, OthersUntouched DEF PhyStep, Untouched
<1>3. PhyInv(p) /\ AtRest(p)
  BY <1>1, <1>2 DEF StartSync, StartLearning, At, AtRest, OwnershipInv
<1> QED
  BY <1>3, AtRestFacts DEF Active, TypeOK, PlacesOK

\* A synchronisation leaves no trace (RestoredAfterSync): for any number of PHYs
\* and threads, any shift and any time difference, while the program runs, the
\* register of a PHY whose synchronize_vsync has returned is what it was.
THEOREM Restored ==
  ASSUME OneActivation
  PROVE  Spec => []RestoredAfterSync
<1>1. Init => OwnershipInv
  BY InitOwnership
<1>2. TypeOK /\ OwnershipInv /\ [Next]_vars => OwnershipInv'
  BY NextOwnership
<1>3. TypeOK /\ OwnershipInv => RestoredAfterSync
  BY OwnershipImplies
<1> QED
  BY <1>1, <1>2, <1>3, TypeCorrect, PTL DEF Spec

\* A timer is armed, or a handler runs, only while the PHY's thread waits for the flag
\* to be raised (wait_until_done): HandlerIsAwaited.
THEOREM Awaited ==
  ASSUME OneActivation
  PROVE  Spec => []HandlerIsAwaited
<1>1. Init => OwnershipInv
  BY InitOwnership
<1>2. TypeOK /\ OwnershipInv /\ [Next]_vars => OwnershipInv'
  BY NextOwnership
<1>3. TypeOK /\ OwnershipInv => HandlerIsAwaited
  BY OwnershipImplies
<1> QED
  BY <1>1, <1>2, <1>3, TypeCorrect, PTL DEF Spec

\* The saved registers outlive the reset that needs them (SavedUntilReset): no
\* read_registers under an armed timer or a running handler.
THEOREM Saved ==
  ASSUME OneActivation
  PROVE  Spec => SavedUntilReset
<1>1. Init => OwnershipInv
  BY InitOwnership
<1>2. TypeOK /\ OwnershipInv /\ [Next]_vars => OwnershipInv'
  BY NextOwnership
<1> DEFINE Step == ~libDone => \A p \in Phys :
             orig'[p] # orig[p] => timer[p] = "none" /\ ~Active(p)
<1>3. TypeOK /\ OwnershipInv /\ [Next]_vars => [Step]_vars
  BY SavedStep
<1> QED
  BY <1>1, <1>2, <1>3, TypeCorrect, PTL DEF Spec, SavedUntilReset

-----------------------------------------------------------------------------
(* PhyControl implements PllLoan.  Who owns a PHY decides what each of its   *)
(* steps is there: a PHY that its thread is going to wait for, or its        *)
(* handler is resetting, is lent; any other is home.                         *)

\* A PHY that is not lent has the clock it is to have.
LEMMA NotBorrowedHome ==
  ASSUME TypeOK, NEW p \in Phys, PhyInv(p), ~Borrowed(p)
  PROVE  hw[p] = base[p]
<1>1. /\ pc[p]["sync"] \in ThreadLabels
      /\ plan[p]["sync"].then \in {"arm", "return", "orig"}
  BY DEF TypeOK, PlacesOK, LabelsOf, ControlTypeOK, Contexts, Plans
<1> QED
  BY <1>1 DEF PhyInv, ThreadInv, ValueInv, AtRest, Borrowed, ThreadLabels, ResetLabels

\* A PHY whose handler is at work is lent.
LEMMA HandledIsBorrowed ==
  ASSUME NEW p \in Phys, PhyInv(p), NEW h \in Handlers, pc[p][h] # "off"
  PROVE  Borrowed(p)
BY DEF PhyInv, HandlerInv, Borrowed

\* Only the two writes of program_mmio touch the clock.
LEMMA QuietSteps ==
  ASSUME NEW p \in Phys, PhyStep(p),
         ~ \E c \in Contexts : WriteStep(p, c) \/ WriteOriginal(p, c)
  PROVE  UNCHANGED <<hw, base>>
BY DEF PhyStep, StartSync, RefuseSync, StartLearning, NextIteration, ThreadStep,
     Expiry, Expire, ContextStep, PrepareStep, EndSteps, DeleteTimer, PlanRestore,
     RaiseDone, LowerDone, MakeTimer, StopWaiting, regs, Contexts

\* What one step does to a PHY, seen by its lender.
Moved(p) ==
  /\ Borrowed(p) /\ Borrowed(p)'
  /\ UNCHANGED base
Adjusted(p) ==
  /\ ~Borrowed(p) /\ ~Borrowed(p)'
  /\ base' = [base EXCEPT ![p] = hw'[p]]
Stayed(p) ==
  /\ UNCHANGED <<hw, base>>
  /\ Borrowed(p)' = Borrowed(p) \/ hw[p] = base[p]

\* The loop of set_pll_clock writes for a synchronisation or for good.
LEMMA ThreadWrites ==
  ASSUME TypeOK, NEW p \in Phys, PhyInv(p), WriteStep(p, "sync")
  PROVE  Moved(p) \/ Adjusted(p)
<1> DEFINE then == plan[p]["sync"].then
<1>1. /\ pc[p]["sync"] = "write" /\ UNCHANGED plan
      /\ hw' = [hw EXCEPT ![p] = mod[p]] /\ hw'[p] = mod[p]
      /\ base' = IF then = "return" THEN [base EXCEPT ![p] = mod[p]] ELSE base
  BY DEF WriteStep, At, TypeOK, ClockTypeOK
<1>2. then \in {"arm", "return"}
  BY <1>1 DEF TypeOK, ControlTypeOK, Contexts, Plans, PhyInv, ThreadInv
<1>3. pc'[p]["sync"] = "step"
  BY GotoPlace DEF WriteStep, Contexts
<1> QED
  BY <1>1, <1>2, <1>3 DEF Moved, Adjusted, Borrowed

LEMMA HandlerWrites ==
  ASSUME TypeOK, NEW p \in Phys, PhyInv(p), NEW h \in Handlers,
         WriteStep(p, h) \/ WriteOriginal(p, h)
  PROVE  Moved(p)
<1>1. /\ pc[p][h] # "off" /\ UNCHANGED <<base, done>>
      /\ \E l : Goto(p, h, l)
  BY PhyAssumption DEF WriteStep, WriteOriginal, At
<1>2. pc[p]["sync"] = "wait" /\ ~done[p]
  BY <1>1 DEF PhyInv, HandlerInv
<1>3. pc'[p]["sync"] = "wait"
  BY <1>1, <1>2, GotoPlace, PhyAssumption DEF Contexts
<1> QED
  BY <1>1, <1>2, <1>3 DEF Moved, Borrowed

LEMMA StepKinds ==
  ASSUME TypeOK, TypeOK', OneActivation, NEW p \in Phys, PhyInv(p), ~libDone, PhyStep(p)
  PROVE  Moved(p) \/ Adjusted(p) \/ Stayed(p)
<1>1. PhyInv(p)'
  BY PhyStepInv
<1>2. CASE \E c \in Contexts : WriteStep(p, c) \/ WriteOriginal(p, c)
  <2>1. ~WriteOriginal(p, "sync")
    BY DEF WriteOriginal, At, PhyInv, ThreadInv
  <2> QED
    BY <1>2, <2>1, ThreadWrites, HandlerWrites DEF Contexts
<1>3. CASE ~ \E c \in Contexts : WriteStep(p, c) \/ WriteOriginal(p, c)
  <2>1. UNCHANGED <<hw, base>>
    BY <1>3, QuietSteps
  <2>2. ~Borrowed(p) => hw[p] = base[p]
    BY NotBorrowedHome
  <2>3. ~Borrowed(p)' => hw'[p] = base'[p]
    <3>1. (TypeOK /\ PhyInv(p) /\ ~Borrowed(p) => hw[p] = base[p])'
      BY NotBorrowedHome, PTL
    <3> QED
      BY <1>1, <3>1
  <2>4. Borrowed(p) \in BOOLEAN /\ Borrowed(p)' \in BOOLEAN
    BY DEF Borrowed
  <2> QED
    BY <2>1, <2>2, <2>3, <2>4 DEF Stayed
<1> QED
  BY <1>2, <1>3

-----------------------------------------------------------------------------
(* The steps of PhyControl as steps of PllLoan.                            *)

LEMMA LoanInit == Init => Loan!Init
<1> SUFFICES ASSUME Init PROVE Loan!Init
  OBVIOUS
<1>1. hw \in [Phys -> Int] /\ base = hw
  BY PhyAssumption DEF Init
<1>2. \A p \in Phys : pc[p]["sync"] = "idle"
  BY DEF Init, Contexts
<1> QED
  BY <1>1, <1>2 DEF Loan!Init, LentOut, Borrowed, Init

\* A step of one PHY while the program runs.
LEMMA LoanPhyStep ==
  ASSUME TypeOK, TypeOK', OneActivation, OwnershipInv, ~libDone,
         NEW p \in Phys, PhyStep(p)
  PROVE  Loan!Next \/ UNCHANGED Loan!vars
<1>1. UNCHANGED <<libDone, freed>> /\ ~freed
  BY DEF PhyStep, StartSync, RefuseSync, StartLearning, NextIteration, ThreadStep,
       Expiry, Expire, ContextStep, PrepareStep, WriteStep, EndSteps, DeleteTimer,
       PlanRestore, WriteOriginal, RaiseDone, LowerDone, MakeTimer, StopWaiting,
       proc, At, Runs
<1>2. ASSUME NEW q \in Phys, q # p
      PROVE  hw'[q] = hw[q] /\ base'[q] = base[q] /\ Borrowed(q)' = Borrowed(q)
  BY <1>2, OthersUntouched DEF Untouched, Borrowed
<1>3. /\ hw \in [Phys -> Int] /\ hw' \in [Phys -> Int]
      /\ LentOut = {q \in Phys : Borrowed(q)}
      /\ LentOut' = {q \in Phys : Borrowed(q)'}
  BY <1>1 DEF LentOut, TypeOK, ClockTypeOK
<1>4. Loan!SetClock(p)
  BY <1>2, <1>3 DEF Loan!SetClock
<1>5. Moved(p) \/ Adjusted(p) \/ Stayed(p)
  BY StepKinds DEF OwnershipInv
<1>6. CASE Moved(p)
  <2>1. p \in LentOut /\ LentOut' = LentOut
    BY <1>2, <1>3, <1>6 DEF Moved
  <2>2. Loan!Move(p)
    BY <1>1, <1>4, <1>6, <2>1 DEF Loan!Move, Moved
  <2> QED
    BY <2>2 DEF Loan!Next
<1>7. CASE Adjusted(p)
  <2>1. p \notin LentOut /\ LentOut' = LentOut
    BY <1>2, <1>3, <1>7 DEF Adjusted
  <2>2. hw[p] = base[p]
    BY <1>7, NotBorrowedHome DEF Adjusted, OwnershipInv
  <2>3. Loan!Adjust(p)
    BY <1>1, <1>4, <1>7, <2>1, <2>2 DEF Loan!Adjust, Loan!AtHome, Adjusted
  <2> QED
    BY <2>3 DEF Loan!Next
<1>8. CASE Stayed(p)
  <2>1. CASE Borrowed(p)' = Borrowed(p)
    <3>1. LentOut' = LentOut
      BY <1>2, <1>3, <2>1
    <3> QED
      BY <1>1, <1>8, <3>1 DEF Stayed, Loan!vars
  <2>2. CASE Borrowed(p) /\ ~Borrowed(p)' /\ hw[p] = base[p]
    <3>1. p \in LentOut /\ LentOut' = LentOut \ {p}
      BY <1>2, <1>3, <2>2
    <3>2. Loan!Return(p)
      BY <1>1, <1>8, <2>2, <3>1 DEF Stayed, Loan!Return, Loan!AtHome
    <3> QED
      BY <3>2 DEF Loan!Next
  <2>3. CASE ~Borrowed(p) /\ Borrowed(p)' /\ hw[p] = base[p]
    <3>1. p \notin LentOut /\ LentOut' = LentOut \cup {p}
      BY <1>2, <1>3, <2>3
    <3>2. Loan!Borrow(p)
      BY <1>1, <1>8, <2>3, <3>1 DEF Stayed, Loan!Borrow, Loan!AtHome
    <3> QED
      BY <3>2 DEF Loan!Next
  <2>4. Borrowed(p) \in BOOLEAN /\ Borrowed(p)' \in BOOLEAN
    BY DEF Borrowed
  <2> QED
    BY <1>8, <2>1, <2>2, <2>3, <2>4 DEF Stayed
<1> QED
  BY <1>5, <1>6, <1>7, <1>8

\* After Ctrl+C every step of one PHY is one of winding down.
LEMMA LoanWindDown ==
  ASSUME TypeOK, TypeOK', libDone, NEW p \in Phys, PhyStep(p)
  PROVE  Loan!Next
<1>1. UNCHANGED <<libDone, freed>> /\ ~freed
  BY DEF PhyStep, StartSync, RefuseSync, StartLearning, NextIteration, ThreadStep,
       Expiry, Expire, ContextStep, PrepareStep, WriteStep, EndSteps, DeleteTimer,
       PlanRestore, WriteOriginal, RaiseDone, LowerDone, MakeTimer, StopWaiting,
       proc, At, Runs
<1>2. \A q \in Phys \ {p} : hw'[q] = hw[q] /\ base'[q] = base[q]
  BY OthersUntouched DEF Untouched
<1>3. hw' \in [Phys -> Int] /\ base' \in [Phys -> Int]
  BY DEF TypeOK, ClockTypeOK
<1>4. Loan!WindDown(p)
  BY <1>1, <1>2, <1>3 DEF Loan!WindDown, Loan!SetClock, LentOut
<1> QED
  BY <1>4 DEF Loan!Next

LEMMA LoanStep ==
  ASSUME TypeOK, TypeOK', OneActivation, OwnershipInv, [Next]_vars
  PROVE  Loan!Next \/ UNCHANGED Loan!vars
<1>1. CASE \E p \in Phys : PhyStep(p)
  BY <1>1, LoanPhyStep, LoanWindDown
<1>2. CASE ~ \E p \in Phys : PhyStep(p)
  <2>1. \/ CtrlC \/ Uninit
        \/ UNCHANGED <<hw, base, done, pc, plan, libDone, freed>>
    BY <1>2 DEF Next, PhyStep, EnterLog, LeaveLog, Terminated, vars, regs, proc
  <2>2. CASE CtrlC
    BY <2>2 DEF CtrlC, regs, Loan!Next, Loan!Stop, LentOut
  <2>3. CASE Uninit
    <3>1. LentOut = {} /\ LentOut' = {} /\ ~freed /\ freed' /\ UNCHANGED <<hw, base, libDone>>
      BY <2>3 DEF Uninit, LentOut, Borrowed, regs
    <3>2. freed' = TRUE
      BY <2>3 DEF Uninit
    <3> QED
      BY <3>1, <3>2 DEF Loan!Next, Loan!End
  <2>4. CASE UNCHANGED <<hw, base, done, pc, plan, libDone, freed>>
    BY <2>4 DEF Loan!vars, LentOut, Borrowed
  <2> QED
    BY <2>1, <2>2, <2>3, <2>4
<1> QED
  BY <1>1, <1>2

\* PhyControl implements PllLoan (LoanSpec): for any PHYs, threads, shifts, time
\* differences and losses of precision, reset_phy_regs and wait_until_done give
\* back what program_phy took, and nothing else moves a clock.
THEOREM Implements ==
  ASSUME OneActivation
  PROVE  Spec => LoanSpec
<1>1. Init => Loan!Init
  BY LoanInit
<1>2. Init => OwnershipInv
  BY InitOwnership
<1>3. TypeOK /\ OwnershipInv /\ [Next]_vars => OwnershipInv'
  BY NextOwnership
<1>4. TypeOK /\ TypeOK' /\ OwnershipInv /\ [Next]_vars
        => [Loan!Next]_(Loan!vars)
  BY LoanStep
<1> QED
  BY <1>1, <1>2, <1>3, <1>4, TypeCorrect, PTL DEF Spec, LoanSpec, Loan!Spec

-----------------------------------------------------------------------------
(* What the promise of PllLoan is worth.                                   *)

LEMMA NextLoan ==
  Loan!TypeOK /\ Loan!Settled /\ [Loan!Next]_(Loan!vars) => Loan!TypeOK' /\ Loan!Settled'
<1> SUFFICES ASSUME Loan!TypeOK, Loan!Settled, [Loan!Next]_(Loan!vars)
             PROVE  Loan!TypeOK' /\ Loan!Settled'
  OBVIOUS
<1> USE DEF Loan!TypeOK, Loan!Settled, Loan!AtHome
<1>1. ASSUME NEW p \in Phys, Loan!Borrow(p) PROVE Loan!TypeOK' /\ Loan!Settled'
  BY <1>1 DEF Loan!Borrow
<1>2. ASSUME NEW p \in Phys, Loan!Move(p) PROVE Loan!TypeOK' /\ Loan!Settled'
  BY <1>2 DEF Loan!Move, Loan!SetClock
<1>3. ASSUME NEW p \in Phys, Loan!Return(p) PROVE Loan!TypeOK' /\ Loan!Settled'
  BY <1>3 DEF Loan!Return
<1>4. ASSUME NEW p \in Phys, Loan!Adjust(p) PROVE Loan!TypeOK' /\ Loan!Settled'
  BY <1>4 DEF Loan!Adjust, Loan!SetClock
<1>5. ASSUME NEW p \in Phys, Loan!WindDown(p) PROVE Loan!TypeOK' /\ Loan!Settled'
  BY <1>5 DEF Loan!WindDown, Loan!SetClock
<1>6. CASE Loan!Stop
  BY <1>6 DEF Loan!Stop
<1>7. CASE Loan!End
  BY <1>7 DEF Loan!End
<1>8. CASE UNCHANGED Loan!vars
  BY <1>8 DEF Loan!vars
<1> QED
  BY <1>1, <1>2, <1>3, <1>4, <1>5, <1>6, <1>7, <1>8 DEF Loan!Next

\* Until Ctrl+C every clock that no synchronisation is at work on is where it
\* should be, and the PHYs are deleted only when none is lent (phy.cpp:90-93): what
\* every implementation of PllLoan gives, and so PhyControl.
THEOREM LoanSettled ==
  ASSUME OneActivation
  PROVE  Spec => []Loan!Settled
<1>1. Loan!Init => Loan!TypeOK /\ Loan!Settled
  BY DEF Loan!Init, Loan!TypeOK, Loan!Settled, Loan!AtHome
<1>2. LoanSpec => []Loan!Settled
  BY <1>1, NextLoan, PTL DEF LoanSpec, Loan!Spec
<1> QED
  BY <1>2, Implements, PTL

-----------------------------------------------------------------------------
(* After Ctrl+C the thread and the handler may both be in the reset, and   *)
(* each may write what the other has just put right. Whoever does so still *)
(* has the saved registers to write, and those are the original ones as    *)
(* long as anybody is to write them - without learning, which reads them   *)
(* again half way back.                                                    *)

Unwinding == {"delete", "plan", "step", "write", "orig"}

\* Somebody has yet to write the saved registers back.
Pending(p) ==
  \/ pc[p]["sync"] \in {"arm", "settimer", "wait"} \cup Unwinding
  \/ \E h \in Handlers : pc[p][h] \in Unwinding

\* The thread is on its way to a shifted clock, or has not yet set out.
Outward(p) ==
  \/ pc[p]["sync"] \in {"idle", "arm", "settimer"}
  \/ pc[p]["sync"] \in {"step", "write"} /\ plan[p]["sync"].then = "arm"

ResetInv(p) ==
  /\ pc[p]["sync"] # "return"
  /\ pc[p]["sync"] \in {"step", "write"} => plan[p]["sync"].then # "return"
  /\ Outward(p) => \A h \in Handlers : pc[p][h] = "off"
  /\ timer[p] # "none" => pc[p]["sync"] \in {"wait", "delete"}
  /\ ~AtRest(p) \/ (\E h \in Handlers : pc[p][h] # "off") => orig[p] = base[p]
  /\ hw[p] # base[p] => Pending(p)

\* No thread ends under a handler, and the PHYs go last.
HostsOK ==
  \A p, q \in Phys, h \in Handlers : host[p][h] = q => pc[q]["sync"] # "exited"
FreedOK ==
  freed => \A p \in Phys :
    pc[p]["sync"] = "exited" /\ \A h \in Handlers : pc[p][h] = "off"

ExitInv == (\A p \in Phys : ResetInv(p)) /\ HostsOK /\ FreedOK

LEMMA UntouchedReset ==
  ASSUME NEW p \in Phys, ResetInv(p), Untouched(p)
  PROVE  ResetInv(p)'
BY DEF ResetInv, AtRest, Outward, Pending, Untouched

\* What the thread of p does with the registers is in its hands.
LEMMA ThreadGoto ==
  ASSUME TypeOK, NEW p \in Phys, NEW l, Goto(p, "sync", l)
  PROVE  pc'[p]["sync"] = l /\ \A h \in Handlers : pc'[p][h] = pc[p][h]
BY GotoPlace, PhyAssumption DEF Contexts, PhyAssumption

LEMMA HandlerGoto ==
  ASSUME TypeOK, NEW p \in Phys, NEW h \in Handlers, NEW l, Goto(p, h, l)
  PROVE  /\ pc'[p]["sync"] = pc[p]["sync"] /\ pc'[p][h] = l
         /\ \A g \in Handlers \ {h} : pc'[p][g] = pc[p][g]
BY GotoPlace, PhyAssumption DEF Contexts, PhyAssumption

\* A synchronisation begins with the clock at home: orig_val is the original.
LEMMA StartReset ==
  ASSUME TypeOK, NEW p \in Phys, ResetInv(p), NEW td \in TimeDiffs, StartSync(p, td)
  PROVE  ResetInv(p)'
<1>1. /\ pc[p]["sync"] = "idle" /\ UNCHANGED <<hw, base, done, timer>>
      /\ ProgramPhy(p, td, Shift, Shift2, TRUE)
  BY DEF StartSync, At, regs
<1>2. /\ hw[p] = base[p] /\ timer[p] = "none"
      /\ \A h \in Handlers : pc[p][h] = "off"
  BY <1>1 DEF ResetInv, Outward, Pending, Unwinding
<1>3. PICK l \in {"step", "wait", "post"} : Goto(p, "sync", l)
  BY <1>1 DEF ProgramPhy
<1>4. pc'[p]["sync"] = l /\ \A h \in Handlers : pc'[p][h] = "off"
  BY <1>2, <1>3, ThreadGoto
<1>5. orig'[p] = hw[p]
  BY <1>1 DEF ProgramPhy, TypeOK, ClockTypeOK
<1>6. plan'[p]["sync"].then = "arm"
  <2> DEFINE pl == NewPlan(hw[p], TargetClock(hw[p], td, ChosenShift(td, Shift, Shift2)), Shift, "arm")
  <2>1. plan' = [plan EXCEPT ![p]["sync"] = pl] /\ pl.then = "arm"
    BY <1>1 DEF ProgramPhy, NewPlan
  <2> HIDE DEF pl
  <2> QED
    BY <2>1 DEF TypeOK, ControlTypeOK, Contexts
<1> QED
  BY <1>1, <1>2, <1>4, <1>5, <1>6 DEF ResetInv, AtRest, Outward, Pending, Unwinding

\* pipe_sync_thread goes round its loop only while the program runs, and so only
\* when nobody is at work on its PHY.
LEMMA RestReset ==
  ASSUME TypeOK, OwnershipInv, NEW p \in Phys, ResetInv(p),
         (\E td \in TimeDiffs : RefuseSync(p, td)) \/ NextIteration(p)
  PROVE  ResetInv(p)'
<1>1. AtRest(p) /\ UNCHANGED <<hw, base, orig, timer, plan>>
  BY DEF RefuseSync, NextIteration, At, AtRest, regs, saved
<1>2. PICK l \in {"idle", "post", "exited"} :
        /\ Goto(p, "sync", l)
        /\ l = "idle" => ~libDone
  BY DEF RefuseSync, NextIteration
<1>3. pc'[p]["sync"] = l /\ \A h \in Handlers : pc'[p][h] = pc[p][h]
  BY <1>2, ThreadGoto
<1>4. l = "idle" => \A h \in Handlers : pc[p][h] = "off"
  BY <1>1, <1>2, AtRestFacts DEF OwnershipInv
<1> QED
  BY <1>1, <1>3, <1>4 DEF ResetInv, AtRest, Outward, Pending, Unwinding

\* Arming, and the end of the wait: after Ctrl+C the thread resets the PHY itself.
LEMMA WaitReset ==
  ASSUME TypeOK, OwnershipInv, NEW p \in Phys, ResetInv(p),
         LowerDone(p) \/ MakeTimer(p) \/ StopWaiting(p)
  PROVE  ResetInv(p)'
<1>1. UNCHANGED <<hw, base, orig, plan>>
  BY DEF LowerDone, MakeTimer, StopWaiting, regs, saved
<1>2. CASE LowerDone(p)
  <2>1. pc[p]["sync"] = "arm" /\ Goto(p, "sync", "settimer") /\ UNCHANGED timer
    BY <1>2 DEF LowerDone, At
  <2> QED
    BY <1>1, <2>1, ThreadGoto DEF ResetInv, AtRest, Outward, Pending, Unwinding
<1>3. CASE MakeTimer(p)
  <2>1. pc[p]["sync"] = "settimer" /\ Goto(p, "sync", "wait")
    BY <1>3 DEF MakeTimer, At
  <2> QED
    BY <1>1, <2>1, ThreadGoto DEF ResetInv, AtRest, Outward, Pending, Unwinding
<1>4. CASE StopWaiting(p)
  <2>1. /\ pc[p]["sync"] = "wait" /\ UNCHANGED timer
        /\ \/ libDone /\ Goto(p, "sync", "delete")
           \/ ~libDone /\ done[p] /\ Goto(p, "sync", "post")
    BY <1>4 DEF StopWaiting, At
  <2>2. ~libDone /\ done[p] => hw[p] = base[p] /\ timer[p] = "none"
    BY <2>1 DEF OwnershipInv, PhyInv, ValueInv, HandlerInv
  <2> QED
    BY <1>1, <2>1, <2>2, ThreadGoto DEF ResetInv, AtRest, Outward, Pending, Unwinding
<1> QED
  BY <1>2, <1>3, <1>4

LEMMA ExpiryReset ==
  ASSUME TypeOK, NEW p \in Phys, ResetInv(p), Expiry(p)
  PROVE  ResetInv(p)'
<1>1. PICK h \in Handlers, t \in Threads : Expire(p, h, t)
  BY DEF Expiry
<1>2. /\ timer[p] # "none" /\ timer'[p] \in {timer[p], "none"}
      /\ Goto(p, h, "delete") /\ UNCHANGED <<hw, base, orig, plan>>
  BY <1>1 DEF Expire, regs, saved, TypeOK, ControlTypeOK
<1>3. pc[p]["sync"] \in {"wait", "delete"}
  BY <1>2 DEF ResetInv
<1> QED
  BY <1>2, <1>3, HandlerGoto DEF ResetInv, AtRest, Outward, Pending, Unwinding

\* A step of the loop of set_pll_clock, or of reset_phy_regs, whoever makes it.
LEMMA WorkReset ==
  ASSUME TypeOK, NEW p \in Phys, ResetInv(p), NEW c \in Contexts, ContextStep(p, c)
  PROVE  ResetInv(p)'
<1>1. ClockTypeOK /\ ControlTypeOK /\ LoopsOK
  BY DEF TypeOK
<1>2. pc[p][c] \in Unwinding \cup {"finish"}
  BY DEF ContextStep, PrepareStep, WriteStep, EndSteps, DeleteTimer, PlanRestore,
         WriteOriginal, RaiseDone, At, Unwinding
<1>3. orig[p] = base[p] /\ UNCHANGED orig
  <2>1. c = "sync" \/ c \in Handlers
    BY DEF Contexts
  <2>2. orig[p] = base[p]
    BY <1>2, <2>1 DEF ResetInv, AtRest, Unwinding
  <2> QED
    BY <2>2 DEF ContextStep, PrepareStep, WriteStep, EndSteps, DeleteTimer, PlanRestore,
                WriteOriginal, RaiseDone, saved
<1>4. base'[p] = base[p]
  <2>1. ~(c = "sync" /\ pc[p][c] = "write" /\ plan[p][c].then = "return")
    BY DEF ResetInv
  <2> QED
    BY <2>1 DEF ContextStep, PrepareStep, WriteStep, EndSteps, DeleteTimer, PlanRestore,
                WriteOriginal, RaiseDone, At, regs
<1>5. \/ timer'[p] = timer[p] /\ pc[p][c] # "delete"
      \/ timer'[p] = "none"
  BY <1>1 DEF ContextStep, PrepareStep, WriteStep, EndSteps, DeleteTimer, PlanRestore,
              WriteOriginal, RaiseDone, At, ControlTypeOK
<1>6. CASE c = "sync"
  <2>1. ASSUME NEW l, Goto(p, "sync", l)
        PROVE  pc'[p]["sync"] = l /\ \A h \in Handlers : pc'[p][h] = pc[p][h]
    BY <2>1, ThreadGoto
  <2>2. plan[p]["sync"].then \in {"arm", "return", "orig"}
    BY <1>1 DEF ControlTypeOK, Plans, Contexts
  <2>3. CASE PrepareStep(p, "sync") \/ WriteStep(p, "sync") \/ EndSteps(p, "sync")
    <3>1. pc[p]["sync"] \in {"step", "write"} /\ plan[p]["sync"].then \in {"arm", "orig"}
      BY <2>2, <2>3 DEF PrepareStep, WriteStep, EndSteps, At, ResetInv
    <3>2. plan'[p]["sync"].then = plan[p]["sync"].then
      BY <1>1, <2>3 DEF PrepareStep, WriteStep, EndSteps, ControlTypeOK, Plans, Contexts
    <3>3. \/ Goto(p, "sync", "write") \/ Goto(p, "sync", "step")
          \/ Goto(p, "sync", plan[p]["sync"].then)
      BY <2>3 DEF PrepareStep, WriteStep, EndSteps
    <3>4. pc'[p]["sync"] \in {"write", "step", plan[p]["sync"].then}
          /\ \A h \in Handlers : pc'[p][h] = pc[p][h]
      BY <2>1, <3>3
    <3> QED
      BY <1>3, <1>4, <1>5, <3>1, <3>2, <3>4
         DEF ResetInv, AtRest, Outward, Pending, Unwinding
  <2>4. CASE DeleteTimer(p, "sync")
    <3>1. Goto(p, "sync", "plan") /\ timer'[p] = "none"
      BY <1>1, <2>4 DEF DeleteTimer, ControlTypeOK
    <3> QED
      BY <1>3, <1>4, <2>1, <3>1 DEF ResetInv, AtRest, Outward, Pending, Unwinding
  <2>5. CASE PlanRestore(p, "sync")
    <3> DEFINE pl == NewPlan(freqMod[p], freqOrig[p], usedShift[p], "orig")
    <3>1. /\ Goto(p, "sync", "step") /\ plan' = [plan EXCEPT ![p]["sync"] = pl]
          /\ pl.then = "orig"
      BY <2>5 DEF PlanRestore, NewPlan
    <3> HIDE DEF pl
    <3>2. plan'[p]["sync"].then = "orig"
      BY <1>1, <3>1 DEF ControlTypeOK, Contexts
    <3>3. pc[p]["sync"] = "plan"
      BY <2>5 DEF PlanRestore, At
    <3> QED
      BY <1>3, <1>4, <1>5, <2>1, <3>1, <3>2, <3>3
         DEF ResetInv, AtRest, Outward, Pending, Unwinding
  <2>6. CASE WriteOriginal(p, "sync")
    <3>1. pc[p]["sync"] = "orig" /\ Goto(p, "sync", "finish") /\ hw'[p] = orig[p]
      BY <1>1, <2>6 DEF WriteOriginal, At, ClockTypeOK
    <3> QED
      BY <1>3, <1>4, <1>5, <2>1, <3>1 DEF ResetInv, AtRest, Outward, Pending, Unwinding
  <2>7. CASE RaiseDone(p, "sync")
    <3>1. pc[p]["sync"] = "finish" /\ Goto(p, "sync", "post") /\ UNCHANGED hw
      BY <2>7 DEF RaiseDone, At, regs
    <3> QED
      BY <1>3, <1>4, <1>5, <2>1, <3>1 DEF ResetInv, AtRest, Outward, Pending, Unwinding
  <2> QED
    BY <1>6, <2>3, <2>4, <2>5, <2>6, <2>7 DEF ContextStep
<1>7. CASE c \in Handlers
  <2>1. ASSUME NEW l, Goto(p, c, l)
        PROVE  /\ pc'[p]["sync"] = pc[p]["sync"] /\ pc'[p][c] = l
               /\ \A g \in Handlers \ {c} : pc'[p][g] = pc[p][g]
    BY <1>7, <2>1, HandlerGoto
  <2>2. ~Outward(p) /\ plan'[p]["sync"] = plan[p]["sync"]
    <3>1. ~Outward(p) /\ c # "sync"
      BY <1>2, <1>7, PhyAssumption DEF ResetInv, Unwinding, PhyAssumption
    <3> QED
      BY <1>1, <3>1 DEF ContextStep, PrepareStep, WriteStep, EndSteps, DeleteTimer,
           PlanRestore, WriteOriginal, RaiseDone, ControlTypeOK, Contexts
  <2>3. plan[p][c].then = "orig"
    BY <1>1, <1>7 DEF LoopsOK, LoopOK
  <2>4. CASE \/ PrepareStep(p, c) \/ WriteStep(p, c) \/ EndSteps(p, c)
             \/ DeleteTimer(p, c) \/ PlanRestore(p, c)
    <3>1. \E l \in Unwinding : Goto(p, c, l)
      BY <2>3, <2>4 DEF PrepareStep, WriteStep, EndSteps, DeleteTimer, PlanRestore, Unwinding
    <3>2. pc'[p]["sync"] = pc[p]["sync"] /\ pc'[p][c] \in Unwinding
      BY <2>1, <3>1
    <3> QED
      BY <1>3, <1>4, <1>5, <1>7, <2>2, <3>2 DEF ResetInv, AtRest, Outward, Pending
  <2>5. CASE WriteOriginal(p, c)
    <3>1. Goto(p, c, "finish") /\ hw'[p] = orig[p]
      BY <1>1, <2>5 DEF WriteOriginal, ClockTypeOK
    <3> QED
      BY <1>3, <1>4, <1>5, <2>1, <2>2, <3>1 DEF ResetInv, AtRest, Outward, Pending
  <2>6. CASE RaiseDone(p, c)
    <3>1. pc[p][c] = "finish" /\ Goto(p, c, "off") /\ UNCHANGED hw
      BY <1>7, <2>6, PhyAssumption DEF RaiseDone, At, regs, PhyAssumption
    <3>2. "finish" \notin Unwinding
      BY DEF Unwinding
    <3> QED
      BY <1>3, <1>4, <1>5, <2>1, <2>2, <3>1, <3>2 DEF ResetInv, AtRest, Outward, Pending
  <2> QED
    BY <2>4, <2>5, <2>6 DEF ContextStep
<1> QED
  BY <1>6, <1>7 DEF Contexts

LEMMA PhyStepReset ==
  ASSUME TypeOK, OwnershipInv, LearningRate = 0, NEW p \in Phys, ResetInv(p), PhyStep(p)
  PROVE  ResetInv(p)'
<1>1. ~StartLearning(p)
  BY DEF StartLearning
<1> QED
  BY <1>1, StartReset, RestReset, WaitReset, ExpiryReset, WorkReset
     DEF PhyStep, ThreadStep, Contexts

LEMMA NextReset ==
  ASSUME TypeOK, OwnershipInv, LearningRate = 0, [Next]_vars,
         \A p \in Phys : ResetInv(p), NEW p \in Phys
  PROVE  ResetInv(p)'
<1>1. CASE \E q \in Phys : PhyStep(q)
  <2>1. PICK q \in Phys : PhyStep(q)
    BY <1>1
  <2>2. CASE q = p
    BY <2>1, <2>2, PhyStepReset
  <2>3. CASE q # p
    BY <2>1, <2>3, OthersUntouched, UntouchedReset
  <2> QED
    BY <2>2, <2>3
<1>2. CASE ~\E q \in Phys : PhyStep(q)
  <2>1. UNCHANGED <<hw, base, orig, done, timer, pc, plan>>
    BY <1>2 DEF Next, PhyStep, EnterLog, LeaveLog, CtrlC, Uninit, Terminated, vars, regs, saved
  <2> QED
    BY <2>1, UntouchedReset DEF Untouched
<1> QED
  BY <1>1, <1>2

\* A signal does not strike a thread that has ended, and none ends under a handler.
LEMMA NextHosts == ASSUME TypeOK, HostsOK, [Next]_vars PROVE HostsOK'
<1> SUFFICES ASSUME NEW p \in Phys, NEW q \in Phys, NEW h \in Handlers, host'[p][h] = q
             PROVE  pc'[q]["sync"] # "exited"
  BY DEF HostsOK
<1>1. ControlTypeOK /\ h # "sync" /\ q \in Threads /\ NoThread \notin Threads
  BY PhyAssumption DEF TypeOK, PhyAssumption, Threads
<1>2. CASE \E r \in Phys : PhyStep(r)
  <2>1. PICK r \in Phys : PhyStep(r)
    BY <1>2
  <2>2. /\ pc[q]["sync"] # "exited"
        /\ host[p][h] = q \/ \E g \in Handlers, t \in Threads : Expire(r, g, t)
    <3>1. CASE \E g \in Handlers, t \in Threads : Expire(r, g, t)
      <4>1. PICK g \in Handlers, t \in Threads : Expire(r, g, t)
        BY <3>1
      <4>2. host[p][h] = q \/ t = q
        BY <1>1, <4>1 DEF Expire, ControlTypeOK
      <4> QED
        BY <3>1, <4>1, <4>2 DEF Expire, HostsOK
    <3>2. CASE ~\E g \in Handlers, t \in Threads : Expire(r, g, t)
      <4>1. \/ host' = host
            \/ \E g \in Handlers : host' = [host EXCEPT ![r][g] = NoThread]
        <5>1. ASSUME NEW c \in Contexts, ContextStep(r, c)
              PROVE  \/ host' = host
                     \/ c \in Handlers /\ host' = [host EXCEPT ![r][c] = NoThread]
          BY <5>1 DEF ContextStep, PrepareStep, WriteStep, EndSteps, DeleteTimer,
                      PlanRestore, WriteOriginal, RaiseDone, Contexts
        <5>2. ASSUME ~\E c \in Contexts : ContextStep(r, c) PROVE host' = host
          <6>1. ~ContextStep(r, "sync") /\ \A g \in Handlers : ~ContextStep(r, g)
            BY <5>2 DEF Contexts
          <6>2. ~Expiry(r)
            BY <3>2 DEF Expiry
          <6> QED
            BY <2>1, <6>1, <6>2 DEF PhyStep, StartSync, RefuseSync, StartLearning,
               NextIteration, ThreadStep, LowerDone, MakeTimer, StopWaiting
        <5> QED
          BY <5>1, <5>2
      <4>2. host[p][h] = q
        <5>1. host \in [Phys -> [Handlers -> Threads \cup {NoThread}]] /\ q # NoThread
          BY <1>1 DEF ControlTypeOK
        <5>2. ASSUME NEW g \in Handlers, host' = [host EXCEPT ![r][g] = NoThread]
              PROVE  host[p][h] = q
          BY <5>1, <5>2
        <5> QED
          BY <4>1, <5>2
      <4> QED
        BY <4>2 DEF HostsOK
    <3> QED
      BY <3>1, <3>2
  <2>3. CASE r # q
    BY <2>1, <2>2, <2>3, OthersUntouched DEF Untouched
  <2>4. CASE \E g \in Handlers, t \in Threads : Expire(r, g, t)
    <3>1. PICK g \in Handlers, t \in Threads : Expire(r, g, t)
      BY <2>4
    <3>2. Goto(r, g, "delete")
      BY <3>1 DEF Expire
    <3>3. pc'[r]["sync"] = pc[r]["sync"]
      BY <3>2, HandlerGoto
    <3> QED
      BY <2>2, <2>3, <3>3
  <2>5. CASE r = q /\ host[p][h] = q
    <3>1. Hosting(q)
      BY <2>5 DEF Hosting
    <3>2. ~NextIteration(q) /\ ~ContextStep(q, "sync")
      BY <3>1 DEF NextIteration, ContextStep, PrepareStep, WriteStep, EndSteps, DeleteTimer,
                  PlanRestore, WriteOriginal, RaiseDone, At, Runs
    <3>3. /\ ~LowerDone(q) /\ ~MakeTimer(q) /\ ~StopWaiting(q) /\ ~StartLearning(q)
          /\ \A td \in TimeDiffs : ~StartSync(q, td) /\ ~RefuseSync(q, td)
      BY <3>1 DEF LowerDone, MakeTimer, StopWaiting, StartLearning, StartSync, RefuseSync,
                  At, Runs
    <3>4. Expiry(q) \/ \E g \in Handlers : ContextStep(q, g)
      BY <2>1, <2>5, <3>2, <3>3 DEF PhyStep, ThreadStep
    <3>5. \E g \in Handlers : \E l : Goto(q, g, l)
      BY <3>4 DEF Expiry, Expire, ContextStep, PrepareStep, WriteStep, EndSteps, DeleteTimer,
                  PlanRestore, WriteOriginal, RaiseDone
    <3>6. pc'[q]["sync"] = pc[q]["sync"]
      BY <3>5, HandlerGoto
    <3> QED
      BY <2>2, <3>6
  <2> QED
    BY <2>2, <2>3, <2>4, <2>5
<1>3. CASE ~\E r \in Phys : PhyStep(r)
  <2>1. UNCHANGED <<pc, host>>
    BY <1>3 DEF Next, PhyStep, EnterLog, LeaveLog, CtrlC, Uninit, Terminated, vars
  <2> QED
    BY <2>1 DEF HostsOK
<1> QED
  BY <1>2, <1>3

\* Nothing runs once the PHYs are deleted.
LEMMA AwakeStep ==
  ASSUME NEW p \in Phys, PhyStep(p)
  PROVE  ~freed /\ UNCHANGED freed
<1>1. ASSUME NEW c \in Contexts, ContextStep(p, c) PROVE ~freed /\ UNCHANGED freed
  BY <1>1 DEF ContextStep, PrepareStep, WriteStep, EndSteps, DeleteTimer, PlanRestore,
              WriteOriginal, RaiseDone, At, Runs, proc
<1>2. ASSUME ~\E c \in Contexts : ContextStep(p, c) PROVE ~freed /\ UNCHANGED freed
  <2>1. ~ContextStep(p, "sync") /\ \A h \in Handlers : ~ContextStep(p, h)
    BY <1>2 DEF Contexts
  <2>2. CASE Expiry(p)
    BY <2>2 DEF Expiry, Expire, proc
  <2>3. CASE ~Expiry(p)
    BY <2>1, <2>3 DEF PhyStep, StartSync, RefuseSync, StartLearning, NextIteration, ThreadStep,
       LowerDone, MakeTimer, StopWaiting, At, Runs, proc
  <2> QED
    BY <2>2, <2>3
<1> QED
  BY <1>1, <1>2

LEMMA NextFreed ==
  ASSUME TypeOK, HostsOK, FreedOK, Detached = {}, [Next]_vars
  PROVE  FreedOK'
<1>1. CASE freed
  <2>1. UNCHANGED <<freed, pc>>
    BY <1>1, AwakeStep DEF Next, PhyStep, EnterLog, LeaveLog, CtrlC, Uninit, Terminated, vars, proc
  <2> QED
    BY <2>1 DEF FreedOK
<1>2. CASE ~freed /\ Uninit
  <2>1. /\ \A p \in Phys : pc[p]["sync"] = "exited"
        /\ \A t \in Helpers : ~Hosting(t)
        /\ UNCHANGED pc
    BY <1>2 DEF Uninit
  <2>2. ASSUME NEW p \in Phys, NEW h \in Handlers PROVE pc[p][h] = "off"
    <3>1. host[p][h] \in Phys \cup Helpers \cup {NoThread}
      BY DEF TypeOK, ControlTypeOK, Threads
    <3>2. host[p][h] \notin Phys /\ host[p][h] \notin Helpers
      BY <2>1 DEF HostsOK, Hosting
    <3> QED
      BY <3>1, <3>2 DEF TypeOK, PlacesOK
  <2> QED
    BY <2>1, <2>2 DEF FreedOK
<1>3. CASE ~freed /\ ~Uninit
  <2>1. UNCHANGED freed
    BY <1>3, AwakeStep DEF Next, PhyStep, EnterLog, LeaveLog, CtrlC, Terminated, vars, proc
  <2> QED
    BY <1>3, <2>1 DEF FreedOK
<1> QED
  BY <1>1, <1>2, <1>3

LEMMA InitExit == ASSUME Init PROVE ExitInv
<1>1. ASSUME NEW p \in Phys PROVE ResetInv(p)
  <2>1. /\ pc[p]["sync"] = "idle" /\ timer[p] = "none" /\ hw[p] = base[p]
        /\ \A h \in Handlers : pc[p][h] = "off"
    BY PhyAssumption DEF Init, Contexts, PhyAssumption
  <2> QED
    BY <2>1 DEF ResetInv, AtRest, Outward, Pending
<1>2. HostsOK /\ FreedOK
  BY DEF Init, HostsOK, FreedOK, Contexts
<1> QED
  BY <1>1, <1>2 DEF ExitInv

\* When the program ends every clock is where it was and nobody is left who would
\* dereference a PHY (phy.cpp:221), wherever Ctrl+C struck: RestoredAtExit. It takes a
\* program that does not learn and has no thread it does not join.
THEOREM AtExit ==
  ASSUME OneActivation, LearningRate = 0, Detached = {}
  PROVE  Spec => []RestoredAtExit
<1>1. Init => OwnershipInv /\ ExitInv
  BY InitOwnership, InitExit
<1>2. TypeOK /\ OwnershipInv /\ [Next]_vars => OwnershipInv'
  BY NextOwnership
<1>3. TypeOK /\ OwnershipInv /\ ExitInv /\ [Next]_vars => ExitInv'
  <2> SUFFICES ASSUME TypeOK, OwnershipInv, ExitInv, [Next]_vars PROVE ExitInv'
    OBVIOUS
  <2>1. \A p \in Phys : ResetInv(p)'
    BY NextReset DEF ExitInv
  <2>2. HostsOK' /\ FreedOK'
    BY NextHosts, NextFreed DEF ExitInv
  <2> QED
    BY <2>1, <2>2 DEF ExitInv
<1>4. TypeOK /\ ExitInv => RestoredAtExit
  <2> SUFFICES ASSUME TypeOK, ExitInv, freed, NEW p \in Phys
               PROVE  hw[p] = base[p] /\ timer[p] = "none" /\ ~Active(p)
    BY DEF RestoredAtExit
  <2>1. pc[p]["sync"] = "exited" /\ \A h \in Handlers : pc[p][h] = "off"
    BY DEF ExitInv, FreedOK
  <2>2. ResetInv(p) /\ ~Pending(p)
    BY <2>1 DEF ExitInv, Pending, Unwinding
  <2> QED
    BY <2>1, <2>2 DEF ResetInv, Active, TypeOK, PlacesOK
<1> QED
  BY <1>1, <1>2, <1>3, <1>4, TypeCorrect, PTL DEF Spec

-----------------------------------------------------------------------------
(* Products and quotients.                                                *)

\* What division by a positive number yields.
LEMMA Quotient ==
  \A a \in Int : \A b \in Nat \ {0} :
    \E q \in Int : a \div b = q /\ b * q <= a /\ a < b * q + b
<1> SUFFICES ASSUME NEW a \in Int, NEW b \in Nat \ {0}
             PROVE  a \div b \in Int /\ b * (a \div b) <= a /\ a < b * (a \div b) + b
  BY Zenon
<1>1. a \div b \in Int /\ a % b \in 0 .. b - 1 /\ a = b * (a \div b) + (a % b)
  OBVIOUS
<1> QED
  BY <1>1

LEMMA Products ==
  ASSUME NEW b \in Nat, NEW x \in Int, NEW y \in Int
  PROVE  /\ b * x \in Int /\ b * y \in Int /\ b * (x + y) = b * x + b * y
         /\ b * (x - y) = b * x - b * y
         /\ x <= y => b * x <= b * y
         /\ b * x < b * y => x < y
<1>1. b * x \in Int /\ b * y \in Int /\ b * (x + y) = b * x + b * y /\ b * (x - y) = b * x - b * y
  OBVIOUS
<1>2. ASSUME NEW z \in Nat PROVE b * z \in Nat
  OBVIOUS
<1>3. x <= y => b * x <= b * y
  <2>1. ASSUME NEW u \in Int, NEW v \in Int, u <= v PROVE b * u <= b * v
    <3>1. v - u \in Nat /\ b * (v - u) = b * v - b * u
      BY <2>1
    <3>2. b * (v - u) \in Nat
      BY <1>2, <3>1
    <3> QED
      BY <3>1, <3>2
  <2> QED
    BY <2>1
<1>4. ASSUME NEW u \in Int, NEW v \in Int, u <= v PROVE b * u <= b * v
  <2>1. v - u \in Nat /\ b * (v - u) = b * v - b * u
    BY <1>4
  <2>2. b * (v - u) \in Nat
    BY <1>2, <2>1
  <2> QED
    BY <2>1, <2>2
<1>5. b * x < b * y => x < y
  <2>1. y <= x => b * y <= b * x
    BY <1>4
  <2> QED
    BY <1>1, <2>1
<1> QED
  BY <1>1, <1>3, <1>5

-----------------------------------------------------------------------------
(* How far a step of set_pll_clock goes.                                   *)

\* The share of a clock is a number of grains, the greater the clock the more.
LEMMA Shares ==
  ASSUME NEW s \in Nat, NEW clock \in Nat, NEW more \in Nat, clock <= more
  PROVE  /\ Share(clock, s) \in Nat /\ Share(more, s) \in Nat
         /\ Share(clock, s) <= Share(more, s)
         /\ \A t \in Int : t * (2 * PPM) <= (2 * s + 1) * clock => t <= Share(clock, s)
<1> DEFINE k == 2 * s + 1
           a == k * clock
           b == k * more
<1>1. k \in Nat
  OBVIOUS
<1> HIDE DEF k
<1>2. a \in Nat /\ b \in Nat /\ a <= b
  <2>1. clock \in Int /\ more \in Int
    OBVIOUS
  <2>2. k * clock <= k * more
    BY <1>1, <2>1, Products
  <2>3. k * clock \in Nat /\ k * more \in Nat
    BY <1>1
  <2> QED
    BY <2>2, <2>3
<1>3. Share(clock, s) = a \div 2000000 /\ Share(more, s) = b \div 2000000
  BY DEF Share, PPM, k
<1> HIDE DEF a, b
<1>4. /\ a \div 2000000 \in Nat /\ b \div 2000000 \in Nat
      /\ a \div 2000000 <= b \div 2000000
      /\ \A t \in Int : t * 2000000 <= a => t <= a \div 2000000
  BY <1>2
<1>5. \A t \in Int : t * (2 * PPM) = t * 2000000
  BY DEF PPM
<1> QED
  BY <1>3, <1>4, <1>5 DEF a, k

\* The distance between two clocks.
LEMMA Distances ==
  ASSUME NEW x \in Int, NEW y \in Int
  PROVE  /\ Abs(x - y) \in Nat /\ Abs(y - x) = Abs(x - y)
         /\ \A d \in Nat : Abs(x - y) <= d <=> x <= y + d /\ y <= x + d
BY DEF Abs

\* One step if the change is within the share, none if the share is nothing, and
\* otherwise as many as there are shares in it.
LEMMA Counts ==
  ASSUME NEW from \in Int, NEW to \in Int, NEW s \in Nat, ValidClocks(from, to)
  PROVE  LET n == StepCount(from, to, s)
             total == Abs(to - from)
         IN  \/ n = 1 /\ total <= Share(from, s)
             \/ n = 0 /\ s = 0
             \/ n \in Nat /\ n > 0 /\ s > 0 /\ total * PPM <= n * (from * s)
<1> DEFINE n == StepCount(from, to, s)
           total == Abs(to - from)
           d == from * s
<1>1. total \in Nat /\ from \in Nat /\ from > 0 /\ d \in Nat
  BY DEF Abs, ValidClocks
<1>a. n = IF RoundDiv(total * PPM, from) <= s THEN 1
          ELSE IF s = 0 THEN 0 ELSE CeilDiv(total * PPM, d)
  BY DEF StepCount
<1> HIDE DEF total, n, d
<1>2. CASE RoundDiv(total * PPM, from) <= s
  <2> DEFINE a == 2 * (total * PPM) + from
             b == 2 * from
  <2>1. a \in Int /\ b \in Nat \ {0} /\ RoundDiv(total * PPM, from) = a \div b
    BY <1>1 DEF RoundDiv, PPM
  <2> HIDE DEF a, b
  <2>2. PICK q \in Int : a \div b = q /\ b * q <= a /\ a < b * q + b
    BY <2>1, Quotient, Zenon
  <2>3. q <= s /\ s \in Int
    BY <1>2, <2>1, <2>2
  <2>4. b * q <= b * s
    BY <2>1, <2>3, Products
  <2>5. b * s = 2 * (from * s) /\ from * s \in Int /\ b * q \in Int
    BY <1>1, <2>1 DEF b
  <2>6. 2 * (total * PPM) + from < 2 * (from * s) + 2 * from
    BY <1>1, <2>2, <2>4, <2>5 DEF a, b, PPM
  <2>7. (2 * s + 1) * from = 2 * (from * s) + from
    BY <1>1
  <2>8. total * (2 * PPM) <= (2 * s + 1) * from
    BY <1>1, <2>5, <2>6, <2>7 DEF PPM
  <2>9. total <= Share(from, s)
    BY <1>1, <2>8, Shares
  <2> QED
    BY <1>2, <1>a, <2>9 DEF n, total
<1>3. CASE ~(RoundDiv(total * PPM, from) <= s) /\ s = 0
  BY <1>3, <1>a DEF n, total
<1>4. CASE ~(RoundDiv(total * PPM, from) <= s) /\ s # 0
  <2> DEFINE t == total * PPM
  <2>1. t \in Nat /\ d \in Nat \ {0}
    <3>1. from * s > 0
      BY <1>1, <1>4
    <3> QED
      BY <1>1, <3>1 DEF d, PPM
  <2>2. n = (t + d - 1) \div d
    BY <1>4, <1>a DEF CeilDiv
  <2>3. t > 0
    <3>1. ASSUME t = 0 PROVE RoundDiv(t, from) <= s
      <4>1. (2 * t + from) \div (2 * from) = 0
        BY <1>1, <3>1
      <4> QED
        BY <1>1, <4>1 DEF RoundDiv
    <3> QED
      BY <1>4, <2>1, <3>1
  <2> HIDE DEF t
  <2>4. t + d - 1 \in Int
    BY <2>1
  <2>5. PICK q \in Int : /\ (t + d - 1) \div d = q
                         /\ d * q <= t + d - 1 /\ t + d - 1 < d * q + d
    BY <2>1, <2>4, Quotient, Zenon
  <2>6. d * q \in Int /\ t <= d * q
    BY <2>1, <2>5
  <2>7. q > 0
    <3>1. d * 0 = 0 /\ d \in Nat
      BY <2>1
    <3>2. d * 0 < d * q
      BY <2>1, <2>3, <2>6, <3>1
    <3> QED
      BY <3>1, <3>2, Products
  <2>8. n = q /\ n * d = d * q
    BY <2>1, <2>2, <2>5
  <2> QED
    BY <1>4, <2>6, <2>7, <2>8 DEF n, total, t, d
<1> QED
  BY <1>2, <1>3, <1>4

\* The clock after i steps of a loop, the first of which found the clock start.
Reached(pl, i, start) ==
  IF i = 0 THEN start
  ELSE IF i = pl.n THEN pl.to
  ELSE pl.from + ((pl.to - pl.from) * i) \div pl.n

\* The intermediate clocks lie on a line, but for their rounding.
LEMMA OnLine ==
  ASSUME NEW pl \in Plans, NEW i \in Int, 0 <= i, i <= pl.n, pl.n > 0
  PROVE  \E q \in Int :
           /\ Reached(pl, i, pl.from) = pl.from + q
           /\ pl.n * q <= (pl.to - pl.from) * i /\ (pl.to - pl.from) * i < pl.n * q + pl.n
<1>1. PICK n \in Nat \ {0}, from \in Int, to \in Int : pl.n = n /\ pl.from = from /\ pl.to = to
  BY DEF Plans
<1> DEFINE D == to - from
<1>2. D \in Int /\ to = from + D
  BY <1>1
<1> HIDE DEF D
<1>3. Reached(pl, i, from) = IF i = 0 THEN from ELSE IF i = n THEN to ELSE from + (D * i) \div n
  BY <1>1 DEF Reached, D
<1>4. \E q \in Int : Reached(pl, i, from) = from + q /\ n * q <= D * i /\ D * i < n * q + n
  <2>1. CASE i = 0
    <3>1. n * 0 = 0 /\ D * i = 0
      BY <1>1, <1>2, <2>1
    <3>2. Reached(pl, i, from) = from + 0 /\ n * 0 <= D * i /\ D * i < n * 0 + n
      BY <1>1, <1>3, <2>1, <3>1
    <3> QED
      BY <3>2
  <2>2. CASE i # 0 /\ i = n
    <3>1. n * D = D * i /\ n * D \in Int
      BY <1>1, <1>2, <2>2
    <3>2. Reached(pl, i, from) = from + D /\ n * D <= D * i /\ D * i < n * D + n
      BY <1>1, <1>2, <1>3, <2>2, <3>1
    <3> QED
      BY <1>2, <3>2
  <2>3. CASE i # 0 /\ i # n
    <3>1. D * i \in Int
      BY <1>2
    <3>2. PICK q \in Int : (D * i) \div n = q /\ n * q <= D * i /\ D * i < n * q + n
      BY <1>1, <3>1, Quotient, Zenon
    <3> QED
      BY <1>3, <2>3, <3>2
  <2> QED
    BY <2>1, <2>2, <2>3
<1> QED
  BY <1>1, <1>4 DEF D

\* Two neighbours on a line of n steps are no further apart than a step, rounded up.
LEMMA Neighbours ==
  ASSUME NEW n \in Nat, n > 0, NEW D \in Int, NEW i \in Int, NEW q \in Int, NEW r \in Int,
         n * q <= D * (i - 1), D * (i - 1) < n * q + n,
         n * r <= D * i, D * i < n * r + n
  PROVE  n * (Abs(r - q) - 1) <= Abs(D)
<1>1. D * i \in Int /\ D * (i - 1) = D * i - D
  OBVIOUS
<1>2. n * q \in Int /\ n * r \in Int /\ n * (r - q) = n * r - n * q
  BY Products
<1>3. n * (r - q - 1) = n * (r - q) - n /\ n * (q - r - 1) = n * q - n * r - n
  OBVIOUS
<1>4. n * (r - q - 1) <= D /\ n * (q - r - 1) <= -D
  BY <1>1, <1>2, <1>3
<1>5. CASE r - q < 0
  <2>1. Abs(r - q) - 1 = q - r - 1
    BY <1>5 DEF Abs
  <2>2. -D <= Abs(D)
    BY DEF Abs
  <2> QED
    BY <1>2, <1>3, <1>4, <2>1, <2>2 DEF Abs
<1>6. CASE ~(r - q < 0)
  <2>1. Abs(r - q) - 1 = r - q - 1
    BY <1>6 DEF Abs
  <2>2. D <= Abs(D)
    BY DEF Abs
  <2> QED
    BY <1>2, <1>3, <1>4, <2>1, <2>2 DEF Abs
<1> QED
  BY <1>5, <1>6

\* A loop that starts from its first clock does not move it by more than the share in any
\* step; one whose clock is already the last, the share being nothing, does not move it.
LEMMA StepsWithinShare ==
  ASSUME NEW pl \in Plans, NEW s \in Nat, ValidClocks(pl.from, pl.to),
         pl.n = StepCount(pl.from, pl.to, s), NEW start \in Int,
         start = pl.from \/ (start = pl.to /\ s = 0),
         NEW i \in Int, 0 < i, i <= pl.n
  PROVE  /\ Reached(pl, i, start) \in Int /\ Reached(pl, i - 1, start) \in Int
         /\ Abs(Reached(pl, i, start) - Reached(pl, i - 1, start)) <= Share(pl.from, s) + 1
<1>1. PICK n \in Int, from \in Int, to \in Int : pl.n = n /\ pl.from = from /\ pl.to = to
  BY DEF Plans
<1>2. from \in Nat /\ from > 0
  BY <1>1 DEF ValidClocks
<1> DEFINE total == Abs(to - from)
<1>3. total \in Nat /\ Share(from, s) \in Nat
  BY <1>1, <1>2, Shares DEF Abs
<1>4. \/ n = 1 /\ total <= Share(from, s)
      \/ n \in Nat /\ n > 0 /\ s > 0 /\ total * PPM <= n * (from * s)
  <2>a. n > 0
    BY <1>1
  <2>b. n = StepCount(from, to, s) /\ ValidClocks(from, to)
    BY <1>1, Zenon
  <2>1. n = StepCount(from, to, s) /\ ValidClocks(from, to) /\ n > 0
    BY <2>a, <2>b
  <2> DEFINE count == StepCount(from, to, s)
  <2>2. \/ count = 1 /\ total <= Share(from, s)
        \/ count = 0 /\ s = 0
        \/ count \in Nat /\ count > 0 /\ s > 0 /\ total * PPM <= count * (from * s)
    BY <2>1, Counts
  <2> HIDE DEF count
  <2>3. n = count
    BY <2>1 DEF count
  <2> QED
    BY <2>1, <2>2, <2>3
<1>5. CASE n = 1 /\ total <= Share(from, s)
  <2>1. i = 1 /\ Reached(pl, i, start) = to /\ Reached(pl, i - 1, start) = start
    BY <1>1, <1>5 DEF Reached
  <2>2. CASE start = from
    BY <1>3, <1>5, <1>1, <2>1, <2>2
  <2>3. CASE start = to
    <3>1. Abs(to - to) = 0
      BY DEF Abs
    <3> QED
      BY <1>3, <1>1, <2>1, <2>3, <3>1
  <2> QED
    BY <1>1, <2>2, <2>3
<1>6. CASE n \in Nat /\ n > 0 /\ s > 0 /\ total * PPM <= n * (from * s)
  <2>1. start = from
    BY <1>1, <1>6
  <2>2. i - 1 \in Int /\ 0 <= i - 1 /\ i - 1 <= n /\ 0 <= i
    BY <1>1
  <2>3. PICK q \in Int : /\ Reached(pl, i - 1, from) = from + q
                         /\ n * q <= (to - from) * (i - 1) /\ (to - from) * (i - 1) < n * q + n
    BY <1>1, <1>6, <2>2, OnLine
  <2>4. PICK r \in Int : /\ Reached(pl, i, from) = from + r
                         /\ n * r <= (to - from) * i /\ (to - from) * i < n * r + n
    BY <1>1, <1>6, <2>2, OnLine
  <2> DEFINE far == Abs(r - q) - 1
             d == from * s
  <2>5. far \in Int /\ d \in Nat
    BY <1>2 DEF Abs
  <2>6. n * far <= total
    <3>1. to - from \in Int
      OBVIOUS
    <3> QED
      BY <1>6, <2>3, <2>4, <3>1, Neighbours
  <2> HIDE DEF far, d
  <2>7. n * (far * PPM) = (n * far) * PPM /\ n * far \in Int /\ far * PPM \in Int
    BY <1>6, <2>5 DEF PPM
  <2>8. n * (far * PPM) <= n * d
    BY <1>3, <1>6, <2>6, <2>7 DEF PPM, d
  <2>9. far * PPM <= d
    <3>1. n * d < n * (far * PPM) => d < far * PPM
      BY <1>6, <2>5, <2>7, Products
    <3>2. d < far * PPM => n * (d + 1) <= n * (far * PPM)
      BY <1>6, <2>5, <2>7, Products
    <3>3. n * (d + 1) = n * d + n /\ n * d \in Int /\ n * (far * PPM) \in Int
      BY <1>6, <2>5, <2>7
    <3> QED
      BY <1>6, <2>5, <2>7, <2>8, <3>2, <3>3
  <2>10. (2 * s + 1) * from = 2 * d + from
    BY <1>2 DEF d
  <2>11. far * (2 * PPM) <= (2 * s + 1) * from
    BY <1>2, <2>5, <2>9, <2>10 DEF PPM
  <2>12. far <= Share(from, s)
    BY <1>2, <2>5, <2>11, Shares
  <2>13. (from + r) - (from + q) = r - q
    OBVIOUS
  <2> QED
    BY <1>1, <1>3, <2>1, <2>3, <2>4, <2>12, <2>13 DEF far, Abs
<1> QED
  BY <1>4, <1>5, <1>6

\* The clock of the next step, as set_pll_clock computes it.
LEMMA NextReached ==
  ASSUME NEW pl \in Plans, NEW start
  PROVE  StepClock(pl) = Reached(pl, pl.i + 1, start)
BY DEF StepClock, Reached, Plans

-----------------------------------------------------------------------------
(* No write goes too far: where the clock of a PHY is while it is shifted.  *)

Near(x, y) == Abs(x - y) <= MaxLoss

\* The clock while the shift lasts: without a step it has not moved.
Shifted(p) ==
  IF StepCount(freqOrig[p], freqMod[p], AskedShift(p)) = 0 THEN freqOrig[p] ELSE freqMod[p]

\* The fields of the PHY are those of a call that has got as far as its first step.
Programmed(p) ==
  /\ ValidClocks(freqOrig[p], freqMod[p])
  /\ usedShift[p] = AskedShift(p)

\* Context c runs a loop between two clocks.
Loop(p, c, from, to) ==
  /\ plan[p][c].from = from /\ plan[p][c].to = to
  /\ plan[p][c].n = StepCount(from, to, AskedShift(p))

\* The register keeps to the intermediate clocks, as far as its dividers can.
OnWay(p, c, start) ==
  LET pl == plan[p][c] IN
  IF pc[p][c] = "step" THEN Near(hw[p], Reached(pl, pl.i, start))
  ELSE /\ pl.i > 0
       /\ Near(hw[p], Reached(pl, pl.i - 1, start))
       /\ Near(mod[p], Reached(pl, pl.i, start))

ForthOK(p) ==
  pc[p]["sync"] \in {"step", "write"} =>
    /\ Programmed(p)
    /\ plan[p]["sync"].then = "arm" => orig[p] = freqOrig[p]
    /\ Loop(p, "sync", freqOrig[p], freqMod[p])
    /\ OnWay(p, "sync", freqOrig[p])

Away(p) ==
  \/ pc[p]["sync"] \in {"arm", "settimer"}
  \/ pc[p]["sync"] = "wait" /\ ~done[p]

StayOK(p) ==
  Away(p) =>
    /\ Programmed(p) /\ orig[p] = freqOrig[p]
    /\ (\A h \in Handlers : pc[p][h] \in {"off", "delete", "plan"}) => Near(hw[p], Shifted(p))

BackOK(p) ==
  \A h \in Handlers :
    /\ pc[p][h] \in {"step", "write"} =>
         Loop(p, h, freqMod[p], freqOrig[p]) /\ OnWay(p, h, Shifted(p))
    /\ pc[p][h] = "orig" => Abs(orig[p] - hw[p]) <= JumpLimit(p)

PaceInv(p) == ForthOK(p) /\ StayOK(p) /\ BackOK(p)
JumpInv == ~libDone => \A p \in Phys : PaceInv(p)

\* The types of what the arithmetic is about.
LEMMA Fields ==
  ASSUME TypeOK, NEW p \in Phys
  PROVE  /\ hw[p] \in Int /\ mod[p] \in Int /\ orig[p] \in Int
         /\ freqOrig[p] \in Int /\ freqMod[p] \in Int
         /\ AskedShift(p) \in Nat /\ MaxLoss \in Nat
         /\ \A c \in Contexts : plan[p][c] \in Plans /\ LoopOK(c, plan[p][c])
BY PhyAssumption DEF TypeOK, ClockTypeOK, ControlTypeOK, LoopsOK, AskedShift

LEMMA ShiftedIs ==
  ASSUME TypeOK, NEW p \in Phys, Programmed(p)
  PROVE  /\ Shifted(p) \in Int
         /\ Shifted(p) = freqMod[p] \/ (Shifted(p) = freqOrig[p] /\ AskedShift(p) = 0)
<1>1. CASE StepCount(freqOrig[p], freqMod[p], AskedShift(p)) = 0
  <2>1. AskedShift(p) = 0
    <3> DEFINE n == StepCount(freqOrig[p], freqMod[p], AskedShift(p))
    <3>1. n = 1 \/ (n = 0 /\ AskedShift(p) = 0) \/ n > 0
      BY Fields, Counts DEF Programmed
    <3> HIDE DEF n
    <3>2. n = 0
      BY <1>1 DEF n
    <3> QED
      BY <3>1, <3>2
  <2> QED
    BY <1>1, <2>1, Fields DEF Shifted
<1>2. CASE StepCount(freqOrig[p], freqMod[p], AskedShift(p)) # 0
  BY <1>2, Fields DEF Shifted
<1> QED
  BY <1>1, <1>2

\* The limit covers a share of either clock, a grain and two losses.
LEMMA Covers ==
  ASSUME TypeOK, NEW p \in Phys, Programmed(p),
         NEW from, from = freqOrig[p] \/ from = freqMod[p]
  PROVE  /\ Share(from, AskedShift(p)) \in Nat
         /\ Share(from, AskedShift(p)) + 2 * MaxLoss + 1 <= JumpLimit(p)
<1>1. PICK a \in Int, b \in Int, s \in Nat :
        freqOrig[p] = a /\ freqMod[p] = b /\ AskedShift(p) = s
  BY Fields
<1>2. a \in Nat /\ b \in Nat
  BY <1>1 DEF Programmed, ValidClocks
<1>3. CASE a < b
  <2>1. JumpLimit(p) = Share(b, s) + 2 * MaxLoss + 1
    BY <1>1, <1>3 DEF JumpLimit
  <2>2. Share(a, s) \in Nat /\ Share(b, s) \in Nat /\ Share(a, s) <= Share(b, s)
    BY <1>1, <1>2, <1>3, Shares
  <2> QED
    BY <1>1, <2>1, <2>2, Fields
<1>4. CASE ~(a < b)
  <2>1. JumpLimit(p) = Share(a, s) + 2 * MaxLoss + 1
    BY <1>1, <1>4 DEF JumpLimit
  <2>2. Share(a, s) \in Nat /\ Share(b, s) \in Nat /\ Share(b, s) <= Share(a, s)
    BY <1>1, <1>2, <1>4, Shares
  <2> QED
    BY <1>1, <2>1, <2>2, Fields
<1> QED
  BY <1>3, <1>4

\* Two registers that are near two clocks.
LEMMA NearBoth ==
  ASSUME NEW x \in Int, NEW y \in Int, NEW u \in Int, NEW v \in Int, NEW d \in Int,
         Near(x, u), Near(y, v), Abs(u - v) <= d
  PROVE  Abs(x - y) <= d + 2 * MaxLoss
BY PhyAssumption DEF Near, Abs

\* A write of a loop is within the limit.
LEMMA WriteWithin ==
  ASSUME TypeOK, NEW p \in Phys, NEW c \in Contexts, Programmed(p), pc[p][c] = "write",
         NEW from, NEW to, Loop(p, c, from, to), NEW start, OnWay(p, c, start),
         \/ from = freqOrig[p] /\ to = freqMod[p]
         \/ from = freqMod[p] /\ to = freqOrig[p],
         start = from \/ (start = to /\ AskedShift(p) = 0)
  PROVE  Abs(mod[p] - hw[p]) <= JumpLimit(p)
<1>1. PICK pl \in Plans : pl = plan[p][c]
  BY Fields
<1>2. pl.from = from /\ pl.to = to /\ pl.n = StepCount(from, to, AskedShift(p))
  BY <1>1 DEF Loop
<1>3. /\ pl.i > 0 /\ Near(hw[p], Reached(pl, pl.i - 1, start)) /\ Near(mod[p], Reached(pl, pl.i, start))
  BY <1>1 DEF OnWay
<1>4. pl.i \in Int /\ pl.i <= pl.n /\ start \in Int
  BY <1>1, <1>2, <1>3, Fields DEF LoopOK, Plans
<1>5. ValidClocks(from, to)
  BY DEF Programmed, ValidClocks
<1>6. /\ Reached(pl, pl.i, start) \in Int /\ Reached(pl, pl.i - 1, start) \in Int
      /\ Abs(Reached(pl, pl.i, start) - Reached(pl, pl.i - 1, start)) <= Share(from, AskedShift(p)) + 1
  <2>1. AskedShift(p) \in Nat /\ 0 < pl.i /\ ValidClocks(pl.from, pl.to)
    BY <1>2, <1>3, <1>5, Fields
  <2>2. pl.n = StepCount(pl.from, pl.to, AskedShift(p))
    BY <1>2
  <2>3. start = pl.from \/ (start = pl.to /\ AskedShift(p) = 0)
    BY <1>2
  <2> QED
    BY <1>2, <1>4, <2>1, <2>2, <2>3, StepsWithinShare
<1>7. /\ Share(from, AskedShift(p)) \in Nat
      /\ Share(from, AskedShift(p)) + 2 * MaxLoss + 1 <= JumpLimit(p)
  BY Covers
<1>8. Abs(mod[p] - hw[p]) <= Share(from, AskedShift(p)) + 1 + 2 * MaxLoss
  BY <1>3, <1>6, <1>7, NearBoth, Fields
<1>9. JumpLimit(p) \in Int
  BY Covers, Fields DEF JumpLimit, Programmed
<1> QED
  BY <1>7, <1>8, <1>9, Fields DEF Abs

\* A loop that is over has reached its last clock, or it had no step.
LEMMA LoopOver ==
  ASSUME TypeOK, NEW p \in Phys, NEW c \in Contexts, pc[p][c] = "step",
         NEW from \in Int, NEW to \in Int, ValidClocks(from, to), Loop(p, c, from, to),
         NEW start, OnWay(p, c, start), ~(plan[p][c].i < plan[p][c].n)
  PROVE  \/ StepCount(from, to, AskedShift(p)) # 0 /\ Near(hw[p], to)
         \/ StepCount(from, to, AskedShift(p)) = 0 /\ AskedShift(p) = 0 /\ Near(hw[p], start)
<1>1. PICK pl \in Plans, n \in Int, i \in Nat :
        pl = plan[p][c] /\ pl.n = n /\ pl.i = i /\ pl.to = to /\ n = StepCount(from, to, AskedShift(p))
  BY Fields DEF Plans, Loop
<1>2. Near(hw[p], Reached(pl, i, start))
  BY <1>1 DEF OnWay
<1>3. ~(i < n) /\ (i > 0 => i <= n)
  BY <1>1, Fields DEF LoopOK
<1>4. n = 1 \/ (n = 0 /\ AskedShift(p) = 0) \/ n > 0
  <2> DEFINE m == StepCount(from, to, AskedShift(p))
  <2>1. m = 1 \/ (m = 0 /\ AskedShift(p) = 0) \/ m > 0
    BY Fields, Counts
  <2> HIDE DEF m
  <2>2. n = m
    BY <1>1 DEF m
  <2> QED
    BY <2>1, <2>2
<1>5. CASE n = 0
  <2>1. i = 0
    BY <1>3, <1>5
  <2> QED
    BY <1>1, <1>2, <1>4, <1>5, <2>1 DEF Reached
<1>6. CASE n # 0
  <2>1. i = n /\ i # 0
    BY <1>3, <1>4, <1>6
  <2> QED
    BY <1>1, <1>2, <1>6, <2>1 DEF Reached
<1> QED
  BY <1>5, <1>6

\* When the loop back is over the original clock is within the limit.
LEMMA BackOver ==
  ASSUME TypeOK, NEW p \in Phys, NEW h \in Handlers, Programmed(p), pc[p][h] = "step",
         Loop(p, h, freqMod[p], freqOrig[p]), OnWay(p, h, Shifted(p)),
         ~(plan[p][h].i < plan[p][h].n)
  PROVE  Abs(freqOrig[p] - hw[p]) <= JumpLimit(p)
<1>1. PICK a \in Int, b \in Int, s \in Nat, k \in Int, x \in Int :
        freqOrig[p] = a /\ freqMod[p] = b /\ AskedShift(p) = s /\ Shifted(p) = k /\ hw[p] = x
  BY Fields, ShiftedIs
<1>2. /\ Share(a, s) \in Nat /\ JumpLimit(p) \in Int
      /\ Share(a, s) + 2 * MaxLoss + 1 <= JumpLimit(p)
  <2>1. JumpLimit(p) \in Int
    BY Covers, Fields DEF JumpLimit, Programmed
  <2> QED
    BY <1>1, <2>1, Covers
<1>3. Near(x, a) \/ (Near(x, k) /\ s = 0)
  <2>1. h \in Contexts /\ ValidClocks(freqMod[p], freqOrig[p])
    BY DEF Contexts, Programmed, ValidClocks
  <2>2. Near(hw[p], freqOrig[p]) \/ (AskedShift(p) = 0 /\ Near(hw[p], Shifted(p)))
    BY <2>1, LoopOver, Fields
  <2> QED
    BY <1>1, <2>2
<1>4. CASE Near(x, a)
  BY <1>1, <1>2, <1>4, PhyAssumption DEF Near, Abs
<1>5. CASE Near(x, k) /\ s = 0
  <2>1. Abs(k - a) <= Share(a, s)
    <3>1. CASE StepCount(a, b, s) = 0
      <4>1. k = a
        BY <1>1, <3>1 DEF Shifted
      <4> QED
        BY <1>2, <4>1 DEF Abs
    <3>2. CASE StepCount(a, b, s) # 0
      <4>1. k = b
        BY <1>1, <3>2 DEF Shifted
      <4>2. ValidClocks(a, b)
        BY <1>1 DEF Programmed
      <4> DEFINE n == StepCount(a, b, s)
      <4>3. (n = 1 /\ Abs(b - a) <= Share(a, s)) \/ n = 0 \/ s > 0
        BY <4>2, Counts
      <4> HIDE DEF n
      <4>4. n # 0
        BY <3>2 DEF n
      <4> QED
        BY <1>5, <4>1, <4>3, <4>4
    <3> QED
      BY <3>1, <3>2
  <2> QED
    BY <1>1, <1>2, <1>5, <2>1, PhyAssumption DEF Near, Abs
<1> QED
  BY <1>3, <1>4, <1>5

-----------------------------------------------------------------------------
(* The steps of a PHY.                                                     *)

\* What a call has computed does not change.
SameCall(p) ==
  /\ freqOrig'[p] = freqOrig[p] /\ freqMod'[p] = freqMod[p]
  /\ usedShift'[p] = usedShift[p] /\ call'[p] = call[p]

LEMMA SameCallKeeps ==
  ASSUME NEW p \in Phys, SameCall(p)
  PROVE  /\ AskedShift(p)' = AskedShift(p) /\ JumpLimit(p)' = JumpLimit(p)
         /\ Shifted(p)' = Shifted(p)
         /\ Programmed(p) => Programmed(p)'
<1>1. AskedShift(p)' = AskedShift(p)
  BY DEF AskedShift, SameCall
<1> QED
  BY <1>1 DEF SameCall, JumpLimit, Shifted, Programmed

\* Nothing changes of what the invariant is about.
LEMMA UntouchedPace ==
  ASSUME NEW p \in Phys, PaceInv(p), Untouched(p), SameCall(p), mod'[p] = mod[p]
  PROVE  PaceInv(p)'
<1>1. /\ AskedShift(p)' = AskedShift(p) /\ JumpLimit(p)' = JumpLimit(p)
      /\ Shifted(p)' = Shifted(p)
      /\ Programmed(p) => Programmed(p)'
  BY SameCallKeeps
<1>2. ForthOK(p)'
  BY <1>1 DEF PaceInv, ForthOK, Untouched, SameCall, Loop, OnWay
<1>3. StayOK(p)'
  BY <1>1 DEF PaceInv, StayOK, Away, Untouched, SameCall
<1>4. BackOK(p)'
  BY <1>1 DEF PaceInv, BackOK, Untouched, SameCall, Loop, OnWay
<1> QED
  BY <1>2, <1>3, <1>4 DEF PaceInv

\* A PHY that is at rest, or not yet away and without a handler, has no pace to keep.
LEMMA IdlePace ==
  ASSUME NEW p \in Phys, pc[p]["sync"] \notin {"step", "write", "arm", "settimer"},
         pc[p]["sync"] = "wait" => done[p], \A h \in Handlers : pc[p][h] = "off"
  PROVE  PaceInv(p)
BY DEF PaceInv, ForthOK, StayOK, Away, BackOK

LEMMA ProgramPhyPace ==
  ASSUME TypeOK, NEW p \in Phys, PhyInv(p), AtRest(p),
         NEW td, NEW s2, NEW reset \in BOOLEAN,
         NEW s1, s1 = IF reset THEN Shift ELSE LearningRate,
         ProgramPhy(p, td, s1, s2, reset), UNCHANGED <<hw, done>>
  PROVE  PaceInv(p)'
<1> DEFINE goal == TargetClock(hw[p], td, ChosenShift(td, s1, s2))
           then == IF reset THEN "arm" ELSE "return"
<1>1. done[p] /\ \A h \in Handlers : pc[p][h] = "off"
  BY AtRestFacts
<1>2. PICK l \in {"step", "wait", "post", "return"} :
        Goto(p, "sync", l) /\ (l = "step" => ValidClocks(hw[p], goal))
  BY DEF ProgramPhy
<1>3. pc'[p]["sync"] = l /\ \A h \in Handlers : pc'[p][h] = "off"
  BY <1>1, <1>2, GotoPlace, PhyAssumption DEF Contexts
<1>4. CASE l # "step"
  <2>1. /\ pc'[p]["sync"] \notin {"step", "write", "arm", "settimer"}
        /\ done'[p]
    BY <1>1, <1>2, <1>3, <1>4
  <2> QED
    BY <1>3, <2>1 DEF PaceInv, ForthOK, StayOK, Away, BackOK
<1>5. CASE l = "step"
  <2> HIDE DEF goal, then
  <2>1. /\ orig'[p] = hw[p] /\ freqOrig'[p] = hw[p] /\ freqMod'[p] = goal
        /\ usedShift'[p] = s1 /\ call'[p].reset = reset
    BY DEF ProgramPhy, TypeOK, ClockTypeOK, ControlTypeOK, goal
  <2>2. plan'[p]["sync"] = NewPlan(hw[p], goal, s1, then)
    <3> DEFINE pl == NewPlan(hw[p], goal, s1, then)
    <3>1. plan' = [plan EXCEPT ![p]["sync"] = pl]
      BY DEF ProgramPhy, goal, then
    <3> HIDE DEF pl
    <3>2. plan'[p]["sync"] = pl
      BY <3>1 DEF TypeOK, ControlTypeOK, Contexts
    <3> QED
      BY <3>2 DEF pl
  <2>3. AskedShift(p)' = s1
    BY <2>1 DEF AskedShift
  <2>4. Programmed(p)'
    BY <1>2, <1>5, <2>1, <2>3 DEF Programmed
  <2>5. Loop(p, "sync", freqOrig[p], freqMod[p])'
    BY <2>1, <2>2, <2>3 DEF Loop, NewPlan
  <2>6. OnWay(p, "sync", freqOrig[p])'
    <3>1. Reached(plan'[p]["sync"], plan'[p]["sync"].i, freqOrig'[p]) = hw'[p]
      BY <2>1, <2>2 DEF NewPlan, Reached
    <3>2. Near(hw[p], hw[p])
      BY Fields DEF Near, Abs
    <3> QED
      BY <1>3, <1>5, <3>1, <3>2 DEF OnWay
  <2>7. ForthOK(p)'
    BY <2>1, <2>4, <2>5, <2>6 DEF ForthOK
  <2> QED
    BY <1>3, <1>5, <2>7 DEF PaceInv, StayOK, Away, BackOK
<1> QED
  BY <1>4, <1>5

LEMMA RestPace ==
  ASSUME TypeOK, NEW p \in Phys, PhyInv(p),
         (\E td \in TimeDiffs : RefuseSync(p, td)) \/ NextIteration(p)
  PROVE  PaceInv(p)'
<1>1. AtRest(p)
  BY DEF RefuseSync, NextIteration, At, AtRest
<1>2. PICK l \in {"idle", "post", "exited"} : Goto(p, "sync", l)
  BY DEF RefuseSync, NextIteration
<1>3. pc'[p]["sync"] = l /\ \A h \in Handlers : pc'[p][h] = "off"
  BY <1>1, <1>2, AtRestFacts, GotoPlace, PhyAssumption DEF Contexts
<1> QED
  BY <1>2, <1>3 DEF PaceInv, ForthOK, StayOK, Away, BackOK

LEMMA TimerPace ==
  ASSUME TypeOK, NEW p \in Phys, PhyInv(p), PaceInv(p), ~libDone,
         LowerDone(p) \/ MakeTimer(p) \/ StopWaiting(p)
  PROVE  PaceInv(p)'
<1>1. UNCHANGED <<hw, orig, mod>> /\ SameCall(p)
  BY DEF LowerDone, MakeTimer, StopWaiting, regs, saved, SameCall
<1>2. ASSUME NEW l, Goto(p, "sync", l)
      PROVE  /\ pc'[p]["sync"] = l
             /\ \A h \in Handlers : pc'[p][h] = pc[p][h]
  BY <1>2, GotoPlace, PhyAssumption DEF Contexts
<1>3. CASE LowerDone(p) \/ MakeTimer(p)
  <2>1. /\ pc[p]["sync"] \in {"arm", "settimer"}
        /\ \E l \in {"settimer", "wait"} : Goto(p, "sync", l)
    BY <1>3 DEF LowerDone, MakeTimer, At
  <2>2. /\ pc'[p]["sync"] \in {"settimer", "wait"}
        /\ \A h \in Handlers : pc'[p][h] = "off" /\ pc[p][h] = "off"
    BY <1>2, <2>1 DEF PhyInv, HandlerInv
  <2>3. Programmed(p) /\ orig[p] = freqOrig[p] /\ Near(hw[p], Shifted(p))
    BY <2>1, <2>2 DEF PaceInv, StayOK, Away
  <2>4. StayOK(p)'
    BY <1>1, <2>3, SameCallKeeps DEF StayOK, SameCall
  <2> QED
    BY <2>2, <2>4 DEF PaceInv, ForthOK, BackOK
<1>4. CASE StopWaiting(p)
  <2>1. pc[p]["sync"] = "wait" /\ done[p] /\ Goto(p, "sync", "post") /\ UNCHANGED done
    BY <1>4 DEF StopWaiting, At
  <2>2. pc'[p]["sync"] = "post" /\ \A h \in Handlers : pc'[p][h] = "off"
    BY <1>2, <2>1 DEF PhyInv, HandlerInv
  <2> QED
    BY <2>2 DEF PaceInv, ForthOK, StayOK, Away, BackOK
<1> QED
  BY <1>3, <1>4

-----------------------------------------------------------------------------
(* The loop of set_pll_clock, whoever runs it.                             *)

LEMMA PreparePace ==
  ASSUME TypeOK, NEW p \in Phys, NEW c \in Contexts, PrepareStep(p, c),
         NEW start, OnWay(p, c, start)
  PROVE  /\ pc'[p][c] = "write" /\ UNCHANGED <<hw, orig, done>> /\ SameCall(p)
         /\ plan'[p][c].from = plan[p][c].from /\ plan'[p][c].to = plan[p][c].to
         /\ plan'[p][c].n = plan[p][c].n /\ plan'[p][c].then = plan[p][c].then
         /\ plan'[p][c].i > 0
         /\ Near(hw'[p], Reached(plan'[p][c], plan'[p][c].i - 1, start))
         /\ Near(mod'[p], Reached(plan'[p][c], plan'[p][c].i, start))
<1>1. PICK pl \in Plans : pl = plan[p][c]
  BY Fields
<1>2. pc[p][c] = "step" /\ pl.i < pl.n /\ Goto(p, c, "write")
      /\ UNCHANGED <<hw, orig, done, saved, call>>
  BY <1>1 DEF PrepareStep, At, MoreSteps, saved
<1>3. pc'[p][c] = "write"
  BY <1>2, GotoPlace
<1>4. plan'[p][c] = [pl EXCEPT !.i = pl.i + 1]
  BY <1>1 DEF PrepareStep, TypeOK, ControlTypeOK
<1>5. /\ plan'[p][c].from = pl.from /\ plan'[p][c].to = pl.to /\ plan'[p][c].n = pl.n
      /\ plan'[p][c].then = pl.then /\ plan'[p][c].i = pl.i + 1 /\ pl.i \in Nat
  BY <1>4 DEF Plans
<1>6. Near(hw[p], Reached(pl, pl.i, start))
  BY <1>1, <1>2 DEF OnWay
<1>7. Reached(plan'[p][c], plan'[p][c].i - 1, start) = Reached(pl, pl.i, start)
  <2>1. plan'[p][c].i - 1 = pl.i
    BY <1>5
  <2> QED
    BY <1>5, <2>1 DEF Reached
<1>8. Near(mod'[p], Reached(plan'[p][c], plan'[p][c].i, start))
  <2>1. PICK k \in Int : k = StepClock(pl)
    BY <1>2, StepClockInt
  <2>2. mod'[p] \in Dividers(k)
    BY <1>1, <2>1 DEF PrepareStep, TypeOK, ClockTypeOK
  <2>3. Near(mod'[p], k)
    BY <2>1, <2>2, PhyAssumption DEF Dividers, Near, Abs
  <2>4. Reached(pl, pl.i + 1, start) = k
    BY <2>1, NextReached
  <2>5. Reached(plan'[p][c], plan'[p][c].i, start) = Reached(pl, pl.i + 1, start)
    BY <1>5 DEF Reached
  <2> QED
    BY <2>3, <2>4, <2>5
<1>9. SameCall(p)
  BY <1>2 DEF SameCall, saved
<1>10. plan'[p][c].i > 0
  BY <1>5
<1> QED
  BY <1>1, <1>2, <1>3, <1>5, <1>6, <1>7, <1>8, <1>9, <1>10

LEMMA WritePace ==
  ASSUME TypeOK, NEW p \in Phys, NEW c \in Contexts, WriteStep(p, c),
         NEW start, OnWay(p, c, start)
  PROVE  /\ pc'[p][c] = "step" /\ UNCHANGED <<mod, orig, done, plan>> /\ SameCall(p)
         /\ Near(hw'[p], Reached(plan[p][c], plan[p][c].i, start))
<1>1. /\ pc[p][c] = "write" /\ Goto(p, c, "step") /\ hw'[p] = mod[p]
      /\ UNCHANGED <<mod, orig, done, plan>> /\ SameCall(p)
  BY DEF WriteStep, At, TypeOK, ClockTypeOK, saved, SameCall
<1>2. pc'[p][c] = "step"
  BY <1>1, GotoPlace
<1>3. Near(mod[p], Reached(plan[p][c], plan[p][c].i, start))
  BY <1>1 DEF OnWay
<1> QED
  BY <1>1, <1>2, <1>3

\* program_phy: the clock goes forth, from the original to the shifted one.
LEMMA ThreadPace ==
  ASSUME TypeOK, NEW p \in Phys, PhyInv(p), PaceInv(p), ~libDone, ContextStep(p, "sync")
  PROVE  PaceInv(p)'
<1> DEFINE c == "sync"
<1>0. c \in Contexts
  BY DEF Contexts
<1>1. pc[p][c] \in {"step", "write"}
  BY DEF ContextStep, PrepareStep, WriteStep, EndSteps, DeleteTimer, PlanRestore,
         WriteOriginal, RaiseDone, At, PhyInv, ThreadInv
<1>2. /\ Programmed(p) /\ (plan[p][c].then = "arm" => orig[p] = freqOrig[p])
      /\ Loop(p, c, freqOrig[p], freqMod[p]) /\ OnWay(p, c, freqOrig[p])
      /\ \A h \in Handlers : pc[p][h] = "off"
      /\ done[p]
  BY <1>1 DEF PaceInv, ForthOK, PhyInv, HandlerInv, ThreadInv
<1>3. ASSUME NEW l, Goto(p, c, l)
      PROVE  pc'[p][c] = l /\ \A h \in Handlers : pc'[p][h] = "off"
  BY <1>0, <1>2, <1>3, GotoPlace, PhyAssumption DEF Contexts
<1>4. PICK k \in Int : k = freqOrig[p]
  BY Fields
<1>5. OnWay(p, c, k)
  BY <1>2, <1>4
<1>6. CASE PrepareStep(p, c)
  <2>1. /\ pc'[p][c] = "write" /\ UNCHANGED <<hw, orig, done>> /\ SameCall(p)
        /\ plan'[p][c].from = plan[p][c].from /\ plan'[p][c].to = plan[p][c].to
        /\ plan'[p][c].n = plan[p][c].n /\ plan'[p][c].then = plan[p][c].then
        /\ plan'[p][c].i > 0
        /\ Near(hw'[p], Reached(plan'[p][c], plan'[p][c].i - 1, k))
        /\ Near(mod'[p], Reached(plan'[p][c], plan'[p][c].i, k))
    BY <1>0, <1>5, <1>6, PreparePace
  <2>2. \A h \in Handlers : pc'[p][h] = "off"
    BY <1>3, <1>6 DEF PrepareStep
  <2>3. Programmed(p)' /\ AskedShift(p)' = AskedShift(p)
    BY <1>2, <2>1, SameCallKeeps
  <2>4. Loop(p, c, freqOrig[p], freqMod[p])'
    BY <1>2, <2>1, <2>3 DEF Loop, SameCall
  <2>5. OnWay(p, c, freqOrig[p])'
    <3>1. freqOrig'[p] = k
      BY <1>4, <2>1 DEF SameCall
    <3> QED
      BY <2>1, <3>1 DEF OnWay
  <2>6. ForthOK(p)'
    BY <1>2, <2>1, <2>3, <2>4, <2>5 DEF ForthOK, SameCall
  <2> QED
    BY <2>1, <2>2, <2>6 DEF PaceInv, StayOK, Away, BackOK
<1>7. CASE WriteStep(p, c)
  <2>1. /\ pc'[p][c] = "step" /\ UNCHANGED <<mod, orig, done, plan>> /\ SameCall(p)
        /\ Near(hw'[p], Reached(plan[p][c], plan[p][c].i, k))
    BY <1>0, <1>5, <1>7, WritePace
  <2>2. \A h \in Handlers : pc'[p][h] = "off"
    BY <1>3, <1>7 DEF WriteStep
  <2>3. Programmed(p)' /\ AskedShift(p)' = AskedShift(p)
    BY <1>2, <2>1, SameCallKeeps
  <2>4. Loop(p, c, freqOrig[p], freqMod[p])'
    BY <1>2, <2>1, <2>3 DEF Loop, SameCall
  <2>5. OnWay(p, c, freqOrig[p])'
    <3>1. freqOrig'[p] = k
      BY <1>4, <2>1 DEF SameCall
    <3> QED
      BY <2>1, <3>1 DEF OnWay
  <2>6. ForthOK(p)'
    BY <1>2, <2>1, <2>3, <2>4, <2>5 DEF ForthOK, SameCall
  <2> QED
    BY <2>1, <2>2, <2>6 DEF PaceInv, StayOK, Away, BackOK
<1>8. CASE EndSteps(p, c)
  <2>1. /\ pc[p][c] = "step" /\ ~(plan[p][c].i < plan[p][c].n)
        /\ Goto(p, c, plan[p][c].then) /\ UNCHANGED <<hw, orig, done, mod>> /\ SameCall(p)
    BY <1>8 DEF EndSteps, At, MoreSteps, regs, saved, SameCall
  <2>2. plan[p][c].then \in {"arm", "return"}
    BY <1>0, <1>1, Fields DEF Plans, PhyInv, ThreadInv
  <2>3. pc'[p][c] = plan[p][c].then /\ \A h \in Handlers : pc'[p][h] = "off"
    BY <1>3, <2>1
  <2>4. CASE plan[p][c].then = "return"
    BY <2>3, <2>4 DEF PaceInv, ForthOK, StayOK, Away, BackOK
  <2>5. CASE plan[p][c].then = "arm"
    <3>1. Near(hw[p], Shifted(p))
      <4>1. ValidClocks(freqOrig[p], freqMod[p]) /\ freqOrig[p] \in Int /\ freqMod[p] \in Int
        BY <1>2, Fields DEF Programmed
      <4>2. \/ /\ StepCount(freqOrig[p], freqMod[p], AskedShift(p)) # 0
               /\ Near(hw[p], freqMod[p])
            \/ /\ StepCount(freqOrig[p], freqMod[p], AskedShift(p)) = 0
               /\ Near(hw[p], freqOrig[p])
        BY <1>0, <1>2, <2>1, <4>1, LoopOver
      <4> QED
        BY <4>2 DEF Shifted
    <3>2. Programmed(p)' /\ Shifted(p)' = Shifted(p)
      BY <1>2, <2>1, SameCallKeeps
    <3>3. StayOK(p)'
      BY <1>2, <2>1, <2>5, <3>1, <3>2 DEF StayOK, SameCall
    <3> QED
      BY <2>3, <2>5, <3>3 DEF PaceInv, ForthOK, BackOK
  <2> QED
    BY <2>2, <2>4, <2>5
<1> QED
  BY <1>1, <1>6, <1>7, <1>8
     DEF ContextStep, DeleteTimer, PlanRestore, WriteOriginal, RaiseDone, At

\* The timer expires: the clock is still the shifted one.
LEMMA ExpirePace ==
  ASSUME TypeOK, OneActivation, NEW p \in Phys, PhyInv(p), PaceInv(p), Expiry(p)
  PROVE  PaceInv(p)'
<1>1. PICK h \in Handlers, t \in Threads : Expire(p, h, t)
  BY DEF Expiry
<1>2. /\ timer[p] # "none" /\ host[p][h] = NoThread /\ Goto(p, h, "delete")
      /\ UNCHANGED <<hw, orig, done, plan, mod>> /\ SameCall(p)
  BY <1>1 DEF Expire, regs, saved, SameCall
<1>3. /\ pc'[p][h] = "delete" /\ pc'[p]["sync"] = pc[p]["sync"]
      /\ pc[p][h] = "off"
  BY <1>2, GotoPlace, PhyAssumption DEF Contexts, TypeOK, PlacesOK
<1>4. \A g \in Handlers : g = h
  BY DEF OneActivation
<1>5. pc[p]["sync"] = "wait" /\ ~done[p]
  BY <1>2 DEF PhyInv, HandlerInv
<1>6. Programmed(p) /\ orig[p] = freqOrig[p] /\ Near(hw[p], Shifted(p))
  BY <1>3, <1>4, <1>5 DEF PaceInv, StayOK, Away
<1>7. StayOK(p)'
  BY <1>2, <1>6, SameCallKeeps DEF StayOK, SameCall
<1> QED
  BY <1>3, <1>4, <1>5, <1>7 DEF PaceInv, ForthOK, BackOK

\* reset_phy_regs: the clock goes back, from the shifted to the original one.
LEMMA HandlerPace ==
  ASSUME TypeOK, OneActivation, NEW p \in Phys, PhyInv(p), PaceInv(p), ~libDone,
         NEW h \in Handlers, ContextStep(p, h)
  PROVE  PaceInv(p)'
<1>0. h \in Contexts /\ h # "sync"
  BY PhyAssumption DEF Contexts
<1>1. \A g \in Handlers : g = h
  BY DEF OneActivation
<1>2. pc[p]["sync"] = "wait" /\ ~done[p]
  BY DEF ContextStep, PrepareStep, WriteStep, EndSteps, DeleteTimer, PlanRestore,
         WriteOriginal, RaiseDone, At, PhyInv, HandlerInv
<1>3. Programmed(p) /\ orig[p] = freqOrig[p]
  BY <1>2 DEF PaceInv, StayOK, Away
<1>4. ASSUME NEW l, Goto(p, h, l)
      PROVE  pc'[p][h] = l /\ pc'[p]["sync"] = "wait"
  BY <1>0, <1>2, <1>4, GotoPlace DEF Contexts
<1>5. SameCall(p) /\ UNCHANGED orig
  BY DEF ContextStep, PrepareStep, WriteStep, EndSteps, DeleteTimer, PlanRestore,
         WriteOriginal, RaiseDone, saved, SameCall
<1>6. /\ Programmed(p)' /\ orig'[p] = freqOrig'[p]
      /\ AskedShift(p)' = AskedShift(p) /\ JumpLimit(p)' = JumpLimit(p)
      /\ Shifted(p)' = Shifted(p)
  BY <1>3, <1>5, SameCallKeeps DEF SameCall
<1>7. PICK k \in Int : k = Shifted(p)
  BY <1>3, ShiftedIs
<1>8. ASSUME pc'[p]["sync"] = "wait", pc'[p][h] \notin {"off", "delete", "plan"}, BackOK(p)'
      PROVE  PaceInv(p)'
  BY <1>6, <1>8 DEF PaceInv, ForthOK, StayOK
<1>9. CASE DeleteTimer(p, h)
  <2>1. pc[p][h] = "delete" /\ Goto(p, h, "plan") /\ UNCHANGED hw
    BY <1>9 DEF DeleteTimer, At, regs
  <2>2. Near(hw[p], Shifted(p))
    BY <1>1, <1>2, <2>1 DEF PaceInv, StayOK, Away
  <2>3. StayOK(p)'
    BY <1>6, <2>1, <2>2 DEF StayOK
  <2> QED
    BY <1>1, <1>4, <2>1, <2>3 DEF PaceInv, ForthOK, BackOK
<1>10. CASE PlanRestore(p, h)
  <2> DEFINE pl == NewPlan(freqMod[p], freqOrig[p], usedShift[p], "orig")
  <2>1. /\ pc[p][h] = "plan" /\ Goto(p, h, "step") /\ UNCHANGED hw
        /\ plan' = [plan EXCEPT ![p][h] = pl]
    BY <1>10 DEF PlanRestore, At, regs
  <2>2. Near(hw[p], Shifted(p))
    BY <1>1, <1>2, <2>1 DEF PaceInv, StayOK, Away
  <2>3. plan'[p][h] = pl
    <3> HIDE DEF pl
    <3> QED
      BY <1>0, <2>1 DEF TypeOK, ControlTypeOK
  <2>4. Loop(p, h, freqMod[p], freqOrig[p])'
    BY <1>3, <1>5, <1>6, <2>3 DEF Loop, NewPlan, SameCall, Programmed
  <2>5. OnWay(p, h, Shifted(p))'
    <3>1. Reached(plan'[p][h], plan'[p][h].i, Shifted(p)') = Shifted(p)
      BY <1>6, <2>3 DEF NewPlan, Reached
    <3> QED
      BY <1>4, <2>1, <2>2, <3>1 DEF OnWay
  <2>6. BackOK(p)'
    BY <1>1, <1>4, <2>1, <2>4, <2>5 DEF BackOK
  <2> QED
    BY <1>4, <1>8, <2>1, <2>6
<1>11. CASE PrepareStep(p, h)
  <2>1. pc[p][h] = "step"
    BY <1>11 DEF PrepareStep, At
  <2>2. Loop(p, h, freqMod[p], freqOrig[p]) /\ OnWay(p, h, k)
    BY <1>7, <2>1 DEF PaceInv, BackOK
  <2>3. /\ pc'[p][h] = "write"
        /\ plan'[p][h].from = plan[p][h].from /\ plan'[p][h].to = plan[p][h].to
        /\ plan'[p][h].n = plan[p][h].n /\ plan'[p][h].i > 0
        /\ Near(hw'[p], Reached(plan'[p][h], plan'[p][h].i - 1, k))
        /\ Near(mod'[p], Reached(plan'[p][h], plan'[p][h].i, k))
    BY <1>0, <1>11, <2>2, PreparePace
  <2>4. Loop(p, h, freqMod[p], freqOrig[p])'
    BY <1>5, <1>6, <2>2, <2>3 DEF Loop, SameCall
  <2>5. OnWay(p, h, Shifted(p))'
    <3>1. Shifted(p)' = k
      BY <1>6, <1>7
    <3> QED
      BY <2>3, <3>1 DEF OnWay
  <2>6. BackOK(p)'
    BY <1>1, <2>3, <2>4, <2>5 DEF BackOK
  <2>7. pc'[p]["sync"] = "wait"
    BY <1>4, <1>11 DEF PrepareStep
  <2> QED
    BY <1>8, <2>3, <2>6, <2>7
<1>12. CASE WriteStep(p, h)
  <2>1. pc[p][h] = "write"
    BY <1>12 DEF WriteStep, At
  <2>2. Loop(p, h, freqMod[p], freqOrig[p]) /\ OnWay(p, h, k)
    BY <1>7, <2>1 DEF PaceInv, BackOK
  <2>3. /\ pc'[p][h] = "step" /\ UNCHANGED plan
        /\ Near(hw'[p], Reached(plan[p][h], plan[p][h].i, k))
    BY <1>0, <1>12, <2>2, WritePace
  <2>4. Loop(p, h, freqMod[p], freqOrig[p])'
    BY <1>5, <1>6, <2>2, <2>3 DEF Loop, SameCall
  <2>5. OnWay(p, h, Shifted(p))'
    <3>1. Shifted(p)' = k
      BY <1>6, <1>7
    <3> QED
      BY <2>3, <3>1 DEF OnWay
  <2>6. BackOK(p)'
    BY <1>1, <2>3, <2>4, <2>5 DEF BackOK
  <2>7. pc'[p]["sync"] = "wait"
    BY <1>4, <1>12 DEF WriteStep
  <2> QED
    BY <1>8, <2>3, <2>6, <2>7
<1>13. CASE EndSteps(p, h)
  <2>1. /\ pc[p][h] = "step" /\ ~(plan[p][h].i < plan[p][h].n)
        /\ Goto(p, h, plan[p][h].then) /\ UNCHANGED hw
    BY <1>13 DEF EndSteps, At, MoreSteps, regs
  <2>2. plan[p][h].then = "orig"
    BY <1>0, Fields DEF LoopOK
  <2>3. Loop(p, h, freqMod[p], freqOrig[p]) /\ OnWay(p, h, Shifted(p))
    BY <2>1 DEF PaceInv, BackOK
  <2>4. Abs(freqOrig[p] - hw[p]) <= JumpLimit(p)
    BY <1>3, <2>1, <2>3, BackOver
  <2>5. pc'[p][h] = "orig" /\ pc'[p]["sync"] = "wait"
    BY <1>4, <2>1, <2>2
  <2>6. BackOK(p)'
    BY <1>1, <1>3, <1>5, <1>6, <2>1, <2>4, <2>5 DEF BackOK
  <2> QED
    BY <1>8, <2>5, <2>6
<1>14. CASE WriteOriginal(p, h)
  <2>1. pc'[p][h] = "finish" /\ pc'[p]["sync"] = "wait"
    BY <1>4, <1>14 DEF WriteOriginal
  <2> QED
    BY <1>1, <1>8, <2>1 DEF BackOK
<1>15. CASE RaiseDone(p, h)
  <2>1. Goto(p, h, "off") /\ done'[p] = TRUE
    BY <1>0, <1>15 DEF RaiseDone, TypeOK, ControlTypeOK
  <2> QED
    BY <1>1, <1>4, <2>1 DEF PaceInv, ForthOK, StayOK, Away, BackOK
<1> QED
  BY <1>9, <1>10, <1>11, <1>12, <1>13, <1>14, <1>15 DEF ContextStep

-----------------------------------------------------------------------------
(* Together.                                                               *)

LEMMA PhyStepPace ==
  ASSUME TypeOK, OneActivation, NEW p \in Phys, PhyInv(p), PaceInv(p), ~libDone, PhyStep(p)
  PROVE  PaceInv(p)'
<1>1. ASSUME NEW td \in TimeDiffs, StartSync(p, td) PROVE PaceInv(p)'
  <2>1. /\ ProgramPhy(p, td, Shift, Shift2, TRUE)
        /\ AtRest(p) /\ UNCHANGED <<hw, done>>
    BY <1>1 DEF StartSync, At, AtRest, regs
  <2>2. TRUE \in BOOLEAN /\ Shift = IF TRUE THEN Shift ELSE LearningRate
    OBVIOUS
  <2> QED
    BY <2>1, <2>2, ProgramPhyPace
<1>2. CASE StartLearning(p)
  <2>1. /\ ProgramPhy(p, call[p].td, LearningRate, 0, FALSE)
        /\ AtRest(p) /\ UNCHANGED <<hw, done>>
    BY <1>2 DEF StartLearning, At, AtRest, regs
  <2>2. FALSE \in BOOLEAN /\ LearningRate = IF FALSE THEN Shift ELSE LearningRate
    OBVIOUS
  <2> QED
    BY <2>1, <2>2, ProgramPhyPace
<1> QED
  BY <1>1, <1>2, RestPace, TimerPace, ThreadPace, ExpirePace, HandlerPace
     DEF PhyStep, ThreadStep

\* A step of one PHY leaves what the others were asked for alone.
LEMMA OthersSameCall ==
  ASSUME TypeOK, NEW q \in Phys, PhyStep(q), NEW p \in Phys, p # q
  PROVE  SameCall(p) /\ mod'[p] = mod[p]
<1>1. ClockTypeOK /\ ControlTypeOK
  BY DEF TypeOK
<1> USE <1>1 DEF ClockTypeOK, ControlTypeOK, SameCall, regs, saved
<1>2. ASSUME NEW c \in Contexts, ContextStep(q, c) PROVE SameCall(p) /\ mod'[p] = mod[p]
  BY <1>2 DEF ContextStep, PrepareStep, WriteStep, EndSteps, DeleteTimer,
       PlanRestore, WriteOriginal, RaiseDone
<1>3. ASSUME NEW td \in TimeDiffs, StartSync(q, td) \/ RefuseSync(q, td)
      PROVE  SameCall(p) /\ mod'[p] = mod[p]
  BY <1>3 DEF StartSync, RefuseSync, ProgramPhy
<1>4. CASE StartLearning(q) \/ NextIteration(q)
  BY <1>4 DEF StartLearning, ProgramPhy, NextIteration
<1>5. CASE ThreadStep(q)
  BY <1>2, <1>5 DEF ThreadStep, LowerDone, MakeTimer, StopWaiting, Contexts
<1>6. CASE Expiry(q)
  BY <1>6 DEF Expiry, Expire
<1> QED
  BY <1>2, <1>3, <1>4, <1>5, <1>6 DEF PhyStep, Contexts

\* Ctrl+C and the log leave every PHY alone.
LEMMA ProcessQuiet ==
  ASSUME [Next]_vars, ~\E q \in Phys : PhyStep(q)
  PROVE  /\ UNCHANGED <<regs, saved, done, timer, pc, plan, call>>
         /\ libDone => libDone'
BY DEF Next, PhyStep, EnterLog, LeaveLog, CtrlC, Uninit, Terminated, vars, proc

LEMMA InitJump == Init => JumpInv
<1> SUFFICES ASSUME Init, NEW p \in Phys PROVE PaceInv(p)
  BY DEF JumpInv
<1>1. pc[p]["sync"] = "idle" /\ \A h \in Handlers : pc[p][h] = "off"
  BY PhyAssumption DEF Init, Contexts
<1> QED
  BY <1>1, IdlePace

LEMMA NextJump ==
  ASSUME TypeOK, OneActivation, OwnershipInv, JumpInv, [Next]_vars
  PROVE  JumpInv'
<1> SUFFICES ASSUME ~libDone', NEW p \in Phys PROVE PaceInv(p)'
  BY DEF JumpInv
<1>1. ASSUME NEW q \in Phys, PhyStep(q) PROVE PaceInv(p)'
  <2>1. UNCHANGED libDone
    BY <1>1 DEF PhyStep, StartSync, RefuseSync, StartLearning, NextIteration,
         ThreadStep, Expiry, Expire, ContextStep, PrepareStep, WriteStep, EndSteps,
         DeleteTimer, PlanRestore, WriteOriginal, RaiseDone, LowerDone, MakeTimer,
         StopWaiting, proc
  <2>2. ~libDone /\ PhyInv(q) /\ PaceInv(q) /\ PaceInv(p)
    BY <2>1 DEF OwnershipInv, JumpInv
  <2>3. CASE q = p
    BY <1>1, <2>2, <2>3, PhyStepPace
  <2>4. CASE q # p
    BY <1>1, <2>2, <2>4, OthersUntouched, OthersSameCall, UntouchedPace
  <2> QED
    BY <2>3, <2>4
<1>2. CASE ~\E q \in Phys : PhyStep(q)
  <2>1. UNCHANGED <<regs, saved, done, timer, pc, plan, call>> /\ ~libDone
    BY <1>2, ProcessQuiet
  <2>2. PaceInv(p) /\ Untouched(p) /\ SameCall(p) /\ mod'[p] = mod[p]
    BY <2>1 DEF JumpInv, Untouched, SameCall, regs, saved
  <2> QED
    BY <2>2, UntouchedPace
<1> QED
  BY <1>1, <1>2

\* Only the two writes of program_mmio move a clock, and neither goes too far.
LEMMA StepWithinShift ==
  ASSUME TypeOK, OwnershipInv, JumpInv, [Next]_vars, ~libDone
  PROVE  WithinShift
<1> SUFFICES ASSUME NEW p \in Phys, hw'[p] # hw[p] PROVE Abs(hw'[p] - hw[p]) <= JumpLimit(p)
  BY DEF WithinShift
<1>1. PICK q \in Phys : PhyStep(q)
  BY ProcessQuiet DEF regs
<1>2. q = p
  BY <1>1, OthersUntouched DEF Untouched
<1>3. PhyInv(p) /\ PaceInv(p)
  BY DEF OwnershipInv, JumpInv
<1>4. PICK c \in Contexts : WriteStep(p, c) \/ WriteOriginal(p, c)
  BY <1>1, <1>2, QuietSteps
<1>5. CASE WriteStep(p, c)
  <2>1. pc[p][c] = "write" /\ hw'[p] = mod[p]
    BY <1>5 DEF WriteStep, At, TypeOK, ClockTypeOK
  <2>2. CASE c = "sync"
    <3>1. Programmed(p) /\ Loop(p, c, freqOrig[p], freqMod[p]) /\ OnWay(p, c, freqOrig[p])
      BY <1>3, <2>1, <2>2 DEF PaceInv, ForthOK
    <3>2. Abs(mod[p] - hw[p]) <= JumpLimit(p)
      BY <2>1, <3>1, WriteWithin
    <3> QED
      BY <2>1, <3>2
  <2>3. CASE c \in Handlers
    <3>1. pc[p]["sync"] = "wait" /\ ~done[p]
      BY <1>3, <2>1, <2>3 DEF PhyInv, HandlerInv
    <3>2. /\ Programmed(p) /\ Loop(p, c, freqMod[p], freqOrig[p])
          /\ OnWay(p, c, Shifted(p))
      BY <1>3, <2>1, <2>3, <3>1 DEF PaceInv, StayOK, Away, BackOK
    <3>3. Shifted(p) = freqMod[p] \/ (Shifted(p) = freqOrig[p] /\ AskedShift(p) = 0)
      BY <3>2, ShiftedIs
    <3>4. Abs(mod[p] - hw[p]) <= JumpLimit(p)
      BY <2>1, <3>2, <3>3, WriteWithin
    <3> QED
      BY <2>1, <3>4
  <2> QED
    BY <2>2, <2>3 DEF Contexts
<1>6. CASE WriteOriginal(p, c)
  <2>1. pc[p][c] = "orig" /\ hw'[p] = orig[p]
    BY <1>6 DEF WriteOriginal, At, TypeOK, ClockTypeOK
  <2>2. c \in Handlers
    BY <1>3, <2>1 DEF PhyInv, ThreadInv, Contexts
  <2> QED
    BY <1>3, <2>1, <2>2 DEF PaceInv, BackOK
<1> QED
  BY <1>4, <1>5, <1>6

\* No write of program_mmio moves a clock by more than the share that was asked for, but for
\* rounding (phy.cpp:132-140): forth and back, in steps or at once, for a synchronisation
\* or a learning call, whatever the clocks, the shifts and the number of PHYs. The last write
\* of a reset, which takes the saved registers and not a step, is no exception.
THEOREM Gradual ==
  ASSUME OneActivation
  PROVE  Spec => NoLargeJump
<1>1. Init => OwnershipInv /\ JumpInv
  BY InitOwnership, InitJump
<1>2. TypeOK /\ OwnershipInv /\ [Next]_vars => OwnershipInv'
  BY NextOwnership
<1>3. TypeOK /\ OwnershipInv /\ JumpInv /\ [Next]_vars => JumpInv'
  BY NextJump
<1> DEFINE Step == ~libDone => WithinShift
<1>4. TypeOK /\ OwnershipInv /\ JumpInv /\ [Next]_vars => [Step]_vars
  BY StepWithinShift
<1> QED
  BY <1>1, <1>2, <1>3, <1>4, TypeCorrect, PTL DEF Spec, NoLargeJump

=============================================================================
