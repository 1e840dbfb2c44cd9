---------------------------- MODULE PllCtl_proofs ----------------------------
(***************************************************************************)
(* Proofs about PllCtl: for any display, tolerance, step and number of     *)
(* timestamps, where get_pll_clock gives the display's clock -R brings the *)
(* interval closer by steps and does not end with the wrong one, whichever *)
(* captures and sets go wrong before the last; and no thread captures once *)
(* the library is taken down.                                              *)
(***************************************************************************)
EXTENDS PllCtl, TLAPS

\* The average of timestamps an interval apart is the interval, up to what the last
\* of them is off by (get_vblank_interval).
LEMMA DivExact ==
  ASSUME NEW n \in Nat \ {0}, NEW x \in Int
  PROVE  (n * x) \div n = x
  OBVIOUS

LEMMA GoodAverage ==
  ASSUME NEW e \in Int, NEW j \in Int, interval \in Int, Slots \in Nat \ {0, 1}
  PROVE  Average(Stamps(Slots, e * (Slots - 1), j)) = interval + e
<1> DEFINE s == Stamps(Slots, e * (Slots - 1), j)
<1>1. s[1] = interval
  BY DEF Stamps
<1>2. s[Slots] = Slots * interval + e * (Slots - 1)
  BY DEF Stamps
<1>3. s[Slots] - s[1] = (Slots - 1) * (interval + e)
  BY <1>1, <1>2
<1>4. ((Slots - 1) * (interval + e)) \div (Slots - 1) = interval + e
  BY DivExact
<1> QED
  BY <1>3, <1>4 DEF Average

LEMMA AverageType ==
  ASSUME NEW f \in Int, NEW e \in Int, NEW j \in Int, interval \in Int, Slots \in Nat \ {0, 1}
  PROVE  Average(Stamps(f, e, j)) \in Int
<1>1. Stamps(f, e, j)[1] \in Int /\ Stamps(f, e, j)[Slots] \in Int
  BY DEF Stamps
<1> QED
  BY <1>1 DEF Average

\* What a capture yields is an integer, and if every slot was written it is the
\* interval within the jitter.
LEMMA ReadingsType ==
  ASSUME PllAssumption, interval \in Int, NEW f \in Int, NEW m \in Readings(f)
  PROVE  m \in Int /\ (f = Slots => Distance(m, interval) <= Jitter)
<1>1. PICK e \in -Jitter .. Jitter, j \in Junk : m = Average(Stamps(f, e * (Slots - 1), j))
  BY DEF Readings
<1>2. /\ e \in Int /\ j \in Int /\ Slots \in Nat \ {0, 1} /\ Jitter \in Nat
      /\ -Jitter <= e /\ e <= Jitter
  BY DEF PllAssumption
<1>3. e * (Slots - 1) \in Int
  BY <1>2
<1>4. m \in Int
  BY <1>1, <1>2, <1>3, AverageType
<1>5. ASSUME f = Slots PROVE Distance(m, interval) <= Jitter
  <2>1. m = interval + e
    BY <1>1, <1>2, <1>5, GoodAverage
  <2> QED
    BY <2>1, <1>2 DEF Distance
<1> QED
  BY <1>4, <1>5

-----------------------------------------------------------------------------
(* The inductive invariant: a capture never writes more slots than there   *)
(* are, and while main adjusts, the measurement, if it is a good one, is   *)
(* of the display as it is now.                                            *)

CapturesOK == \A t \in Threads : cap[t].filled + cap[t].left <= Slots

AdjustingOK ==
  /\ pc["main"] = "frequency" => way = "frequency"
  /\ pc["main"] = "loop" /\ ~misread => Distance(measured, interval) <= Jitter

PllInv == TypeOK /\ CapturesOK /\ AdjustingOK

LEMMA InitInv == ASSUME PllAssumption, Init PROVE PllInv
<1> USE DEF Init, Threads
<1>0. interval \in Int /\ 0 \in 0 .. MaxIterations /\ 0 \in 0 .. MaxFaults /\ phy \in PhyTypes
  BY DEF PllAssumption
<1>1. PcOK
  BY DEF PcOK, Places
<1>2. LoopTypes
  <2>1. misread \in BOOLEAN
    BY Zenon
  <2> QED
    BY <1>0, <2>1 DEF LoopTypes
<1>3. cap \in [Threads -> [left : 0 .. Slots, filled : 0 .. Slots]] /\ CapturesOK
  BY DEF PllAssumption, CapturesOK, NoCapture
<1>4. AdjustingOK
  BY DEF AdjustingOK
<1> QED
  BY <1>0, <1>1, <1>2, <1>3, <1>4 DEF PllInv, TypeOK

\* What a thread does with a reading keeps the parts of the invariant about pc and
\* the loop.
LEMMA ReadInv ==
  ASSUME PllAssumption, PcOK, LoopTypes, AdjustingOK,
         NEW t \in Threads, NEW m \in Int, NEW ill \in BOOLEAN,
         \E place \in Capturing : At(t, place),
         ~ill => Distance(m, interval) <= Jitter,
         Read(t, m, ill), way' = way, commit' = commit, interval' = interval,
         shutdown => shutdown'
  PROVE  PcOK' /\ LoopTypes' /\ AdjustingOK'
<1> USE DEF Threads, At, Goto
<1>1. CASE t = "main" /\ pc["main"] = "measure"
  <2>1. measured' = m /\ misread' = ill /\ pll' = pll /\ iteration' = iteration
    BY <1>1 DEF Read, Capturing
  <2>2. pc' = [pc EXCEPT !["main"] = "loop"]
    BY <1>1 DEF Read, Capturing
  <2>3. PcOK' /\ pc'["main"] = "loop"
    BY <2>2 DEF PcOK, Places
  <2>4. LoopTypes'
    BY <2>1 DEF LoopTypes
  <2>5. AdjustingOK'
    BY <1>1, <2>1, <2>3 DEF AdjustingOK, Distance
  <2> QED
    BY <2>3, <2>4, <2>5
<1>2. CASE ~(t = "main" /\ pc["main"] = "measure")
  <2>1. UNCHANGED <<pll, measured, iteration, misread>>
    BY <1>2 DEF Read, loop
  <2>2. \/ t = "main" /\ pc["main"] = "final" /\ pc' = [pc EXCEPT !["main"] = "uninit"]
        \/ /\ t = "background" /\ pc["background"] = "measure"
           /\ pc' = [pc EXCEPT !["background"] = "check"]
    BY <1>2 DEF Read, Capturing, PcOK
  <2>3. PcOK' /\ (pc'["main"] = pc["main"] \/ pc'["main"] = "uninit")
    BY <2>2 DEF PcOK, Places
  <2>4. LoopTypes'
    BY <2>1 DEF LoopTypes
  <2>5. AdjustingOK'
    BY <2>1, <2>3 DEF AdjustingOK, Distance
  <2> QED
    BY <2>3, <2>4, <2>5
<1> QED
  BY <1>1, <1>2

\* A capture goes on, fails, or ends with a reading.
LEMMA CaptureInv ==
  ASSUME PllAssumption, PllInv, NEW t \in Threads,
         CaptureStep(t) \/ CaptureFails(t) \/ SelectTimesOut(t)
  PROVE  PllInv'
<1> USE DEF PllInv
<1>0. /\ UNCHANGED <<way, commit, phy, interval, continue, shutdown, mapped, deadlocked>>
      /\ cap \in [Threads -> [left : 0 .. Slots, filled : 0 .. Slots]]
      /\ Slots \in Nat \ {0, 1} /\ MaxFaults \in Nat
  BY DEF CaptureStep, BeginCapture, Vblank, CaptureFails, SelectTimesOut, stops, TypeOK,
         PllAssumption
<1>1. faults' \in 0 .. MaxFaults
  <2>1. faults \in 0 .. MaxFaults
    BY DEF TypeOK
  <2>2. faults' = faults \/ (faults < MaxFaults /\ faults' = faults + 1)
    BY DEF CaptureStep, BeginCapture, Vblank, CaptureFails, SelectTimesOut
  <2> QED
    BY <1>0, <2>1, <2>2
<1>2. cap' \in [Threads -> [left : 0 .. Slots, filled : 0 .. Slots]] /\ CapturesOK'
  <2>1. PICK c \in [left : 0 .. Slots, filled : 0 .. Slots] :
          cap' = [cap EXCEPT ![t] = c] /\ c.left + c.filled <= Slots
    <3>1. NoCapture \in [left : 0 .. Slots, filled : 0 .. Slots]
          /\ NoCapture.left + NoCapture.filled <= Slots
      BY <1>0 DEF NoCapture
    <3>2. CASE BeginCapture(t)
      <4> DEFINE c == [left |-> Slots, filled |-> 0]
      <4>1. c \in [left : 0 .. Slots, filled : 0 .. Slots] /\ c.left + c.filled <= Slots
        BY <1>0
      <4>2. cap' = [cap EXCEPT ![t] = c]
        BY <3>2 DEF BeginCapture
      <4> QED
        BY <4>1, <4>2
    <3>3. CASE Vblank(t)
      <4>1. CASE cap[t].left > 1
        <5> DEFINE c == [left |-> cap[t].left - 1, filled |-> cap[t].filled + 1]
        <5>1. c \in [left : 0 .. Slots, filled : 0 .. Slots] /\ c.left + c.filled <= Slots
          BY <1>0, <4>1 DEF CapturesOK
        <5>2. cap' = [cap EXCEPT ![t] = c]
          BY <1>0, <3>3, <4>1 DEF Vblank
        <5> QED
          BY <5>1, <5>2
      <4>2. CASE ~(cap[t].left > 1)
        BY <3>1, <3>3, <4>2 DEF Vblank
      <4> QED
        BY <4>1, <4>2
    <3>4. CASE CaptureFails(t)
      BY <3>1, <3>4 DEF CaptureFails
    <3>5. CASE SelectTimesOut(t)
      <4>1. CASE cap[t].left > 1
        <5> DEFINE c == [left |-> cap[t].left - 1, filled |-> cap[t].filled]
        <5>1. c \in [left : 0 .. Slots, filled : 0 .. Slots] /\ c.left + c.filled <= Slots
          BY <1>0, <4>1 DEF CapturesOK
        <5>2. cap' = [cap EXCEPT ![t] = c]
          BY <1>0, <3>5, <4>1 DEF SelectTimesOut, Missed
        <5> QED
          BY <5>1, <5>2
      <4>2. CASE ~(cap[t].left > 1)
        BY <3>1, <3>5, <4>2 DEF SelectTimesOut, Missed
      <4> QED
        BY <4>1, <4>2
    <3> QED
      BY <3>2, <3>3, <3>4, <3>5 DEF CaptureStep
  <2> QED
    BY <1>0, <2>1 DEF CapturesOK
<1>3. PcOK' /\ LoopTypes' /\ AdjustingOK'
  <2>1. CASE UNCHANGED <<pc, pll, measured, iteration, misread>>
    BY <1>0, <2>1 DEF PcOK, LoopTypes, AdjustingOK, TypeOK, Distance
  <2>2. ASSUME NEW m \in Int, NEW ill \in BOOLEAN, Read(t, m, ill),
               ~ill => Distance(m, interval) <= Jitter
        PROVE  PcOK' /\ LoopTypes' /\ AdjustingOK'
    <3>1. \E place \in Capturing : At(t, place)
      BY DEF CaptureStep, BeginCapture, Vblank, CaptureFails, SelectTimesOut, Missed
    <3> QED
      BY <1>0, <2>2, <3>1, ReadInv DEF TypeOK
  <2>3. CASE Vblank(t) /\ ~(cap[t].left > 1)
    <3>1. PICK m \in Readings(cap[t].filled + 1) : Read(t, m, cap[t].filled + 1 < Slots)
      BY <2>3 DEF Vblank
    <3>2. cap[t].filled + 1 \in Int /\ cap[t].filled + 1 <= Slots
      BY <1>0, <2>3 DEF Vblank, CapturesOK
    <3>3. m \in Int /\ (cap[t].filled + 1 = Slots => Distance(m, interval) <= Jitter)
      BY <3>1, <3>2, ReadingsType DEF TypeOK
    <3>4. (cap[t].filled + 1 < Slots) \in BOOLEAN
      OBVIOUS
    <3>5. ~(cap[t].filled + 1 < Slots) => Distance(m, interval) <= Jitter
      BY <1>0, <3>2, <3>3
    <3> QED
      BY <2>2, <3>1, <3>3, <3>4, <3>5, Zenon
  <2>4. CASE CaptureFails(t)
    <3>1. Read(t, 0, TRUE)
      BY <2>4 DEF CaptureFails
    <3>2. 0 \in Int /\ TRUE \in BOOLEAN
      OBVIOUS
    <3> QED
      BY <2>2, <3>1, <3>2
  <2>5. CASE SelectTimesOut(t) /\ ~(cap[t].left > 1)
    <3>1. PICK m \in Readings(cap[t].filled) : Read(t, m, TRUE)
      BY <2>5 DEF SelectTimesOut, Missed
    <3>2. m \in Int
      BY <1>0, <3>1, ReadingsType DEF TypeOK
    <3>3. TRUE \in BOOLEAN
      OBVIOUS
    <3> QED
      BY <2>2, <3>1, <3>2, <3>3
  <2>6. CASE BeginCapture(t) \/ (Vblank(t) /\ cap[t].left > 1)
             \/ (SelectTimesOut(t) /\ cap[t].left > 1)
    BY <2>1, <2>6 DEF BeginCapture, Vblank, SelectTimesOut, Missed, loop
  <2> QED
    BY <2>3, <2>4, <2>5, <2>6 DEF CaptureStep
<1> QED
  BY <1>0, <1>1, <1>2, <1>3 DEF TypeOK

LEMMA BackgroundInv == ASSUME PllInv, BackgroundStep PROVE PllInv'
<1> USE DEF BackgroundStep, At, Goto, Threads, Capturing
<1>1. PcOK' /\ pc'["main"] = pc["main"]
  BY DEF PllInv, TypeOK, PcOK, Places
<1>2. UNCHANGED <<way, commit, phy, cap, interval, pll, measured, iteration, misread, continue,
                  shutdown, mapped, deadlocked, faults>>
  BY DEF loop, stops
<1>3. LoopTypes' /\ CapturesOK' /\ AdjustingOK'
  BY <1>1, <1>2 DEF PllInv, TypeOK, LoopTypes, CapturesOK, AdjustingOK, Distance
<1> QED
  BY <1>1, <1>2, <1>3 DEF PllInv, TypeOK

\* Ctrl+C may end the capture of main.
LEMMA CtrlCInv == ASSUME PllAssumption, PllInv, CtrlC PROVE PllInv'
<1> USE DEF PllInv
<1>0. /\ UNCHANGED <<way, commit, phy, interval, mapped, faults>>
      /\ continue' = FALSE /\ shutdown' = TRUE /\ "main" \in Threads
      /\ Slots \in Nat \ {0, 1}
      /\ cap \in [Threads -> [left : 0 .. Slots, filled : 0 .. Slots]]
  BY DEF CtrlC, Threads, PllAssumption, TypeOK
<1>1. deadlocked' \in BOOLEAN /\ continue' \in BOOLEAN /\ shutdown' \in BOOLEAN
  <2>1. deadlocked' = TRUE \/ deadlocked' = deadlocked
    BY DEF CtrlC
  <2>2. deadlocked \in BOOLEAN
    BY DEF TypeOK
  <2> QED
    BY <1>0, <2>1, <2>2, Zenon
<1>2. CASE UNCHANGED <<pc, cap, loop>>
  <2>1. PcOK' /\ LoopTypes' /\ CapturesOK' /\ AdjustingOK'
    BY <1>0, <1>2 DEF TypeOK, PcOK, LoopTypes, CapturesOK, AdjustingOK, Distance, loop
  <2> QED
    BY <1>0, <1>1, <1>2, <2>1 DEF TypeOK
<1>3. CASE cap["main"].left > 1 /\ Missed("main")
  <2> DEFINE c == [left |-> cap["main"].left - 1, filled |-> cap["main"].filled]
  <2>1. c \in [left : 0 .. Slots, filled : 0 .. Slots] /\ c.left + c.filled <= Slots
    BY <1>0, <1>3 DEF CapturesOK
  <2>2. /\ cap' = [cap EXCEPT !["main"] = c]
        /\ UNCHANGED <<pc, pll, measured, iteration, misread>>
    BY <1>0, <1>3 DEF Missed, loop
  <2>3. cap' \in [Threads -> [left : 0 .. Slots, filled : 0 .. Slots]] /\ CapturesOK'
    BY <1>0, <2>1, <2>2 DEF CapturesOK
  <2>4. PcOK' /\ LoopTypes' /\ AdjustingOK'
    BY <1>0, <2>2 DEF TypeOK, PcOK, LoopTypes, AdjustingOK, Distance
  <2> QED
    BY <1>0, <1>1, <2>3, <2>4 DEF TypeOK
<1>4. CASE ~(cap["main"].left > 1) /\ Missed("main")
  <2>1. PICK m \in Readings(cap["main"].filled) : Read("main", m, TRUE)
    BY <1>4 DEF Missed
  <2>2. m \in Int
    BY <1>0, <2>1, ReadingsType DEF TypeOK
  <2>3. \E place \in Capturing : At("main", place)
    BY <1>4 DEF Missed
  <2>4. PcOK' /\ LoopTypes' /\ AdjustingOK'
    <3>1. TRUE \in BOOLEAN
      OBVIOUS
    <3> QED
      BY <1>0, <2>1, <2>2, <2>3, <3>1, ReadInv DEF TypeOK
  <2>5. cap' = [cap EXCEPT !["main"] = NoCapture]
    BY <1>4 DEF Missed
  <2>6. cap' \in [Threads -> [left : 0 .. Slots, filled : 0 .. Slots]] /\ CapturesOK'
    BY <1>0, <2>5 DEF CapturesOK, NoCapture
  <2> QED
    BY <1>0, <1>1, <2>4, <2>6 DEF TypeOK
<1> QED
  BY <1>2, <1>3, <1>4 DEF CtrlC

-----------------------------------------------------------------------------
(* The steps of main.                                                      *)

\* Adjust moves pll_clock by a step, and the display to it or not at all: towards the
\* interval asked for if the measurement was a good one and no set has failed before.
LEMMA AdjustStep ==
  ASSUME PllAssumption, PllInv, Adjust
  PROVE  /\ pll' \in Int /\ interval' \in Int /\ iteration' \in 0 .. MaxIterations
         /\ faults' \in 0 .. MaxFaults
         /\ ReadsClock => Distance(interval', interval) <= Step + Distance(pll, interval)
         /\ ReadsClock /\ interval' # interval /\ ~misread /\ pll = interval =>
              Distance(interval', RefreshPeriod) < Distance(interval, RefreshPeriod)
<1>1. /\ RefreshPeriod \in Nat /\ Tolerance \in Nat /\ Step \in Nat /\ Jitter \in Nat
      /\ MaxIterations \in Nat /\ Step < 2 * (Tolerance - Jitter) /\ Intervals \subseteq Nat
  BY DEF PllAssumption
<1>2. /\ pll \in Int /\ measured \in Int /\ interval \in Int /\ iteration \in 0 .. MaxIterations
      /\ faults \in 0 .. MaxFaults
  BY DEF PllInv, TypeOK, LoopTypes
<1>3. /\ pc["main"] = "loop" /\ iteration < MaxIterations /\ iteration' = iteration + 1
      /\ Distance(measured, RefreshPeriod) > Tolerance
  BY DEF Adjust, Unfinished, At
<1>4. ~misread => Distance(measured, interval) <= Jitter
  BY <1>3 DEF PllInv, AdjustingOK
<1>5. iteration' \in 0 .. MaxIterations
  BY <1>1, <1>2, <1>3
<1>6. CASE ~ReadsClock
  <2>1. pll' = pll /\ faults' = faults /\ (interval' = interval \/ interval' \in Intervals)
    BY <1>6 DEF Adjust, SetUnread
  <2>2. pll' \in Int /\ faults' \in 0 .. MaxFaults
    BY <1>2, <2>1
  <2>3. interval' \in Int
    <3>1. CASE interval' = interval
      BY <1>2, <3>1, Zenon
    <3>2. CASE interval' \in Intervals
      <4>1. PICK i \in Intervals : interval' = i
        BY <3>2, Zenon
      <4>2. i \in Int
        BY <1>1
      <4> QED
        BY <4>1, <4>2, Zenon
    <3> QED
      BY <2>1, <3>1, <3>2
  <2> QED
    BY <1>5, <1>6, <2>2, <2>3
<1>7. CASE ReadsClock
  <2>1. pll' = Adjusted(pll, measured) /\ ((SetClock(pll') /\ UNCHANGED faults) \/ SetFails)
    BY <1>7 DEF Adjust
  <2>2. pll' \in Int
    BY <1>1, <1>2, <2>1 DEF Adjusted
  <2>3. interval' \in {interval, pll'} /\ interval' \in Int /\ faults' \in 0 .. MaxFaults
    BY <1>2, <2>1, <2>2, PllAssumption DEF SetClock, SetFails, PllAssumption
  <2>4. Distance(interval', interval) <= Step + Distance(pll, interval)
    <3>1. CASE interval' = interval
      BY <1>1, <1>2, <3>1 DEF Distance
    <3>2. CASE interval' = pll'
      <4>1. PICK p \in Int : p = pll'
        BY <2>2, Zenon
      <4>2. p = pll + Step \/ p = pll - Step
        BY <2>1, <4>1 DEF Adjusted
      <4>3. Distance(p, interval) <= Step + Distance(pll, interval)
        BY <1>1, <1>2, <4>2 DEF Distance
      <4> QED
        BY <3>2, <4>1, <4>3, Zenon
    <3> QED
      BY <2>3, <3>1, <3>2
  <2>5. ASSUME interval' # interval, ~misread, pll = interval
        PROVE  Distance(interval', RefreshPeriod) < Distance(interval, RefreshPeriod)
    <3>1. Distance(measured, interval) <= Jitter /\ interval' = Adjusted(interval, measured)
      BY <1>4, <2>1, <2>3, <2>5
    <3>2. CASE RefreshPeriod - measured > 0
      <4>1. RefreshPeriod - measured > Tolerance /\ interval' = interval + Step
        BY <1>1, <1>2, <1>3, <3>1, <3>2 DEF Distance, Adjusted
      <4>2. RefreshPeriod - interval > Tolerance - Jitter
        BY <1>1, <1>2, <3>1, <4>1 DEF Distance
      <4> QED
        BY <1>1, <1>2, <2>5, <4>1, <4>2 DEF Distance
    <3>3. CASE ~(RefreshPeriod - measured > 0)
      <4>1. measured - RefreshPeriod > Tolerance /\ interval' = interval - Step
        BY <1>1, <1>2, <1>3, <3>1, <3>3 DEF Distance, Adjusted
      <4>2. interval - RefreshPeriod > Tolerance - Jitter
        BY <1>1, <1>2, <3>1, <4>1 DEF Distance
      <4> QED
        BY <1>1, <1>2, <2>5, <4>1, <4>2 DEF Distance
    <3> QED
      BY <3>2, <3>3
  <2> QED
    BY <1>5, <2>2, <2>3, <2>4, <2>5
<1> QED
  BY <1>6, <1>7

LEMMA MainInv == ASSUME PllAssumption, PllInv, MainStep PROVE PllInv'
<1> USE DEF PllInv
<1>0. /\ UNCHANGED <<way, commit, phy, cap, shutdown, deadlocked>>
      /\ way \in {"frequency", "refresh", "delta"}
  BY DEF MainStep, InitLib, CreateThread, SetFrequency, Synchronize, StartAdjusting, Adjust,
         LeaveLoop, Stop, Join, Uninit, stops, TypeOK
<1>1. continue' \in BOOLEAN /\ mapped' \in BOOLEAN
  <2>1. continue' = FALSE \/ continue' = continue
    BY DEF MainStep, InitLib, CreateThread, SetFrequency, Synchronize, StartAdjusting, Adjust,
           LeaveLoop, Stop, Join, Uninit, stops
  <2>2. mapped' = TRUE \/ mapped' = FALSE \/ mapped' = mapped
    BY DEF MainStep, InitLib, CreateThread, SetFrequency, Synchronize, StartAdjusting, Adjust,
           LeaveLoop, Stop, Join, Uninit, stops
  <2>3. continue \in BOOLEAN /\ mapped \in BOOLEAN
    BY DEF TypeOK
  <2> QED
    BY <2>1, <2>2, <2>3, Zenon
<1>2. PcOK' /\ (pc'["main"] = "frequency" => way = "frequency")
      /\ (pc'["main"] \in {"measure", "loop"} => StartAdjusting \/ Adjust)
  <2>1. PICK place : /\ \/ Goto("main", place)
                        \/ /\ place = way /\ commit
                           /\ pc' = [pc EXCEPT !["main"] = way, !["background"] = "check"]
                     /\ \/ place \in {"done", "stop", "join", "final", "uninit"}
                        \/ place = "create" /\ commit
                        \/ place = way
                        \/ place = "measure" /\ (StartAdjusting \/ Adjust)
    <3>1. CASE InitLib
      BY <3>1 DEF InitLib
    <3>2. CASE CreateThread
      BY <3>2 DEF CreateThread, At, TypeOK, PcOK
    <3>3. CASE SetFrequency \/ Synchronize \/ LeaveLoop \/ Stop \/ Join \/ Uninit
      BY <3>3 DEF SetFrequency, Synchronize, LeaveLoop, Stop, Join, Uninit
    <3>4. CASE StartAdjusting \/ Adjust
      BY <3>4 DEF StartAdjusting, Adjust
    <3> QED
      BY <3>1, <3>2, <3>3, <3>4 DEF MainStep
  <2>2. place \in Places \ {"none", "check"}
    BY <1>0, <2>1 DEF Places
  <2>3. pc'["main"] = place
    BY <2>1 DEF Goto, PcOK, TypeOK, Threads
  <2>4. PcOK'
    BY <1>0, <2>1, <2>2 DEF Goto, PcOK, TypeOK, Threads, Places
  <2> QED
    BY <1>0, <2>1, <2>3, <2>4
<1>3. CASE Adjust
  <2>1. pc'["main"] = "measure" /\ UNCHANGED <<measured, misread>>
    BY <1>3 DEF Adjust, At, Goto, TypeOK, PcOK, Threads
  <2>2. interval' \in Int /\ LoopTypes' /\ faults' \in 0 .. MaxFaults
    BY <1>3, <2>1, AdjustStep DEF TypeOK, LoopTypes
  <2>3. AdjustingOK'
    BY <1>0, <1>2, <1>3, <2>1 DEF AdjustingOK
  <2> QED
    BY <1>0, <1>1, <1>2, <2>2, <2>3 DEF TypeOK, CapturesOK
<1>4. CASE StartAdjusting
  <2>1. /\ pc'["main"] = "measure"
        /\ UNCHANGED <<interval, measured, iteration, misread, faults>>
    BY <1>4 DEF StartAdjusting, At, Goto, TypeOK, PcOK, Threads
  <2>2. pll' \in Int
    <3>1. pll' = interval \/ pll' = 0
      BY <1>4 DEF StartAdjusting
    <3> QED
      BY <3>1 DEF TypeOK
  <2>3. interval' \in Int /\ LoopTypes' /\ faults' \in 0 .. MaxFaults
    BY <2>1, <2>2 DEF TypeOK, LoopTypes
  <2>4. AdjustingOK'
    BY <1>0, <1>2, <2>1 DEF AdjustingOK
  <2> QED
    BY <1>0, <1>1, <1>2, <2>3, <2>4 DEF TypeOK, CapturesOK
<1>5. CASE ~Adjust /\ ~StartAdjusting
  <2>1. UNCHANGED <<pll, measured, iteration, misread>>
    BY <1>5 DEF MainStep, InitLib, CreateThread, SetFrequency, Synchronize, LeaveLoop, Stop,
                Join, Uninit, loop
  <2>2. interval' \in Int /\ faults' \in 0 .. MaxFaults
    <3>0. /\ interval \in Int /\ faults \in 0 .. MaxFaults
          /\ MaxFaults \in Nat /\ Intervals \subseteq Nat
      BY DEF TypeOK, PllAssumption
    <3>1. /\ interval' = interval \/ \E clock \in Intervals : interval' = clock
          /\ faults' = faults \/ (faults < MaxFaults /\ faults' = faults + 1)
      BY <1>5 DEF MainStep, InitLib, CreateThread, SetFrequency, Synchronize, LeaveLoop, Stop,
                  Join, Uninit, SetClock, SetFails
    <3>2. interval' \in Int
      <4>1. CASE interval' = interval
        BY <3>0, <4>1, Zenon
      <4>2. ASSUME NEW clock \in Intervals, interval' = clock PROVE interval' \in Int
        <5>1. clock \in Int
          BY <3>0
        <5> QED
          BY <4>2, <5>1, Zenon
      <4> QED
        BY <3>1, <4>1, <4>2, Zenon
    <3>3. faults' \in 0 .. MaxFaults
      BY <3>0, <3>1
    <3> QED
      BY <3>2, <3>3
  <2>3. LoopTypes' /\ AdjustingOK'
    BY <1>0, <1>2, <1>5, <2>1 DEF TypeOK, LoopTypes, AdjustingOK
  <2> QED
    BY <1>0, <1>1, <1>2, <2>2, <2>3 DEF TypeOK, CapturesOK
<1> QED
  BY <1>3, <1>4, <1>5

LEMMA StutterInv == ASSUME PllInv, UNCHANGED vars PROVE PllInv'
  BY DEF vars, loop, stops, PllInv, TypeOK, PcOK, LoopTypes, CapturesOK, AdjustingOK, Distance

LEMMA StepInv == ASSUME PllAssumption, PllInv, [Next]_vars PROVE PllInv'
  BY MainInv, BackgroundInv, CtrlCInv, CaptureInv, StutterInv DEF Next

THEOREM Invariant == Spec => []PllInv
<1>1. PllAssumption
  BY PllAssumption
<1>2. Init => PllInv
  BY <1>1, InitInv
<1>3. PllInv /\ [Next]_vars => PllInv'
  BY <1>1, StepInv
<1> QED
  BY <1>2, <1>3, PTL DEF Spec

-----------------------------------------------------------------------------

\* Whatever display, tolerance and step: the state of pllctl stays well formed, the
\* background thread is there only unless --no-commit, and no more adjustments are
\* made than MAX_ITERATIONS (the loop of main).
THEOREM TypeCorrect == Spec => []TypeOK
<1>1. PllInv => TypeOK
  BY DEF PllInv
<1> QED
  BY <1>1, Invariant, PTL

\* Only SetFrequency and Adjust change the clock.
LEMMA WhoSets ==
  ASSUME [Next]_vars, interval' # interval
  PROVE  SetFrequency \/ Adjust
  BY DEF Next, MainStep, InitLib, CreateThread, Synchronize, StartAdjusting, LeaveLoop, Stop,
         Join, Uninit, BackgroundStep, CtrlC, CaptureStep, BeginCapture, Vblank, CaptureFails,
         SelectTimesOut, vars

\* With -R, for every display whose clock get_pll_clock reads and every step that is less
\* than the window: a change of the clock after a good measurement, when no set has failed
\* just before, brings the interval closer to the one asked for; and none jumps further
\* than a step and what failed sets have left undone (the loop of main, set_pll_clock).
THEOREM OnlyCloser == Spec => Approaches
<1>1. ASSUME PllAssumption, PllInv, [Next]_vars, interval' # interval, way = "refresh",
             ReadsClock
      PROVE  /\ Distance(interval', interval) <= Step + Distance(pll, interval)
             /\ \/ misread \/ pll # interval
                \/ Distance(interval', RefreshPeriod) < Distance(interval, RefreshPeriod)
  <2>1. ~SetFrequency
    BY <1>1 DEF SetFrequency, At, PllInv, AdjustingOK
  <2>2. Adjust
    BY <1>1, <2>1, WhoSets
  <2> QED
    BY <1>1, <2>2, AdjustStep
<1>2. PllInv /\ [Next]_vars =>
        [interval' # interval /\ way = "refresh" /\ ReadsClock =>
           /\ Distance(interval', interval) <= Step + Distance(pll, interval)
           /\ \/ misread \/ pll # interval
              \/ Distance(interval', RefreshPeriod) < Distance(interval, RefreshPeriod)]_vars
  BY <1>1, PllAssumption
<1> QED
  BY <1>2, Invariant, PTL DEF Spec, Approaches

-----------------------------------------------------------------------------
(* The inductive invariant of -R: how far the display can still be.        *)

\* Where main has not left the loop yet.
Before == {"init", "create", "refresh", "measure", "loop"}

\* A capture that has missed a vblank, and the measurement it ends with.
Spoilt ==
  \/ /\ pc["main"] = "measure" /\ cap["main"].left > 0
     /\ cap["main"].left + cap["main"].filled < Slots
  \/ pc["main"] = "loop" /\ misread

\* The steps the loop has for the right way: each capture that can still go wrong
\* costs two, one the wrong way and one back, and so does a spoilt one.  A set that
\* fails costs one, and one back when the next that does not goes too far.
StepsLeft == MaxIterations - iteration - 2 * (MaxFaults - faults)
StepsSure == IF Spoilt THEN StepsLeft - 2 ELSE StepsLeft

Reach(n) == Tolerance - Jitter + Step * n

\* k sets have failed one after the other, or fewer: pll_clock has gone that far without
\* the display, which is no further away than the other steps go.
Behind(k) ==
  /\ Distance(pll, interval) <= Step * k
  /\ Distance(interval, RefreshPeriod) <= Reach(StepsSure - k)

InReach ==
  way = "refresh" /\ ReadsClock /\ ~shutdown /\ pc["main"] \in Before =>
    \E k \in Nat : Behind(k)

IdleOK == pc["main"] \notin Capturing => cap["main"].left = 0
ContinueOK == pc["main"] \in Before /\ ~shutdown => continue

MappedOK ==
  /\ pc["main"] \notin {"init", "done"} => mapped
  /\ pc["background"] \in {"check", "measure"} =>
       pc["main"] \notin {"init", "create", "final", "uninit", "done"}

WayOK == pc["main"] \in {"frequency", "delta"} => way = pc["main"]

ConvergeInv == InReach /\ IdleOK /\ ContinueOK /\ WayOK /\ ConvergedIsTrue

-----------------------------------------------------------------------------
(* Arithmetic.                                                             *)

LEMMA Constants ==
  /\ RefreshPeriod \in Nat /\ Tolerance \in Nat /\ Step \in Nat /\ Jitter \in Nat
  /\ MaxFaults \in Nat /\ MaxIterations \in Nat /\ Slots \in Nat \ {0, 1}
  /\ Step < 2 * (Tolerance - Jitter)
  BY PllAssumption DEF PllAssumption

LEMMA Triangle ==
  ASSUME NEW a \in Int, NEW b \in Int, NEW c \in Int
  PROVE  /\ Distance(a, c) \in Int /\ Distance(a, b) \in Int /\ Distance(b, c) \in Int
         /\ Distance(a, c) <= Distance(a, b) + Distance(b, c)
  BY DEF Distance

\* More steps reach further.
LEMMA ReachGrows ==
  ASSUME NEW m \in Int, NEW n \in Int, m <= n
  PROVE  Reach(m) \in Int /\ Reach(n) \in Int /\ Reach(m) <= Reach(n)
<1>1. n - m \in Nat
  OBVIOUS
<1>2. Step * (n - m) \in Nat
  BY <1>1, Constants
<1>3. Step * n = Step * m + Step * (n - m)
  BY Constants
<1> QED
  BY <1>2, <1>3, Constants DEF Reach

LEMMA ReachPrevious ==
  ASSUME NEW n \in Int
  PROVE  Reach(n - 1) = Reach(n) - Step
<1>1. Step * (n - 1) = Step * n - Step
  BY Constants
<1> QED
  BY <1>1, Constants DEF Reach

LEMMA ReachSplit ==
  ASSUME NEW n \in Int, NEW k \in Int
  PROVE  Step * k \in Int /\ Reach(n - k) + Step * k = Reach(n)
<1>1. Step * (n - k) = Step * n - Step * k
  BY Constants
<1> QED
  BY <1>1, Constants DEF Reach

LEMMA ReachZero == Reach(0) = Tolerance - Jitter
<1>1. Step * 0 = 0
  BY Constants
<1> QED
  BY <1>1, Constants DEF Reach

\* What the steps are counted from.
LEMMA StepsType ==
  ASSUME PllInv
  PROVE  /\ StepsLeft \in Int /\ StepsSure \in Int
         /\ StepsSure <= StepsLeft /\ StepsLeft - 2 <= StepsSure
         /\ iteration = MaxIterations => StepsLeft <= 0
<1>1. iteration \in 0 .. MaxIterations /\ faults \in 0 .. MaxFaults
  BY DEF PllInv, TypeOK, LoopTypes
<1>2. StepsLeft \in Int /\ (iteration = MaxIterations => StepsLeft <= 0)
  BY <1>1, Constants DEF StepsLeft
<1> QED
  BY <1>2 DEF StepsSure

\* A step of the other kind: nothing but what main has missed matters.
LEMMA KeepsReach ==
  ASSUME PllInv, PllInv', InReach,
         UNCHANGED <<way, phy, interval, pll>>, shutdown => shutdown',
         pc'["main"] \in Before => pc["main"] \in Before,
         pc'["main"] \in Before => StepsSure <= StepsSure'
  PROVE  InReach'
<1> SUFFICES ASSUME way' = "refresh", ReadsClock', ~shutdown', pc'["main"] \in Before
             PROVE  \E k \in Nat : Behind(k)'
  BY DEF InReach
<1>0. StepsSure <= StepsSure'
  OBVIOUS
<1>1. PICK k \in Nat : Behind(k)
  BY DEF InReach, ReadsClock
<1>2. StepsSure \in Int /\ StepsSure' \in Int /\ StepsSure <= StepsSure'
  <2>1. iteration' \in Int /\ faults' \in Int
    BY DEF PllInv, TypeOK, LoopTypes
  <2>2. StepsSure' \in Int
    BY <2>1, Constants DEF StepsLeft, StepsSure
  <2> QED
    BY <1>0, <2>2, StepsType
<1>3. PICK m \in Int, n \in Int : m = StepsSure /\ n = StepsSure'
  BY <1>2, Zenon
<1>4. /\ Reach(StepsSure - k) \in Int /\ Reach(StepsSure' - k) \in Int
      /\ Reach(StepsSure - k) <= Reach(StepsSure' - k)
  <2>1. m <= n
    BY <1>2, <1>3, Zenon
  <2>2. m - k \in Int /\ n - k \in Int /\ m - k <= n - k
    BY <2>1
  <2>3. Reach(m - k) \in Int /\ Reach(n - k) \in Int /\ Reach(m - k) <= Reach(n - k)
    BY <2>2, ReachGrows, Zenon
  <2> QED
    BY <1>3, <2>3, Zenon
<1>5. Distance(interval, RefreshPeriod) \in Int
  BY Constants, Triangle DEF PllInv, TypeOK
<1>6. Distance(interval, RefreshPeriod) <= Reach(StepsSure' - k)
  BY <1>1, <1>4, <1>5 DEF Behind
<1>7. Behind(k)'
  BY <1>1, <1>6 DEF Behind, Reach, Distance
<1> QED
  BY <1>7

-----------------------------------------------------------------------------
(* Captures.                                                               *)

LEMMA ReadEffect ==
  ASSUME PllInv, NEW t \in Threads, NEW m \in Int, NEW ill \in BOOLEAN,
         \E place \in Capturing : At(t, place), Read(t, m, ill)
  PROVE  \/ /\ t = "main" /\ pc["main"] = "measure" /\ pc'["main"] = "loop"
            /\ misread' = ill /\ iteration' = iteration /\ pll' = pll
            /\ pc'["background"] = pc["background"]
         \/ /\ t = "main" /\ pc["main"] = "final" /\ pc'["main"] = "uninit"
            /\ UNCHANGED loop
            /\ pc'["background"] = pc["background"]
         \/ /\ t = "background" /\ pc["background"] = "measure"
            /\ pc'["background"] = "check" /\ pc'["main"] = pc["main"]
            /\ UNCHANGED loop
  BY DEF PllInv, TypeOK, PcOK, Threads, Capturing, At, Goto, Read

\* A capture goes on, or it ends with a reading; it is spoilt when the last turn, or
\* an earlier one, has brought no vblank.
LEMMA CaptureEffect ==
  ASSUME PllInv, NEW t \in Threads,
         CaptureStep(t) \/ CaptureFails(t) \/ SelectTimesOut(t)
  PROVE  /\ UNCHANGED <<way, phy, interval, continue, shutdown, mapped>>
         /\ \E place \in Capturing : At(t, place)
         /\ \A u \in Threads : u # t => cap'[u] = cap[u]
         /\ faults' \in {faults, faults + 1}
         /\ \/ /\ UNCHANGED <<pc, loop>>
               /\ faults' = faults =>
                    \/ cap'[t].left + cap'[t].filled = Slots
                    \/ /\ cap[t].left > 0
                       /\ cap'[t].left + cap'[t].filled = cap[t].left + cap[t].filled
            \/ /\ cap'[t].left = 0
               /\ \E m \in Int, ill \in BOOLEAN :
                    /\ Read(t, m, ill)
                    /\ faults' = faults /\ ill =>
                         cap[t].left > 0 /\ cap[t].left + cap[t].filled < Slots
<1>0. /\ cap \in [Threads -> [left : 0 .. Slots, filled : 0 .. Slots]] /\ interval \in Int
      /\ faults \in Nat /\ Slots \in Nat
  BY Constants DEF PllInv, TypeOK
<1>1. CASE BeginCapture(t)
  <2>1. cap' = [cap EXCEPT ![t] = [left |-> Slots, filled |-> 0]]
    BY <1>1 DEF BeginCapture
  <2>2. cap'[t].left + cap'[t].filled = Slots
    BY <1>0, <2>1
  <2> QED
    BY <1>0, <1>1, <2>1, <2>2 DEF BeginCapture, stops
<1>2. CASE Vblank(t) /\ cap[t].left > 1
  <2>1. cap' = [cap EXCEPT ![t].left = @ - 1, ![t].filled = @ + 1]
    BY <1>2 DEF Vblank
  <2>2. cap'[t].left + cap'[t].filled = cap[t].left + cap[t].filled
    BY <1>0, <2>1
  <2> QED
    BY <1>0, <1>2, <2>1, <2>2 DEF Vblank, stops
<1>3. CASE Vblank(t) /\ ~(cap[t].left > 1)
  <2>1. PICK m \in Readings(cap[t].filled + 1) : Read(t, m, cap[t].filled + 1 < Slots)
    BY <1>3 DEF Vblank
  <2>2. m \in Int
    BY <1>0, <2>1, PllAssumption, ReadingsType
  <2>3. cap[t].left > 0 /\ cap[t].left = 1
    BY <1>0, <1>3 DEF Vblank
  <2>4. cap' = [cap EXCEPT ![t] = NoCapture]
    BY <1>3 DEF Vblank
  <2>5. cap'[t].left = 0
    BY <1>0, <2>4 DEF NoCapture
  <2>6. (cap[t].filled + 1 < Slots) \in BOOLEAN
    OBVIOUS
  <2>7. cap[t].filled + 1 < Slots => cap[t].left > 0 /\ cap[t].left + cap[t].filled < Slots
    BY <1>0, <2>3
  <2>8. \E n \in Int, ill \in BOOLEAN :
          /\ Read(t, n, ill)
          /\ faults' = faults /\ ill => cap[t].left > 0 /\ cap[t].left + cap[t].filled < Slots
    BY <2>1, <2>2, <2>6, <2>7, Zenon
  <2>9. /\ UNCHANGED <<way, phy, interval, continue, shutdown, mapped>>
        /\ \E place \in Capturing : At(t, place)
        /\ \A u \in Threads : u # t => cap'[u] = cap[u]
        /\ faults' \in {faults, faults + 1}
    BY <1>0, <1>3, <2>4 DEF Vblank, stops
  <2> QED
    BY <2>5, <2>8, <2>9, Zenon
<1>4. CASE CaptureFails(t)
  <2>1. 0 \in Int /\ TRUE \in BOOLEAN
    OBVIOUS
  <2>2. cap' = [cap EXCEPT ![t] = NoCapture]
    BY <1>4 DEF CaptureFails
  <2>3. cap'[t].left = 0
    BY <1>0, <2>2 DEF NoCapture
  <2>4. faults' # faults /\ faults' = faults + 1
    BY <1>0, <1>4 DEF CaptureFails
  <2>5. Read(t, 0, TRUE)
    BY <1>4 DEF CaptureFails
  <2>6. \E m \in Int, ill \in BOOLEAN :
          /\ Read(t, m, ill)
          /\ faults' = faults /\ ill => cap[t].left > 0 /\ cap[t].left + cap[t].filled < Slots
    BY <2>1, <2>4, <2>5, Zenon
  <2>7. /\ UNCHANGED <<way, phy, interval, continue, shutdown, mapped>>
        /\ \E place \in Capturing : At(t, place)
        /\ \A u \in Threads : u # t => cap'[u] = cap[u]
    BY <1>0, <1>4, <2>2 DEF CaptureFails, stops
  <2> QED
    BY <2>3, <2>4, <2>6, <2>7
<1>5. CASE SelectTimesOut(t) /\ cap[t].left > 1
  <2>1. cap' = [cap EXCEPT ![t].left = @ - 1] /\ faults' = faults + 1 /\ UNCHANGED <<pc, loop>>
    BY <1>5 DEF SelectTimesOut, Missed
  <2> QED
    BY <1>0, <1>5, <2>1 DEF SelectTimesOut, Missed, stops
<1>6. CASE SelectTimesOut(t) /\ ~(cap[t].left > 1)
  <2>1. PICK m \in Readings(cap[t].filled) : Read(t, m, TRUE)
    BY <1>6 DEF SelectTimesOut, Missed
  <2>2. m \in Int /\ TRUE \in BOOLEAN /\ faults' = faults + 1
    BY <1>0, <1>6, <2>1, PllAssumption, ReadingsType DEF SelectTimesOut
  <2>3. cap' = [cap EXCEPT ![t] = NoCapture]
    BY <1>6 DEF SelectTimesOut, Missed
  <2>4. cap'[t].left = 0 /\ faults' # faults
    BY <1>0, <2>2, <2>3 DEF NoCapture
  <2> QED
    BY <1>0, <1>6, <2>1, <2>2, <2>3, <2>4 DEF SelectTimesOut, Missed, stops
<1> QED
  BY <1>1, <1>2, <1>3, <1>4, <1>5, <1>6 DEF CaptureStep

\* A capture that fails gives two steps back.
LEMMA StepsAfter ==
  ASSUME PllInv, iteration' = iteration, faults' \in {faults, faults + 1}
  PROVE  IF faults' = faults THEN StepsLeft' = StepsLeft ELSE StepsLeft' = StepsLeft + 2
<1>1. /\ faults \in Int /\ iteration \in Int /\ MaxIterations \in Int /\ MaxFaults \in Int
  BY Constants DEF PllInv, TypeOK, LoopTypes
<1>2. CASE faults' = faults
  BY <1>2 DEF StepsLeft
<1>3. CASE faults' = faults + 1
  BY <1>1, <1>3 DEF StepsLeft
<1> QED
  BY <1>2, <1>3

LEMMA CaptureConverge ==
  ASSUME PllInv, PllInv', ConvergeInv, NEW t \in Threads,
         CaptureStep(t) \/ CaptureFails(t) \/ SelectTimesOut(t)
  PROVE  ConvergeInv'
<1> USE DEF ConvergeInv
<1>0. /\ UNCHANGED <<way, phy, interval, continue, shutdown>>
      /\ faults' \in {faults, faults + 1}
      /\ \A u \in Threads : u # t => cap'[u] = cap[u]
      /\ \E place \in Capturing : At(t, place)
  BY CaptureEffect
<1>1. /\ faults \in Int /\ iteration \in Int /\ MaxIterations \in Int /\ MaxFaults \in Int
      /\ Slots \in Int /\ interval \in Int /\ StepsLeft \in Int
      /\ \A u \in Threads : cap[u].left \in Int /\ cap[u].filled \in Int
      /\ \A u \in Threads : cap'[u].left \in Int /\ cap'[u].filled \in Int
      /\ "main" \in Threads
  BY Constants DEF PllInv, TypeOK, LoopTypes, Threads, StepsLeft
<1>2. ASSUME pc'["main"] = pc["main"], UNCHANGED loop,
             IdleOK', Spoilt' /\ ~Spoilt => faults' = faults + 1
      PROVE  ConvergeInv'
  <2>1. IF faults' = faults THEN StepsLeft' = StepsLeft ELSE StepsLeft' = StepsLeft + 2
    BY <1>0, <1>2, StepsAfter DEF loop
  <2>2. StepsSure <= StepsSure'
    BY <1>0, <1>1, <1>2, <2>1 DEF StepsSure
  <2>3. InReach'
    <3>1. pll' = pll
      BY <1>2 DEF loop
    <3> QED
      BY <1>0, <1>2, <2>2, <3>1, KeepsReach, Zenon
  <2>4. ContinueOK' /\ WayOK' /\ ConvergedIsTrue'
    BY <1>0, <1>2 DEF ContinueOK, WayOK, ConvergedIsTrue, LoopLeft, Achieved, ReadsClock, loop, Distance
  <2> QED
    BY <1>2, <2>3, <2>4
<1>3. CASE t = "background"
  <2>1. pc'["main"] = pc["main"] /\ UNCHANGED loop
    <3>1. CASE UNCHANGED <<pc, loop>>
      BY <3>1
    <3>2. CASE \E m \in Int, ill \in BOOLEAN : Read(t, m, ill)
      BY <1>0, <1>3, <3>2, ReadEffect
    <3> QED
      BY <3>1, <3>2, CaptureEffect
  <2>2. cap'["main"] = cap["main"]
    BY <1>0, <1>1, <1>3
  <2>3. IdleOK' /\ Spoilt' = Spoilt
    BY <2>1, <2>2 DEF IdleOK, Spoilt, loop
  <2> QED
    BY <1>2, <2>1, <2>3
<1>4. CASE t = "main"
  <2>1. pc["main"] \in Capturing
    BY <1>0, <1>4 DEF At
  <2>2. CASE /\ UNCHANGED <<pc, loop>>
             /\ faults' = faults =>
                  \/ cap'[t].left + cap'[t].filled = Slots
                  \/ /\ cap[t].left > 0
                     /\ cap'[t].left + cap'[t].filled = cap[t].left + cap[t].filled
    <3>1. IdleOK'
      BY <2>1, <2>2 DEF IdleOK
    <3>2. Spoilt' /\ ~Spoilt => faults' = faults + 1
      BY <1>0, <1>1, <1>4, <2>1, <2>2 DEF Spoilt, loop, Capturing
    <3> QED
      BY <1>2, <2>2, <3>1, <3>2
  <2>3. ASSUME cap'[t].left = 0, NEW m \in Int, NEW ill \in BOOLEAN, Read(t, m, ill),
               faults' = faults /\ ill => cap[t].left > 0 /\ cap[t].left + cap[t].filled < Slots
        PROVE  ConvergeInv'
    <3>1. IdleOK'
      BY <1>4, <2>3 DEF IdleOK
    <3>2. CASE /\ pc["main"] = "final" /\ pc'["main"] = "uninit" /\ UNCHANGED loop
      <4>1. InReach' /\ ContinueOK' /\ WayOK'
        BY <3>2 DEF InReach, ContinueOK, WayOK, Before
      <4>2. ConvergedIsTrue'
        BY <1>0, <3>2 DEF ConvergedIsTrue, LoopLeft, Achieved, ReadsClock, loop, Distance
      <4> QED
        BY <3>1, <4>1, <4>2
    <3>3. CASE /\ pc["main"] = "measure" /\ pc'["main"] = "loop"
               /\ misread' = ill /\ iteration' = iteration /\ pll' = pll
      <4>1. IF faults' = faults THEN StepsLeft' = StepsLeft ELSE StepsLeft' = StepsLeft + 2
        BY <1>0, <3>3, StepsAfter
      <4>2. faults' = faults /\ Spoilt' => Spoilt
        BY <1>4, <2>3, <3>3 DEF Spoilt
      <4>3. StepsSure <= StepsSure'
        BY <1>0, <1>1, <4>1, <4>2 DEF StepsSure
      <4>4. InReach'
        BY <1>0, <3>3, <4>3, KeepsReach DEF Before
      <4>5. ContinueOK' /\ WayOK' /\ ConvergedIsTrue'
        BY <1>0, <3>3 DEF ContinueOK, WayOK, ConvergedIsTrue, LoopLeft, Achieved, ReadsClock, Before
      <4> QED
        BY <3>1, <4>4, <4>5
    <3> QED
      BY <1>0, <1>4, <2>3, <3>2, <3>3, ReadEffect
  <2> QED
    BY <2>2, <2>3, CaptureEffect
<1> QED
  BY <1>3, <1>4 DEF Threads

-----------------------------------------------------------------------------
(* The other steps.                                                        *)

\* The background thread between captures, and stuttering.
LEMMA QuietConverge ==
  ASSUME PllInv, PllInv', ConvergeInv,
         pc'["main"] = pc["main"],
         UNCHANGED <<way, phy, cap, interval, pll, measured, iteration, misread, continue,
                     shutdown, faults>>
  PROVE  ConvergeInv'
<1> USE DEF ConvergeInv
<1>1. StepsSure' = StepsSure
  BY DEF StepsSure, StepsLeft, Spoilt
<1>2. StepsSure <= StepsSure'
  BY <1>1, StepsType
<1>3. InReach'
  BY <1>2, KeepsReach
<1> QED
  BY <1>3 DEF IdleOK, ContinueOK, WayOK, ConvergedIsTrue, LoopLeft, Achieved, ReadsClock, Distance

\* Ctrl+C may end the capture that main is in.
LEMMA CtrlCEffect ==
  ASSUME PllInv, CtrlC
  PROVE  /\ UNCHANGED <<way, mapped>> /\ mapped
         /\ pc'["background"] = pc["background"]
         /\ \/ pc'["main"] = pc["main"]
            \/ pc["main"] = "measure" /\ pc'["main"] = "loop"
            \/ pc["main"] = "final" /\ pc'["main"] = "uninit"
<1>1. UNCHANGED <<way, mapped>> /\ mapped
  BY DEF CtrlC
<1>2. CASE UNCHANGED pc
  BY <1>1, <1>2
<1>3. ASSUME Missed("main"), ~(cap["main"].left > 1)
      PROVE  /\ pc'["background"] = pc["background"]
             /\ \/ pc["main"] = "measure" /\ pc'["main"] = "loop"
                \/ pc["main"] = "final" /\ pc'["main"] = "uninit"
  <2>1. PICK m \in Readings(cap["main"].filled) : Read("main", m, TRUE)
    BY <1>3 DEF Missed
  <2>2. cap["main"].filled \in Int /\ interval \in Int
    BY DEF PllInv, TypeOK, Threads
  <2>3. m \in Int
    BY <2>1, <2>2, PllAssumption, ReadingsType
  <2>4. \E place \in Capturing : At("main", place)
    BY <1>3 DEF Missed
  <2>5. "main" \in Threads /\ TRUE \in BOOLEAN /\ "main" # "background"
    BY DEF Threads
  <2> QED
    BY <2>1, <2>3, <2>4, <2>5, ReadEffect
<1> QED
  BY <1>1, <1>2, <1>3 DEF CtrlC, Missed

\* After Ctrl+C nothing is promised of the clock.
LEMMA CtrlCConverge == ASSUME PllInv, ConvergeInv, CtrlC PROVE ConvergeInv'
<1>1. shutdown' = TRUE
  BY DEF CtrlC
<1>2. InReach' /\ ContinueOK' /\ ConvergedIsTrue'
  BY <1>1 DEF InReach, ContinueOK, ConvergedIsTrue, LoopLeft, Achieved, ReadsClock
<1>3. WayOK'
  BY CtrlCEffect DEF ConvergeInv, WayOK
<1>4. IdleOK'
  <2>0. /\ cap \in [Threads -> [left : 0 .. Slots, filled : 0 .. Slots]]
        /\ pc \in [Threads -> Places] /\ "main" \in Threads
    BY DEF PllInv, TypeOK, PcOK, Threads
  <2>1. CASE UNCHANGED <<pc, cap>>
    BY <2>1 DEF ConvergeInv, IdleOK
  <2>2. CASE cap["main"].left > 1 /\ Missed("main")
    BY <2>2 DEF Missed, At, IdleOK
  <2>3. CASE ~(cap["main"].left > 1) /\ Missed("main")
    <3>1. cap' = [cap EXCEPT !["main"] = NoCapture]
      BY <2>3 DEF Missed
    <3> QED
      BY <2>0, <3>1 DEF NoCapture, IdleOK
  <2> QED
    BY <2>1, <2>2, <2>3 DEF CtrlC
<1> QED
  BY <1>2, <1>3, <1>4 DEF ConvergeInv

\* Adjust uses up one of the sure steps, or gives one back with a set that fails.
LEMMA AdjustSteps ==
  ASSUME PllInv, PllInv', ConvergeInv, Adjust
  PROVE  /\ StepsSure \in Int /\ StepsSure' \in Int
         /\ faults' = faults =>
              StepsSure' = IF misread THEN StepsSure + 1 ELSE StepsSure - 1
         /\ faults' = faults + 1 =>
              StepsSure' = IF misread THEN StepsSure + 3 ELSE StepsSure + 1
<1>1. /\ pc["main"] = "loop" /\ pc'["main"] = "measure"
      /\ iteration' = iteration + 1 /\ cap' = cap
  BY DEF Adjust, At, Goto, PllInv, TypeOK, PcOK, Threads
<1>2. cap["main"].left = 0 /\ cap'["main"].left = 0
  BY <1>1 DEF ConvergeInv, IdleOK, Capturing
<1>3. /\ StepsLeft \in Int /\ iteration \in Int /\ faults \in Int
      /\ StepsSure = IF misread THEN StepsLeft - 2 ELSE StepsLeft
      /\ StepsSure' = StepsLeft'
  BY <1>1, <1>2, StepsType DEF StepsSure, Spoilt, PllInv, TypeOK, LoopTypes
<1>4. /\ faults' = faults => StepsLeft' = StepsLeft - 1
      /\ faults' = faults + 1 => StepsLeft' = StepsLeft + 1
      /\ StepsLeft' \in Int
  <2>1. faults' \in Int /\ iteration' \in Int
    BY DEF PllInv, TypeOK, LoopTypes
  <2>2. StepsLeft' \in Int
    BY <2>1, Constants DEF StepsLeft
  <2>3. ASSUME faults' = faults PROVE StepsLeft' = StepsLeft - 1
    BY <1>1, <1>3, <2>3, Constants DEF StepsLeft
  <2>4. ASSUME faults' = faults + 1 PROVE StepsLeft' = StepsLeft + 1
    BY <1>1, <1>3, <2>4, Constants DEF StepsLeft
  <2> QED
    BY <2>2, <2>3, <2>4
<1> QED
  BY <1>3, <1>4

\* Where the display is when a set succeeds: after a good measurement it has gone the
\* right way, or over the target by less than the window and the steps left undone.
LEMMA GoodStep ==
  ASSUME NEW i \in Int, NEW p \in Int, NEW m \in Int, NEW s \in Int, NEW k \in Nat,
         Distance(p, i) <= Step * k, Distance(i, RefreshPeriod) <= Reach(s - k),
         Distance(m, i) <= Jitter, Distance(m, RefreshPeriod) > Tolerance
  PROVE  Distance(Adjusted(p, m), RefreshPeriod) <= Reach(s - 1)
<1>1. /\ Step * k \in Int /\ Reach(s - k) + Step * k = Reach(s)
      /\ Step * (s - 1) \in Int /\ Reach(s - 1) = Reach(s) - Step
      /\ Reach(s) \in Int /\ Reach(s - k) \in Int /\ Reach(s - 1) \in Int
  <2>1. s - k \in Int /\ s - 1 \in Int /\ k \in Int
    OBVIOUS
  <2>2. Reach(s) \in Int /\ Reach(s - k) \in Int /\ Reach(s - 1) \in Int
    BY <2>1, ReachGrows
  <2> QED
    BY <2>1, <2>2, ReachSplit, ReachPrevious, Constants
<1>2. Distance(i, RefreshPeriod) > Tolerance - Jitter
  BY Constants DEF Distance
<1>3. s - k >= 1
  <2> SUFFICES ASSUME s - k <= 0 PROVE FALSE
    OBVIOUS
  <2>1. Reach(s - k) <= Tolerance - Jitter
    BY ReachGrows, ReachZero
  <2> QED
    BY <1>1, <1>2, <2>1, Constants DEF Distance
<1>4. Step * k + (Tolerance - Jitter) <= Reach(s - 1)
  <2>1. Reach(k) <= Reach(s - 1) /\ Reach(k) \in Int
    BY <1>3, ReachGrows
  <2>2. Reach(k) = Step * k + (Tolerance - Jitter)
    BY <1>1, Constants DEF Reach
  <2> QED
    BY <2>1, <2>2
<1>5. PICK b \in Int : b = Step * k
  BY <1>1
<1>6. PICK r \in Int : r = Reach(s - 1)
  BY <1>1
<1>7. /\ Distance(p, i) <= b /\ b + (Tolerance - Jitter) <= r
      /\ Distance(i, RefreshPeriod) + b - Step <= r
  BY <1>1, <1>4, <1>5, <1>6, Constants DEF Distance
<1>8. CASE RefreshPeriod - m > 0
  <2>1. Adjusted(p, m) = p + Step /\ RefreshPeriod - i > Tolerance - Jitter
    BY <1>8, Constants DEF Adjusted, Distance
  <2>2. Distance(p + Step, RefreshPeriod) <= r
    BY <1>7, <2>1, Constants DEF Distance
  <2> QED
    BY <1>6, <2>1, <2>2
<1>9. CASE ~(RefreshPeriod - m > 0)
  <2>1. Adjusted(p, m) = p - Step /\ i - RefreshPeriod > Tolerance - Jitter
    BY <1>9, Constants DEF Adjusted, Distance
  <2>2. Distance(p - Step, RefreshPeriod) <= r
    BY <1>7, <2>1, Constants DEF Distance
  <2> QED
    BY <1>6, <2>1, <2>2
<1> QED
  BY <1>8, <1>9

\* After a bad measurement it may have gone the wrong way.
LEMMA BadStep ==
  ASSUME NEW i \in Int, NEW p \in Int, NEW m \in Int, NEW s \in Int, NEW k \in Nat,
         Distance(p, i) <= Step * k, Distance(i, RefreshPeriod) <= Reach(s - k)
  PROVE  /\ Distance(Adjusted(p, m), RefreshPeriod) <= Reach(s + 1)
         /\ Distance(Adjusted(p, m), i) <= Step * (k + 1)
<1>1. /\ Step * k \in Int /\ Reach(s - k) + Step * k = Reach(s)
      /\ Reach(s + 1) = Reach(s) + Step /\ Step * (k + 1) = Step * k + Step
      /\ Reach(s) \in Int /\ Reach(s - k) \in Int /\ Reach(s + 1) \in Int
  <2>1. s - k \in Int /\ s + 1 \in Int /\ k \in Int /\ (s + 1) - 1 = s
    OBVIOUS
  <2>2. Reach(s) \in Int /\ Reach(s - k) \in Int /\ Reach(s + 1) \in Int
    BY <2>1, ReachGrows
  <2>3. Reach(s + 1) = Reach(s) + Step
    BY <2>1, <2>2, ReachPrevious, Constants
  <2>4. Step * (k + 1) = Step * k + Step
    BY Constants
  <2> QED
    BY <2>1, <2>2, <2>3, <2>4, ReachSplit, Constants
<1>2. PICK b \in Int : b = Step * k
  BY <1>1
<1>3. PICK r \in Int : r = Reach(s + 1)
  BY <1>1
<1>4. Distance(p, i) <= b /\ Distance(i, RefreshPeriod) + b + Step <= r
  BY <1>1, <1>2, <1>3, Constants DEF Distance
<1>5. /\ Distance(Adjusted(p, m), RefreshPeriod) <= r
      /\ Distance(Adjusted(p, m), i) <= b + Step
  BY <1>4, Constants DEF Adjusted, Distance
<1> QED
  BY <1>1, <1>2, <1>3, <1>5

\* A step of the clock uses up one of the sure steps: a good one goes the right way, or
\* over the target by less than the window; one after a bad measurement goes the wrong
\* way, and a failed one nowhere, at the expense of the steps kept for them.
LEMMA AdjustConverge ==
  ASSUME PllInv, PllInv', ConvergeInv, Adjust
  PROVE  ConvergeInv'
<1> USE DEF ConvergeInv
<1>1. /\ pc["main"] = "loop" /\ pc'["main"] = "measure"
      /\ UNCHANGED <<way, phy, cap, misread, continue, shutdown>>
  BY DEF Adjust, At, Goto, PllInv, TypeOK, PcOK, Threads, stops
<1>2. cap["main"].left = 0 /\ cap'["main"].left = 0
  BY <1>1 DEF IdleOK, Capturing
<1>3. IdleOK' /\ ContinueOK' /\ WayOK' /\ ConvergedIsTrue'
  BY <1>1, <1>2 DEF IdleOK, ContinueOK, WayOK, ConvergedIsTrue, LoopLeft, Before
<1>4. InReach'
  <2> SUFFICES ASSUME way' = "refresh", ReadsClock', ~shutdown'
               PROVE  \E k \in Nat : Behind(k)'
    BY DEF InReach
  <2>0. /\ ReadsClock /\ ~shutdown /\ way = "refresh"
        /\ interval \in Int /\ pll \in Int /\ measured \in Int /\ faults \in Int
        /\ StepsSure \in Int /\ StepsSure' \in Int
    BY <1>1, AdjustSteps DEF PllInv, TypeOK, LoopTypes, ReadsClock
  <2>1. PICK k \in Nat : Behind(k)
    BY <1>1, <2>0 DEF InReach, Before
  <2>2. Distance(pll, interval) <= Step * k /\ Distance(interval, RefreshPeriod) <= Reach(StepsSure - k)
    BY <2>1 DEF Behind
  <2>3. /\ Distance(Adjusted(pll, measured), RefreshPeriod) <= Reach(StepsSure + 1)
        /\ Distance(Adjusted(pll, measured), interval) <= Step * (k + 1)
    BY <2>0, <2>2, BadStep
  <2>4. pll' = Adjusted(pll, measured)
    BY <2>0 DEF Adjust
  <2>5. CASE SetClock(pll') /\ UNCHANGED faults
    <3>1. interval' = pll' /\ pll' \in Int /\ faults' = faults
      BY <2>0, <2>5 DEF SetClock, PllInv, TypeOK, LoopTypes
    <3>2. Distance(interval', RefreshPeriod) <= Reach(StepsSure')
      <4>0. StepsSure' = IF misread THEN StepsSure + 1 ELSE StepsSure - 1
        BY <3>1, AdjustSteps
      <4>1. CASE misread
        BY <2>3, <2>4, <3>1, <4>0, <4>1
      <4>2. CASE ~misread
        <5>1. Distance(measured, interval) <= Jitter
          BY <1>1, <4>2 DEF PllInv, AdjustingOK
        <5>2. Distance(measured, RefreshPeriod) > Tolerance
          BY DEF Adjust, Unfinished
        <5>3. Distance(Adjusted(pll, measured), RefreshPeriod) <= Reach(StepsSure - 1)
          BY <2>0, <2>2, <5>1, <5>2, GoodStep
        <5> QED
          BY <2>4, <3>1, <4>0, <4>2, <5>3
      <4> QED
        BY <4>1, <4>2
    <3>3. StepsSure' - 0 = StepsSure' /\ Step * 0 = 0
      <4>1. PICK n \in Int : n = StepsSure'
        BY <2>0, Zenon
      <4>2. n - 0 = n
        OBVIOUS
      <4>3. Step * 0 = 0
        BY Constants
      <4> QED
        BY <4>1, <4>2, <4>3, Zenon
    <3>4. Distance(pll', interval') <= Step * 0
      BY <3>1, <3>3 DEF Distance
    <3>5. Behind(0)'
      BY <3>2, <3>3, <3>4 DEF Behind
    <3> QED
      BY <3>5
  <2>6. CASE SetFails
    <3>1. interval' = interval /\ faults' = faults + 1
      BY <2>6 DEF SetFails
    <3>2. Distance(pll', interval') <= Step * (k + 1)
      BY <2>3, <2>4, <3>1
    <3>3. PICK m \in Int, n \in Int : m = StepsSure /\ n = StepsSure'
      BY <2>0, Zenon
    <3>4. /\ Reach(StepsSure - k) \in Int /\ Reach(StepsSure' - (k + 1)) \in Int
          /\ Reach(StepsSure - k) <= Reach(StepsSure' - (k + 1))
      <4>1. StepsSure' = IF misread THEN StepsSure + 3 ELSE StepsSure + 1
        BY <3>1, AdjustSteps
      <4>2. n >= m + 1
        BY <3>3, <4>1
      <4>3. m - k \in Int /\ n - (k + 1) \in Int /\ m - k <= n - (k + 1)
        BY <4>2
      <4>4. /\ Reach(m - k) \in Int /\ Reach(n - (k + 1)) \in Int
            /\ Reach(m - k) <= Reach(n - (k + 1))
        BY <4>3, ReachGrows, Zenon
      <4> QED
        BY <3>3, <4>4, Zenon
    <3>5. Distance(interval, RefreshPeriod) \in Int
      BY <2>0, Triangle, Constants
    <3>6. Distance(interval', RefreshPeriod) <= Reach(StepsSure' - (k + 1))
      BY <2>2, <3>1, <3>4, <3>5
    <3>7. Behind(k + 1)'
      BY <3>2, <3>6 DEF Behind
    <3> QED
      BY <3>7
  <2> QED
    BY <2>0, <2>5, <2>6 DEF Adjust
<1> QED
  BY <1>3, <1>4

\* When main leaves the loop without Ctrl+C, a good measurement says that the display
\* is there, or no step is left and the display is there all the same.
LEMMA LeaveConverge ==
  ASSUME PllInv, PllInv', ConvergeInv, LeaveLoop
  PROVE  ConvergeInv'
<1> USE DEF ConvergeInv
<1>1. /\ pc["main"] = "loop" /\ pc'["main"] = "stop" /\ ~Unfinished
      /\ UNCHANGED <<way, phy, cap, interval, measured, misread, shutdown>>
  BY DEF LeaveLoop, At, Goto, PllInv, TypeOK, PcOK, Threads, stops, loop
<1>2. InReach' /\ IdleOK' /\ ContinueOK' /\ WayOK'
  BY <1>1 DEF InReach, IdleOK, ContinueOK, WayOK, Before, Capturing
<1>3. ConvergedIsTrue'
  <2> SUFFICES ASSUME way = "refresh", ReadsClock, ~shutdown, ~misread
               PROVE  Distance(interval, RefreshPeriod) <= Tolerance + Jitter
    BY <1>1 DEF ConvergedIsTrue, LoopLeft, Achieved, ReadsClock, Distance
  <2>0. /\ interval \in Int /\ measured \in Int /\ StepsSure \in Int
        /\ iteration \in 0 .. MaxIterations
    BY StepsType DEF PllInv, TypeOK, LoopTypes
  <2>1. continue
    BY <1>1 DEF ContinueOK, Before
  <2>2. CASE Distance(measured, RefreshPeriod) <= Tolerance
    <3>1. Distance(measured, interval) <= Jitter
      BY <1>1 DEF PllInv, AdjustingOK
    <3> QED
      BY <2>0, <2>2, <3>1, Constants DEF Distance
  <2>3. CASE iteration >= MaxIterations
    <3>1. PICK k \in Nat : Behind(k)
      BY <1>1 DEF InReach, Before
    <3>2. StepsSure <= 0
      BY <2>0, <2>3, StepsType, Constants
    <3>3. StepsSure - k \in Int /\ StepsSure - k <= 0
      BY <2>0, <3>2
    <3>4. Reach(StepsSure - k) <= Tolerance - Jitter /\ Reach(StepsSure - k) \in Int
      BY <3>3, ReachGrows, ReachZero
    <3>5. Distance(interval, RefreshPeriod) <= Reach(StepsSure - k)
      BY <3>1 DEF Behind
    <3> QED
      BY <2>0, <3>4, <3>5, Constants DEF Distance
  <2>4. ~(Distance(measured, RefreshPeriod) > Tolerance) => Distance(measured, RefreshPeriod) <= Tolerance
    BY <2>0, Constants DEF Distance
  <2> QED
    BY <1>1, <2>0, <2>1, <2>2, <2>3, <2>4, Constants DEF Unfinished
<1> QED
  BY <1>2, <1>3

LEMMA MainConverge == ASSUME PllInv, PllInv', ConvergeInv, MainStep PROVE ConvergeInv'
<1> USE DEF ConvergeInv
<1>0. pc \in [Threads -> Places] /\ way \in {"frequency", "refresh", "delta"} /\ "main" \in Threads
  BY DEF PllInv, TypeOK, PcOK, Threads
<1>1. CASE Adjust
  BY <1>1, AdjustConverge
<1>2. CASE LeaveLoop
  BY <1>2, LeaveConverge
<1>3. CASE InitLib \/ CreateThread
  <2>1. /\ pc["main"] \in {"init", "create"}
        /\ pc'["main"] \in {"create", way, "done"}
        /\ UNCHANGED <<way, phy, cap, interval, pll, iteration, misread, continue, shutdown,
                       faults>>
    BY <1>0, <1>3 DEF InitLib, CreateThread, At, Goto, stops, loop
  <2>2. cap["main"].left = 0
    BY <2>1 DEF IdleOK, Capturing
  <2>3. StepsSure' = StepsSure
    BY <1>0, <2>1, <2>2 DEF StepsSure, StepsLeft, Spoilt
  <2>4. StepsSure <= StepsSure'
    BY <2>3, StepsType
  <2>5. InReach'
    BY <2>1, <2>4, KeepsReach DEF Before
  <2> QED
    BY <1>0, <2>1, <2>2, <2>5 DEF IdleOK, ContinueOK, WayOK, ConvergedIsTrue, LoopLeft, Achieved, ReadsClock, Before
<1>5. CASE StartAdjusting
  <2>1. /\ pc["main"] = "refresh" /\ pc'["main"] = "measure"
        /\ UNCHANGED <<way, phy, cap, interval, iteration, misread, continue, shutdown, faults>>
        /\ ReadsClock => pll' = interval
    BY <1>0, <1>5 DEF StartAdjusting, At, Goto, stops
  <2>2. cap["main"].left = 0
    BY <2>1 DEF IdleOK, Capturing
  <2>3. StepsSure' = StepsSure /\ StepsSure \in Int
    BY <1>0, <2>1, <2>2, StepsType DEF StepsSure, StepsLeft, Spoilt
  <2>4. InReach'
    <3> SUFFICES ASSUME way' = "refresh", ReadsClock', ~shutdown' PROVE \E k \in Nat : Behind(k)'
      BY DEF InReach
    <3>0. ReadsClock /\ interval \in Int
      BY <2>1 DEF ReadsClock, PllInv, TypeOK
    <3>1. PICK k \in Nat : Behind(k)
      BY <2>1, <3>0 DEF InReach, Before
    <3>2. /\ Reach(StepsSure - k) \in Int /\ Reach(StepsSure - 0) \in Int
          /\ Reach(StepsSure - k) <= Reach(StepsSure - 0)
      BY <2>3, ReachGrows
    <3>3. Distance(interval, RefreshPeriod) \in Int
      BY <3>0, Constants, Triangle
    <3>4. Distance(interval', RefreshPeriod) <= Reach(StepsSure' - 0)
      BY <2>1, <2>3, <3>1, <3>2, <3>3 DEF Behind
    <3>5. Distance(pll', interval') <= Step * 0
      BY <2>1, <3>0, Constants DEF Distance
    <3>6. Behind(0)'
      BY <3>4, <3>5 DEF Behind
    <3> QED
      BY <3>6
  <2> QED
    BY <1>0, <2>1, <2>2, <2>4 DEF IdleOK, ContinueOK, WayOK, ConvergedIsTrue, LoopLeft, Before
<1>4. CASE SetFrequency \/ Synchronize \/ Stop \/ Join \/ Uninit
  <2>1. /\ pc["main"] \in {"frequency", "delta", "stop", "join", "uninit"}
        /\ pc'["main"] \in {"stop", "join", "final", "uninit", "done"}
        /\ pc["main"] \in {"frequency", "delta"} <=> pc'["main"] = "stop"
        /\ UNCHANGED <<way, phy, cap, misread, shutdown>>
    BY <1>0, <1>4 DEF SetFrequency, Synchronize, Stop, Join, Uninit, At, Goto, stops, loop
  <2>2. InReach' /\ ContinueOK' /\ WayOK'
    BY <2>1 DEF InReach, ContinueOK, WayOK, Before
  <2>3. IdleOK'
    BY <2>1 DEF IdleOK, Capturing
  <2>4. ConvergedIsTrue'
    <3>1. CASE pc["main"] \in {"frequency", "delta"}
      BY <2>1, <3>1 DEF WayOK, ConvergedIsTrue, LoopLeft, Achieved, ReadsClock
    <3>2. CASE pc["main"] \in {"stop", "join", "uninit"}
      <4>1. interval' = interval
        BY <1>4, <3>2 DEF SetFrequency, Synchronize, Stop, Join, Uninit, At
      <4> QED
        BY <2>1, <3>2, <4>1 DEF ConvergedIsTrue, LoopLeft, Achieved, ReadsClock, Distance
    <3> QED
      BY <2>1, <3>1, <3>2
  <2> QED
    BY <2>2, <2>3, <2>4
<1> QED
  BY <1>1, <1>2, <1>3, <1>4, <1>5 DEF MainStep

-----------------------------------------------------------------------------
(* The theorems.                                                           *)

LEMMA InitConverge == ASSUME Init PROVE ConvergeInv
<1>1. /\ pc["main"] = "init" /\ cap["main"].left = 0 /\ continue
      /\ interval \in Intervals /\ iteration = 0 /\ faults = 0
  BY DEF Init, Threads, NoCapture
<1>2. InReach
  <2>1. Distance(interval, RefreshPeriod) <= Reach(MaxIterations - 2 * MaxFaults)
    BY <1>1, PllAssumption DEF PllAssumption, Reach
  <2>2. StepsSure - 0 = MaxIterations - 2 * MaxFaults
    BY <1>1, Constants DEF StepsSure, StepsLeft, Spoilt
  <2>3. Distance(pll, interval) <= Step * 0
    BY PllAssumption, Constants DEF Init, PllAssumption, Distance
  <2>4. Behind(0)
    BY <2>1, <2>2, <2>3 DEF Behind
  <2> QED
    BY <2>4 DEF InReach
<1> QED
  BY <1>1, <1>2 DEF ConvergeInv, IdleOK, ContinueOK, WayOK, ConvergedIsTrue, LoopLeft, Achieved, ReadsClock

LEMMA StepConverge ==
  ASSUME PllInv, PllInv', ConvergeInv, [Next]_vars
  PROVE  ConvergeInv'
<1>1. CASE MainStep
  BY <1>1, MainConverge
<1>2. CASE BackgroundStep
  <2>1. pc'["main"] = pc["main"]
    BY <1>2 DEF BackgroundStep, Goto, PllInv, TypeOK, PcOK, Threads
  <2>2. UNCHANGED <<way, phy, cap, interval, pll, measured, iteration, misread, continue,
                    shutdown, faults>>
    BY <1>2 DEF BackgroundStep, loop, stops
  <2> QED
    BY <2>1, <2>2, QuietConverge
<1>3. CASE CtrlC
  BY <1>3, CtrlCConverge
<1>4. CASE \E t \in Threads : CaptureStep(t) \/ CaptureFails(t) \/ SelectTimesOut(t)
  BY <1>4, CaptureConverge
<1>5. CASE UNCHANGED vars
  BY <1>5, QuietConverge DEF vars, loop, stops
<1> QED
  BY <1>1, <1>2, <1>3, <1>4, <1>5 DEF Next

\* Whatever the display, the tolerance, the step and what a slot holds that nobody has
\* written: when main leaves the loop, and no Ctrl+C has ended it and the last
\* measurement was a good one, the display has the interval asked for - though any
\* captures and sets before that went wrong, as long as the iterations allow for two
\* steps for each (pllctl.cpp, the loop of main).  That is for the PHYs whose clock
\* get_pll_clock reads.
THEOREM Converged == Spec => []ConvergedIsTrue
<1>1. Init => ConvergeInv
  BY InitConverge
<1>2. PllInv /\ PllInv' /\ ConvergeInv /\ [Next]_vars => ConvergeInv'
  BY StepConverge
<1>3. ConvergeInv => ConvergedIsTrue
  BY DEF ConvergeInv
<1> QED
  BY <1>1, <1>2, <1>3, Invariant, PTL DEF Spec

-----------------------------------------------------------------------------
(* The library outlives the captures.                                      *)

LEMMA StepMapped ==
  ASSUME PllInv, MappedOK, [Next]_vars
  PROVE  MappedOK'
<1>0. /\ pc \in [Threads -> Places] /\ Threads = {"main", "background"}
      /\ way \in {"frequency", "refresh", "delta"} /\ PcOK
  BY DEF PllInv, TypeOK, PcOK, Threads
<1>1. CASE MainStep
  <2>1. CASE InitLib \/ CreateThread
    BY <1>0, <2>1 DEF InitLib, CreateThread, At, Goto, MappedOK, stops, PcOK
  <2>2. CASE SetFrequency \/ Synchronize \/ StartAdjusting \/ Adjust \/ LeaveLoop
    BY <1>0, <2>2 DEF SetFrequency, Synchronize, StartAdjusting, Adjust, LeaveLoop, At, Goto,
                      MappedOK, stops
  <2>3. CASE Stop \/ Join \/ Uninit
    BY <1>0, <2>3 DEF Stop, Join, Uninit, At, Goto, MappedOK, stops, PcOK
  <2> QED
    BY <1>1, <2>1, <2>2, <2>3 DEF MainStep
<1>2. CASE BackgroundStep
  BY <1>0, <1>2 DEF BackgroundStep, At, Goto, MappedOK, stops
<1>3. CASE CtrlC
  BY <1>3, CtrlCEffect DEF MappedOK
<1>4. ASSUME NEW t \in Threads, CaptureStep(t) \/ CaptureFails(t) \/ SelectTimesOut(t)
      PROVE  MappedOK'
  <2>1. mapped' = mapped /\ (\E place \in Capturing : At(t, place))
    BY <1>4, CaptureEffect
  <2>2. CASE UNCHANGED <<pc, loop>>
    BY <2>1, <2>2 DEF MappedOK
  <2>3. CASE \E m \in Int, ill \in BOOLEAN : Read(t, m, ill)
    BY <2>1, <2>3, ReadEffect DEF MappedOK
  <2> QED
    BY <1>4, <2>2, <2>3, CaptureEffect
<1>5. CASE UNCHANGED vars
  BY <1>5 DEF vars, stops, MappedOK
<1> QED
  BY <1>1, <1>2, <1>3, <1>4, <1>5 DEF Next

\* For any display and wherever Ctrl+C strikes: as long as main or the background thread
\* may be in a capture, which reads the mapped registers, the library is not taken down
\* (pthread_join before vsync_lib_uninit).
THEOREM Mapped == Spec => []CaptureWhileMapped
<1>1. Init => MappedOK
  BY DEF Init, MappedOK, Threads
<1>2. PllInv /\ MappedOK /\ [Next]_vars => MappedOK'
  BY StepMapped
<1>3. PllInv /\ MappedOK => CaptureWhileMapped
  BY DEF PllInv, TypeOK, PcOK, MappedOK, CaptureWhileMapped, Capturing
<1> QED
  BY <1>1, <1>2, <1>3, Invariant, PTL DEF Spec

=============================================================================
