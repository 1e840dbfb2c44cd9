---------------------------- MODULE PipeSync_proofs ----------------------------
(***************************************************************************)
(* Proofs about PipeSync and about LibLifecycle, the library that its      *)
(* process initialises and takes down.                                     *)
(*                                                                         *)
(* PipeSync: for any display, threshold and counts of timestamps, no       *)
(* correction is hasty, each has a logger of its own, the measurement is   *)
(* the shorter way to the primary's vblanks, and what is done about it     *)
(* never makes it longer.                                                  *)
(*                                                                         *)
(* LibLifecycle: whatever calls a process makes, and whatever of them      *)
(* fails, the PHYs of an initialised library are of the chip that is       *)
(* mapped, no PLL serves two of them, and one that is not initialised has  *)
(* kept nothing. A call that goes over the PHYs leaves none out.           *)
(***************************************************************************)
EXTENDS PipeSync, LibLifecycle, TLAPS

-----------------------------------------------------------------------------
(* The inductive invariant.                                                *)

Statistics == [success : Int, syncs : Int, outOfSync : 0 .. 1, continue : BOOLEAN]

TypesOK == stats \in Statistics /\ local \in Statistics /\ outRun \in Nat

\* do_pipe_sync decides on what it has loaded, and what perform_synchronization works
\* on has the counter of vblanks out of sync reset.
CopyOK ==
  /\ pc = "decide" => local = stats
  /\ pc \in {"spawn", "sync", "stop", "join", "learn", "store"} => local.outOfSync = 0

\* The counter of vblanks out of sync counts measurements in a row.
CountOK ==
  ~clientDone =>
    /\ pc \in {"capture", "sleep"} => stats.outOfSync <= outRun
    /\ pc = "decide" /\ OutOfSync => local.outOfSync + 1 <= outRun

PipeInv == TypesOK /\ CopyOK /\ CountOK /\ LoggerOfOneSync

-----------------------------------------------------------------------------
(* One lemma for each group of steps.                                      *)

LEMMA CountType ==
  ASSUME NEW n \in Int
  PROVE  Count(n) \in Int /\ (n \in Nat => Count(n) \in Nat)
  BY PipeAssumption DEF PipeAssumption, Count, Least

LEMMA InitInv == ASSUME Init PROVE PipeInv
<1>1. NewStats \in Statistics
  BY DEF NewStats, Statistics
<1> QED
  BY <1>1 DEF Init, PipeInv, TypesOK, CopyOK, CountOK, LoggerOfOneSync, NewStats

\* A measurement out of sync is one more in a row than was counted before.
LEMMA CaptureInv == ASSUME PipeInv, Capture PROVE PipeInv'
<1> USE DEF PipeInv
<1>1. /\ pc = "capture" /\ pc' \in {"decide", "exited"} /\ local' = stats
      /\ UNCHANGED <<stats, logger, clientDone>>
  BY DEF Capture
<1>2. LoggerOfOneSync'
  BY <1>1 DEF LoggerOfOneSync
<1>3. \/ UNCHANGED outRun /\ (pc' = "exited" \/ clientDone)
      \/ outRun' = IF OutOfSync' THEN Count(outRun + 1) ELSE 0
  BY DEF Capture
<1>4. TypesOK'
  <2>1. outRun' \in Nat
    BY <1>3, CountType DEF TypesOK
  <2> QED
    BY <1>1, <2>1 DEF TypesOK
<1>5. CopyOK'
  BY <1>1 DEF CopyOK
<1>6. CountOK'
  <2> SUFFICES ASSUME ~clientDone, pc' = "decide", OutOfSync'
               PROVE  local'.outOfSync + 1 <= outRun'
    BY <1>1 DEF CountOK
  <2>1. outRun' = Count(outRun + 1)
    BY <1>3
  <2>2. stats.outOfSync <= outRun /\ stats.outOfSync \in 0 .. 1 /\ outRun \in Int
    BY <1>1 DEF CountOK, TypesOK, Statistics
  <2>3. MaxCount \in Nat /\ MaxCount > 1
    BY PipeAssumption DEF PipeAssumption
  <2> QED
    BY <1>1, <2>1, <2>2, <2>3 DEF Count, Least
<1> QED
  BY <1>2, <1>4, <1>5, <1>6

LEMMA LeaveAloneInv == ASSUME PipeInv, LeaveAlone PROVE PipeInv'
<1> USE DEF PipeInv
<1>1. /\ pc = "decide" /\ pc' = "sleep"
      /\ UNCHANGED <<local, delta, logger, clientDone, outRun>>
  BY DEF LeaveAlone
<1>2. local \in Statistics /\ outRun \in Nat
  BY DEF TypesOK
<1>3. CASE /\ ~OutOfSync
           /\ stats' = [local EXCEPT !.outOfSync = 0, !.success = Count(@ + 1)]
  <2>1. local.success + 1 \in Int /\ Count(local.success + 1) \in Int
    BY <1>2, CountType DEF Statistics
  <2> DEFINE reset == [local EXCEPT !.outOfSync = 0]
  <2>2. stats' = [reset EXCEPT !.success = Count(reset.success + 1)]
    BY <1>3
  <2>3. reset \in Statistics /\ reset.outOfSync = 0 /\ reset.success = local.success
    BY <1>2 DEF Statistics
  <2>4. Count(reset.success + 1) = Count(local.success + 1)
    BY <2>3
  <2> HIDE DEF reset
  <2>5. stats' \in Statistics /\ stats'.outOfSync = 0
    BY <2>1, <2>2, <2>3, <2>4 DEF Statistics
  <2> QED
    BY <1>1, <1>2, <2>5 DEF TypesOK, CopyOK, CountOK, LoggerOfOneSync
<1>4. CASE /\ OutOfSync /\ local.outOfSync + 1 < 2
           /\ stats' = [local EXCEPT !.outOfSync = @ + 1]
  <2>1. stats' \in Statistics /\ stats'.outOfSync = local.outOfSync + 1
    BY <1>2, <1>4 DEF Statistics
  <2> QED
    BY <1>1, <1>2, <1>4, <2>1 DEF TypesOK, CopyOK, CountOK, LoggerOfOneSync
<1> QED
  BY <1>3, <1>4 DEF LeaveAlone

LEMMA BeginSyncInv == ASSUME PipeInv, BeginSync PROVE PipeInv'
<1>1. /\ pc = "decide" /\ pc' = "spawn" /\ local' = [local EXCEPT !.outOfSync = 0]
      /\ UNCHANGED <<stats, logger, clientDone, outRun>>
  BY DEF BeginSync
<1>2. local' \in Statistics /\ local'.outOfSync = 0
  BY <1>1 DEF PipeInv, TypesOK, Statistics
<1> QED
  BY <1>1, <1>2 DEF PipeInv, TypesOK, CopyOK, CountOK, LoggerOfOneSync

\* The logger is started with the flag up, and joined with the flag down.
LEMMA SpawnInv == ASSUME PipeInv, Spawn PROVE PipeInv'
<1>1. /\ pc = "spawn" /\ UNCHANGED <<local, clientDone, outRun>>
      /\ \/ pc' = "sync" /\ stats' = [stats EXCEPT !.continue = TRUE]
         \/ pc' = "exited" /\ stats' = local /\ UNCHANGED logger
  BY DEF Spawn
<1>2. stats' \in Statistics
  BY <1>1 DEF PipeInv, TypesOK, Statistics
<1> QED
  BY <1>1, <1>2 DEF PipeInv, TypesOK, CopyOK, CountOK, LoggerOfOneSync

LEMMA SynchronizeInv == ASSUME PipeInv, Synchronize PROVE PipeInv'
<1>1. /\ pc = "sync" /\ pc' = "stop" /\ outRun' = 0
      /\ UNCHANGED <<stats, local, logger, clientDone>>
  BY DEF Synchronize
<1> QED
  BY <1>1 DEF PipeInv, TypesOK, CopyOK, CountOK, LoggerOfOneSync

LEMMA StopInv == ASSUME PipeInv, Stop PROVE PipeInv'
<1>1. /\ pc = "stop" /\ pc' = "join" /\ stats' = [stats EXCEPT !.continue = FALSE]
      /\ UNCHANGED <<local, logger, clientDone, outRun>>
  BY DEF Stop
<1>2. stats' \in Statistics /\ ~stats'.continue
  BY <1>1 DEF PipeInv, TypesOK, Statistics
<1> QED
  BY <1>1, <1>2 DEF PipeInv, TypesOK, CopyOK, CountOK, LoggerOfOneSync

LEMMA JoinLearnInv == ASSUME PipeInv, Join \/ Learn PROVE PipeInv'
<1>1. /\ \/ pc = "join" /\ pc' = "learn" /\ logger' = "none"
         \/ pc = "learn" /\ pc' = "store" /\ UNCHANGED logger
      /\ UNCHANGED <<stats, local, clientDone, outRun>>
  BY DEF Join, Learn
<1> QED
  BY <1>1 DEF PipeInv, TypesOK, CopyOK, CountOK, LoggerOfOneSync

\* The copy is stored, with its counter of vblanks out of sync at 0.
LEMMA StoreInv == ASSUME PipeInv, Store PROVE PipeInv'
<1>1. /\ pc = "store" /\ pc' = "sleep"
      /\ stats' = [local EXCEPT !.success = 0, !.syncs = Count(@ + 1)]
      /\ UNCHANGED <<local, logger, clientDone, outRun>>
  BY DEF Store
<1>2. local \in Statistics /\ local.outOfSync = 0
  BY <1>1 DEF PipeInv, TypesOK, CopyOK
<1>3. local.syncs + 1 \in Int /\ Count(local.syncs + 1) \in Int
  BY <1>2, CountType DEF Statistics
<1> DEFINE cleared == [local EXCEPT !.success = 0]
<1>4. stats' = [cleared EXCEPT !.syncs = Count(cleared.syncs + 1)]
  BY <1>1
<1>5. cleared \in Statistics /\ cleared.outOfSync = 0 /\ cleared.syncs = local.syncs
  BY <1>2 DEF Statistics
<1>6. Count(cleared.syncs + 1) = Count(local.syncs + 1)
  BY <1>5
<1> HIDE DEF cleared
<1>7. stats' \in Statistics /\ stats'.outOfSync = 0
  BY <1>3, <1>4, <1>5, <1>6 DEF Statistics
<1> QED
  BY <1>1, <1>2, <1>7 DEF PipeInv, TypesOK, CopyOK, CountOK, LoggerOfOneSync

LEMMA OtherInv ==
  ASSUME PipeInv, Sleep \/ LoggerStep \/ CtrlC \/ UNCHANGED vars
  PROVE  PipeInv'
<1>1. CASE Sleep
  BY <1>1 DEF Sleep, PipeInv, TypesOK, CopyOK, CountOK, LoggerOfOneSync
<1>2. CASE LoggerStep
  BY <1>2 DEF LoggerStep, PipeInv, TypesOK, CopyOK, CountOK, LoggerOfOneSync, OutOfSync
<1>3. CASE CtrlC
  BY <1>3 DEF CtrlC, PipeInv, TypesOK, CopyOK, CountOK, LoggerOfOneSync
<1>4. CASE UNCHANGED vars
  BY <1>4 DEF vars, display, PipeInv, TypesOK, CopyOK, CountOK, LoggerOfOneSync, OutOfSync
<1> QED
  BY <1>1, <1>2, <1>3, <1>4

LEMMA StepInv == ASSUME PipeInv, [Next]_vars PROVE PipeInv'
  BY CaptureInv, LeaveAloneInv, BeginSyncInv, SpawnInv, SynchronizeInv, StopInv, JoinLearnInv,
     StoreInv, OtherInv DEF Next, ThreadStep, Terminated

LEMMA Invariant == Spec => []PipeInv
<1>1. Init => PipeInv
  BY InitInv
<1>2. PipeInv /\ [Next]_vars => PipeInv'
  BY StepInv
<1> QED
  BY <1>1, <1>2, PTL DEF Spec

-----------------------------------------------------------------------------
(* Corrections and their loggers.                                          *)

\* For any display and threshold: the logger of one correction is gone before anything
\* else happens, and the flag it waits for is down while it is joined, although the copy
\* of the statistics is stored over that flag later (perform_synchronization).
THEOREM OneLogger == Spec => []LoggerOfOneSync
<1>1. PipeInv => LoggerOfOneSync
  BY DEF PipeInv
<1> QED
  BY <1>1, Invariant, PTL

\* Whatever the display does and the primary answers: once two corrections have been
\* made, the next is begun only after two measurements out of sync in a row, so that no
\* single late vblank moves the clock (secondary.cpp:510-516).
THEOREM TwoInARow == Spec => NoHastySync
<1>1. ASSUME PipeInv, [Next]_vars,
             pc = "decide", pc' = "spawn", stats.syncs > 1, ~clientDone
      PROVE  outRun >= 2
  <2>1. BeginSync
    BY <1>1 DEF Next, ThreadStep, LoggerStep, CtrlC, Terminated, Capture, LeaveAlone, Spawn,
                Synchronize, Stop, Join, Learn, Store, Sleep, vars
  <2>2. local = stats /\ stats \in Statistics /\ outRun \in Nat
    BY <1>1 DEF PipeInv, CopyOK, TypesOK
  <2>3. OutOfSync /\ local.outOfSync + 1 >= 2
    BY <1>1, <2>1, <2>2 DEF BeginSync, Statistics
  <2>4. local.outOfSync + 1 <= outRun
    BY <1>1, <2>3 DEF PipeInv, CountOK
  <2> QED
    BY <2>2, <2>3, <2>4 DEF Statistics
<1>2. PipeInv /\ [Next]_vars =>
        [pc = "decide" /\ pc' = "spawn" /\ stats.syncs > 1 /\ ~clientDone => outRun >= 2]_vars
  BY <1>1
<1> QED
  BY <1>2, Invariant, PTL DEF Spec, NoHastySync

-----------------------------------------------------------------------------
(* Division.                                                               *)

\* What division by a positive number yields.
LEMMA Division ==
  \A a \in Int : \A b \in Nat \ {0} :
    \E q \in Int : \E r \in 0 .. b - 1 : a \div b = q /\ a % b = r /\ a = b * q + r
<1> SUFFICES ASSUME NEW a \in Int, NEW b \in Nat \ {0}
             PROVE  /\ a \div b \in Int /\ a % b \in 0 .. b - 1
                    /\ a = b * (a \div b) + (a % b)
  BY Zenon
<1> QED
  OBVIOUS

\* Multiples of b lie at least b apart.
LEMMA Multiples ==
  ASSUME NEW b \in Nat \ {0}, NEW n \in Int, NEW m \in Int
  PROVE  /\ b * n \in Int /\ b * m \in Int
         /\ n < m => b * n + b <= b * m
         /\ b * n < b * m + b => n <= m
<1>1. b * n \in Int /\ b * m \in Int /\ b * (m - n) = b * m - b * n
  OBVIOUS
<1>2. ASSUME NEW z \in Nat \ {0} PROVE b * z >= b
  OBVIOUS
<1>3. n < m => m - n \in Nat \ {0}
  OBVIOUS
<1>4. n < m => b * n + b <= b * m
  BY <1>1, <1>2, <1>3
<1>5. m < n => b * m + b <= b * n
  <2>1. m < n => n - m \in Nat \ {0} /\ b * (n - m) = b * n - b * m
    OBVIOUS
  <2> QED
    BY <1>1, <1>2, <2>1
<1> QED
  BY <1>1, <1>4, <1>5

\* A quotient and a remainder are determined by what they are to add up to.
LEMMA DivisionIs ==
  ASSUME NEW b \in Nat \ {0}, NEW n \in Int, NEW r \in 0 .. b - 1
  PROVE  (b * n + r) % b = r /\ (b * n + r) \div b = n
<1>1. b * n \in Int /\ b * n + r \in Int
  BY Multiples
<1>2. PICK q \in Int, s \in 0 .. b - 1 :
        (b * n + r) \div b = q /\ (b * n + r) % b = s /\ b * n + r = b * q + s
  BY <1>1, Division, Zenon
<1>3. b * q \in Int
  BY <1>2, Multiples
<1>4. q <= n /\ n <= q
  <2>1. b * q < b * n + b /\ b * n < b * q + b
    BY <1>1, <1>2, <1>3
  <2> QED
    BY <2>1, Multiples
<1> QED
  BY <1>1, <1>2, <1>3, <1>4

-----------------------------------------------------------------------------
(* The measurement: find_minimum_delta.                                    *)

\* The shorter way to one of the primary's vblanks. Half way between two of them
\* there are two.
Nearest(d) ==
  \/ d = phase /\ 2 * phase <= Period
  \/ d = phase - Period /\ 2 * phase >= Period

\* How far the secondary's vblanks are from the primary's.
LEMMA Apart ==
  ASSUME Period \in Nat \ {0}, phase \in 0 .. Period - 1, NEW n \in Int
  PROVE  /\ phase + Period * n \in Int
         /\ n = 0 => phase + Period * n = phase
         /\ n = -1 => phase + Period * n = phase - Period
         /\ n >= 1 => phase + Period * n >= phase + Period
         /\ n <= -2 => phase + Period * n <= phase - 2 * Period
<1>1. Period * n \in Int /\ (n > 0 => Period * 0 + Period <= Period * n)
      /\ (n < -1 => Period * n + Period <= Period * (-1))
  BY Multiples
<1>2. n = 0 => Period * n = 0
  OBVIOUS
<1>3. n = -1 => Period * n = -Period
  OBVIOUS
<1>4. Period * 0 = 0 /\ Period * (-1) = -Period
  OBVIOUS
<1> QED
  BY <1>1, <1>2, <1>3, <1>4

LEMMA Shortest ==
  ASSUME Period \in Nat \ {0}, phase \in 0 .. Period - 1, NEW n \in Int,
         NEW x \in Int, x = phase + Period * n, NEW d \in Int, Nearest(d)
  PROVE  /\ Abs(d) <= Abs(x)
         /\ Abs(x) <= Abs(d) => \/ n = 0 /\ x = phase /\ 2 * phase <= Period
                                \/ n = -1 /\ x = phase - Period /\ 2 * phase >= Period
<1>1. Period \in Int /\ phase \in Int /\ 0 <= phase /\ phase < Period
  OBVIOUS
<1>2. \/ n = 0 /\ x = phase
      \/ n = -1 /\ x = phase - Period
      \/ n >= 1 /\ x >= phase + Period
      \/ n <= -2 /\ x <= phase - 2 * Period
  BY Apart
<1>3. Abs(d) \in Int /\ 2 * Abs(d) <= Period
  BY <1>1 DEF Abs, Nearest
<1>4. CASE n = 0 /\ x = phase
  BY <1>1, <1>4 DEF Abs, Nearest
<1>5. CASE n = -1 /\ x = phase - Period
  BY <1>1, <1>5 DEF Abs, Nearest
<1>6. CASE (n >= 1 /\ x >= phase + Period) \/ (n <= -2 /\ x <= phase - 2 * Period)
  <2>1. Abs(x) >= Period /\ Abs(x) \in Int
    BY <1>1, <1>6 DEF Abs
  <2> QED
    BY <1>1, <1>3, <2>1
<1> QED
  BY <1>2, <1>4, <1>5, <1>6

LEMMA ClosestPair ==
  ASSUME Period \in Nat \ {0}, phase \in 0 .. Period - 1,
         NEW s \in Nat, NEW m \in Nat, NEW lag \in Nat,
         s >= 2, m >= 2, lag < m,
         NEW sec, sec = [i \in 1 .. s |-> phase + i * Period],
         NEW pri, pri = [j \in 1 .. m |-> (s + lag - m + j) * Period]
  PROVE  Nearest(FindMinimumDelta(pri, sec))
<1> DEFINE Diff(k) == sec[k[1]] - pri[k[2]]
           pairs == (1 .. Len(sec)) \X (1 .. Len(pri))
           closest == {k \in pairs : \A o \in pairs : Abs(Diff(k)) <= Abs(Diff(o))}
           Last(k) == \A o \in closest : o[1] < k[1] \/ (o[1] = k[1] /\ o[2] <= k[2])
           Turn(k) == k[1] - (s + lag - m + k[2])
<1>1. Len(sec) = s /\ Len(pri) = m
  OBVIOUS
<1>2. pairs = (1 .. s) \X (1 .. m)
  BY <1>1
<1>3. ASSUME NEW k \in pairs
      PROVE  Turn(k) \in Int /\ Diff(k) \in Int /\ Diff(k) = phase + Period * Turn(k)
  <2>1. PICK i \in 1 .. s, j \in 1 .. m : k[1] = i /\ k[2] = j
    BY <1>2, <1>3
  <2>2. Diff(k) = (phase + i * Period) - (s + lag - m + j) * Period
    BY <2>1
  <2>3. i * Period - (s + lag - m + j) * Period = Period * (i - (s + lag - m + j))
    OBVIOUS
  <2>4. i * Period \in Int /\ (s + lag - m + j) * Period \in Int
    OBVIOUS
  <2> QED
    BY <2>1, <2>2, <2>3, <2>4
<1>4. FindMinimumDelta(pri, sec) = Diff(CHOOSE k \in closest : Last(k))
  BY DEF FindMinimumDelta
<1> HIDE DEF Diff, pairs
\* The pair that is met first is near the ends of both arrays.
<1>5. \E w \in pairs :
        /\ Nearest(Diff(w))
        /\ \/ 2 * phase < Period /\ w[1] = s /\ w[2] = m - lag
           \/ 2 * phase >= Period /\ lag >= 1 /\ w[1] = s /\ w[2] = m - lag + 1
           \/ 2 * phase > Period /\ lag = 0 /\ w[1] = s - 1 /\ w[2] = m
           \/ 2 * phase = Period /\ lag = 0 /\ w[1] = s /\ w[2] = m
  <2>1. ASSUME NEW i \in 1 .. s, NEW j \in 1 .. m
        PROVE  /\ <<i, j>> \in pairs
               /\ i = s + lag - m + j => Diff(<<i, j>>) = phase
               /\ i = s + lag - m + j - 1 => Diff(<<i, j>>) = phase - Period
    <3>1. <<i, j>> \in pairs /\ Turn(<<i, j>>) = i - (s + lag - m + j)
      BY <1>2, <2>1
    <3>2. PICK t \in Int : t = Turn(<<i, j>>) /\ Diff(<<i, j>>) = phase + Period * t
      BY <1>3, <3>1
    <3> QED
      BY <3>1, <3>2, Apart
  <2>2. CASE 2 * phase < Period
    <3>1. s \in 1 .. s /\ m - lag \in 1 .. m /\ s = s + lag - m + (m - lag)
      OBVIOUS
    <3>2. <<s, m - lag>> \in pairs /\ Diff(<<s, m - lag>>) = phase
      BY <2>1, <3>1
    <3>3. <<s, m - lag>>[1] = s /\ <<s, m - lag>>[2] = m - lag
      OBVIOUS
    <3>4. Nearest(Diff(<<s, m - lag>>))
      BY <2>2, <3>2 DEF Nearest
    <3> QED
      BY <2>2, <3>2, <3>3, <3>4
  <2>3. CASE 2 * phase >= Period /\ lag >= 1
    <3>1. s \in 1 .. s /\ m - lag + 1 \in 1 .. m /\ s = s + lag - m + (m - lag + 1) - 1
      BY <2>3
    <3>2. <<s, m - lag + 1>> \in pairs /\ Diff(<<s, m - lag + 1>>) = phase - Period
      BY <2>1, <3>1
    <3>3. <<s, m - lag + 1>>[1] = s /\ <<s, m - lag + 1>>[2] = m - lag + 1
      OBVIOUS
    <3>4. Nearest(Diff(<<s, m - lag + 1>>))
      BY <2>3, <3>2 DEF Nearest
    <3> QED
      BY <2>3, <3>2, <3>3, <3>4
  <2>4. CASE 2 * phase > Period /\ lag = 0
    <3>1. s - 1 \in 1 .. s /\ m \in 1 .. m /\ s - 1 = s + lag - m + m - 1
      BY <2>4
    <3>2. <<s - 1, m>> \in pairs /\ Diff(<<s - 1, m>>) = phase - Period
      BY <2>1, <3>1
    <3>3. <<s - 1, m>>[1] = s - 1 /\ <<s - 1, m>>[2] = m
      OBVIOUS
    <3>4. Nearest(Diff(<<s - 1, m>>))
      BY <2>4, <3>2 DEF Nearest
    <3> QED
      BY <2>4, <3>2, <3>3, <3>4
  <2>5. CASE 2 * phase = Period /\ lag = 0
    <3>1. s \in 1 .. s /\ m \in 1 .. m /\ s = s + lag - m + m
      BY <2>5
    <3>2. <<s, m>> \in pairs /\ Diff(<<s, m>>) = phase
      BY <2>1, <3>1
    <3>3. <<s, m>>[1] = s /\ <<s, m>>[2] = m
      OBVIOUS
    <3>4. Nearest(Diff(<<s, m>>))
      BY <2>5, <3>2 DEF Nearest
    <3> QED
      BY <2>5, <3>2, <3>3, <3>4
  <2> QED
    BY <2>2, <2>3, <2>4, <2>5
<1>6. PICK w \in pairs :
        /\ Nearest(Diff(w))
        /\ \/ 2 * phase < Period /\ w[1] = s /\ w[2] = m - lag
           \/ 2 * phase >= Period /\ lag >= 1 /\ w[1] = s /\ w[2] = m - lag + 1
           \/ 2 * phase > Period /\ lag = 0 /\ w[1] = s - 1 /\ w[2] = m
           \/ 2 * phase = Period /\ lag = 0 /\ w[1] = s /\ w[2] = m
  BY <1>5
<1>7. ASSUME NEW k \in pairs
      PROVE  /\ Abs(Diff(w)) <= Abs(Diff(k))
             /\ Abs(Diff(k)) <= Abs(Diff(w)) =>
                  \/ Turn(k) = 0 /\ Diff(k) = phase /\ 2 * phase <= Period
                  \/ Turn(k) = -1 /\ Diff(k) = phase - Period /\ 2 * phase >= Period
  <2> HIDE DEF Turn
  <2> QED
    BY <1>3, <1>6, Shortest
<1>8. w \in closest
  BY <1>7
<1>9. Last(w)
  <2> SUFFICES ASSUME NEW o \in closest PROVE o[1] < w[1] \/ (o[1] = w[1] /\ o[2] <= w[2])
    OBVIOUS
  <2>1. PICK i \in 1 .. s, j \in 1 .. m : o[1] = i /\ o[2] = j
    BY <1>2
  <2>2. o \in pairs /\ Abs(Diff(o)) <= Abs(Diff(w))
    BY <1>6
  <2>3. \/ Turn(o) = 0 /\ 2 * phase <= Period
        \/ Turn(o) = -1 /\ 2 * phase >= Period
    BY <1>7, <2>2
  <2>4. \/ i = s + lag - m + j /\ 2 * phase <= Period
        \/ i = s + lag - m + j - 1 /\ 2 * phase >= Period
    BY <2>1, <2>3
  <2>5. PICK a \in 1 .. s, b \in 1 .. m : w[1] = a /\ w[2] = b
    BY <1>2, <1>6
  <2> QED
    BY <1>6, <2>1, <2>4, <2>5
<1> DEFINE c == CHOOSE k \in closest : Last(k)
<1>10. c \in closest
  BY <1>8, <1>9
<1>11. c \in pairs /\ Abs(Diff(c)) <= Abs(Diff(w))
  BY <1>6, <1>10
<1>12. FindMinimumDelta(pri, sec) = Diff(c)
  BY <1>4
<1> HIDE DEF c
<1> QED
  BY <1>7, <1>11, <1>12 DEF Nearest

\* No answer is later than the extra timestamps allow for (secondary.cpp:54-66).
Covered == \A lag \in Lags : lag <= NExtra + 1

MeasureTypes ==
  /\ phase \in 0 .. Period - 1
  /\ drift \in Int /\ delta \in Int
  /\ timestamps \in Nat \ {0, 1}

NearestInv ==
  /\ MeasureTypes
  /\ pc \in {"decide", "spawn", "sync"} /\ ~clientDone => Nearest(delta)

\* The sum of the intervals telescopes, and all of them are Period.
LEMMA AverageIs ==
  ASSUME Period \in Nat \ {0}, phase \in Int, NEW s \in Nat, s >= 2,
         NEW sec, sec = [i \in 1 .. s |-> phase + i * Period]
  PROVE  FindAvg(sec) = Period
<1>1. Len(sec) = s /\ sec[1] = phase + 1 * Period /\ sec[s] = phase + s * Period
  OBVIOUS
<1>2. sec[s] - sec[1] = (s - 1) * Period + 0
  BY <1>1
<1>3. s - 1 \in Nat \ {0} /\ 0 \in 0 .. (s - 1) - 1 /\ Period \in Int
  OBVIOUS
<1>4. ((s - 1) * Period + 0) \div (s - 1) = Period
  BY <1>3, DivisionIs
<1> QED
  BY <1>1, <1>2, <1>4 DEF FindAvg

LEMMA NormalizeNearest ==
  ASSUME Period \in Nat \ {0}, phase \in 0 .. Period - 1, NEW d, Nearest(d)
  PROVE  NormalizeDelta(d, Period) = d
<1>1. d \in Int /\ 2 * d <= Period /\ d # Period /\ d < Period /\ -d < Period
  BY DEF Nearest
<1>2. Rem(d, Period) = d
  <2>1. ASSUME NEW x \in 0 .. Period - 1 PROVE x % Period = x
    <3>1. (Period * 0 + x) % Period = x
      BY DivisionIs
    <3> QED
      BY <3>1
  <2>2. CASE d < 0
    <3>1. (-d) % Period = -d
      BY <1>1, <2>1, <2>2
    <3> QED
      BY <1>1, <2>2, <3>1 DEF Rem
  <2>3. CASE d >= 0
    <3>1. d % Period = d
      BY <1>1, <2>1, <2>3
    <3> QED
      BY <1>1, <2>3, <3>1 DEF Rem
  <2> QED
    BY <1>1, <2>2, <2>3
<1>3. ~(d > Period \div 2)
  BY <1>1
<1> QED
  BY <1>1, <1>2, <1>3 DEF NormalizeDelta

\* Whatever the answer's lag, what is measured is the shorter way.
LEMMA Measured ==
  ASSUME MeasureTypes, Covered, NEW lag \in Lags
  PROVE  Nearest(NormalizeDelta(FindMinimumDelta(PrimaryVsync(lag), SecondaryVsync),
                                FindAvg(SecondaryVsync)))
<1>1. /\ Period \in Nat \ {0} /\ phase \in 0 .. Period - 1 /\ phase \in Int
      /\ lag \in Nat /\ lag <= 6
      /\ MaxTimestamps \in Nat /\ MaxTimestamps > 6
      /\ timestamps \in Nat /\ timestamps >= 2
  BY PipeAssumption DEF PipeAssumption, MeasureTypes, Covered, NExtra
<1>2. SecondaryCount \in Nat /\ SecondaryCount >= 2
  BY <1>1 DEF SecondaryCount, NExtra
<1>3. PrimaryCount \in Nat /\ PrimaryCount >= 7
  BY <1>1 DEF PrimaryCount, Least, NExtra
<1>4. PICK s \in Nat, m \in Nat : s = SecondaryCount /\ m = PrimaryCount
  BY <1>2, <1>3
<1> DEFINE sec == SecondaryVsync
           pri == PrimaryVsync(lag)
<1>5. /\ sec = [i \in 1 .. s |-> phase + i * Period]
      /\ pri = [j \in 1 .. m |-> (s + lag - m + j) * Period]
  BY <1>4 DEF SecondaryVsync, PrimaryVsync
<1> HIDE DEF sec, pri
<1>6. s >= 2 /\ m >= 2 /\ lag < m
  BY <1>1, <1>2, <1>3, <1>4
<1>7. Nearest(FindMinimumDelta(pri, sec))
  BY <1>1, <1>5, <1>6, ClosestPair
<1>8. FindAvg(sec) = Period
  BY <1>1, <1>5, <1>6, AverageIs
<1> QED
  BY <1>1, <1>7, <1>8, NormalizeNearest DEF sec, pri

-----------------------------------------------------------------------------
(* The distance of the two displays.                                       *)

\* A phase is never further from the primary's vblanks than from one of them.
LEMMA NotFurther ==
  ASSUME Period \in Nat \ {0}, NEW n \in Int, NEW x \in Int
  PROVE  Distance(Period * n + x) <= Abs(x)
<1>1. PICK q \in Int, r \in 0 .. Period - 1 :
        x \div Period = q /\ x % Period = r /\ x = Period * q + r
  BY Division, Zenon
<1>2. PICK u \in Int, v \in 0 .. Period - 1 :
        (-x) \div Period = u /\ (-x) % Period = v /\ -x = Period * u + v
  <2>1. -x \in Int
    OBVIOUS
  <2> QED
    BY <2>1, Division, Zenon
<1>3. (Period * n + x) % Period = r /\ (-(Period * n + x)) % Period = v
  <2>1. n + q \in Int /\ u - n \in Int
    BY <1>1, <1>2
  <2>2. /\ Period * n + x = Period * (n + q) + r
        /\ -(Period * n + x) = Period * (u - n) + v
    BY <1>1, <1>2
  <2>3. (Period * (n + q) + r) % Period = r /\ (Period * (u - n) + v) % Period = v
    BY <2>1, <1>1, <1>2, DivisionIs
  <2> QED
    BY <2>2, <2>3
<1>4. x >= 0 => r <= x
  <2>1. Period * q \in Int /\ (q < 0 => Period * q + Period <= Period * 0) /\ Period * 0 = 0
    BY <1>1, Multiples
  <2>2. q >= 0 => Period * q >= 0
    BY <1>1
  <2> QED
    BY <1>1, <2>1, <2>2
<1>5. x <= 0 => v <= -x
  <2>1. Period * u \in Int /\ (u < 0 => Period * u + Period <= Period * 0) /\ Period * 0 = 0
    BY <1>2, Multiples
  <2>2. u >= 0 => Period * u >= 0
    BY <1>2
  <2> QED
    BY <1>2, <2>1, <2>2
<1> QED
  BY <1>3, <1>4, <1>5 DEF Distance, Least, Abs

LEMMA DistanceIs ==
  ASSUME Period \in Nat \ {0}, phase \in 0 .. Period - 1, NEW d \in Int, Nearest(d)
  PROVE  /\ Abs(d) = Distance(phase)
         /\ (d - phase) % Period = 0
         /\ \E n \in Int : phase = Period * n + d
<1>1. phase \in Int /\ Period \in Int
  OBVIOUS
<1>2. (Period * 0 + phase) % Period = phase /\ (Period * 0 + 0) % Period = 0
  BY DivisionIs
<1>3. (Period * (-1) + 0) % Period = 0
  BY DivisionIs
<1>4. phase # 0 => (Period * (-1) + (Period - phase)) % Period = Period - phase
  <2>1. phase # 0 => Period - phase \in 0 .. Period - 1
    OBVIOUS
  <2> QED
    BY <2>1, DivisionIs
<1>5. phase % Period = phase /\ 0 % Period = 0 /\ (-Period) % Period = 0
  BY <1>2, <1>3
<1>6. (-phase) % Period = IF phase = 0 THEN 0 ELSE Period - phase
  <2>1. Period * (-1) + (Period - phase) = -phase
    BY <1>1
  <2> QED
    BY <1>4, <1>5, <2>1
<1>7. d - phase = 0 \/ d - phase = -Period
  BY <1>1 DEF Nearest
<1>8. (d - phase) % Period = 0
  BY <1>5, <1>7
<1>9. Abs(d) = Distance(phase)
  BY <1>1, <1>5, <1>6 DEF Nearest, Abs, Distance, Least
<1>10. \E n \in Int : phase = Period * n + d
  <2>1. phase = Period * 0 + d \/ phase = Period * 1 + d
    BY <1>1 DEF Nearest
  <2> QED
    BY <2>1
<1> QED
  BY <1>8, <1>9, <1>10

-----------------------------------------------------------------------------
(* Between the measurement and the correction neither of the two changes.  *)

\* The phase stays one, whatever is added to it.
LEMMA PhaseType ==
  ASSUME NEW x \in Int
  PROVE  x % Period \in 0 .. Period - 1
<1>1. Period \in Nat \ {0}
  BY PipeAssumption DEF PipeAssumption
<1>2. PICK q \in Int, r \in 0 .. Period - 1 :
        x \div Period = q /\ x % Period = r /\ x = Period * q + r
  BY <1>1, Division, Zenon
<1> QED
  BY <1>2

\* What a correction adds to the phase.
LEMMA AdjustedType ==
  ASSUME delta \in Int
  PROVE  Adjusted \in Int /\ Adjusted \div OvershootDen \in Int
<1>1. OvershootNum \in Nat /\ OvershootDen \in Nat \ {0}
  BY PipeAssumption DEF PipeAssumption
<1>2. Adjusted \in Int
  BY <1>1 DEF Adjusted
<1> HIDE DEF Adjusted
<1>3. PICK q \in Int, r \in 0 .. OvershootDen - 1 :
        /\ Adjusted \div OvershootDen = q /\ Adjusted % OvershootDen = r
        /\ Adjusted = OvershootDen * q + r
  BY <1>1, <1>2, Division, Zenon
<1> QED
  BY <1>2, <1>3

LEMMA InitNearest == ASSUME Init PROVE NearestInv
  BY PipeAssumption DEF PipeAssumption, Init, NearestInv, MeasureTypes

LEMMA CaptureNearest == ASSUME Covered, NearestInv, Capture PROVE NearestInv'
<1>1. MeasureTypes /\ UNCHANGED <<phase, drift, timestamps, clientDone>> /\ Period \in Nat \ {0}
  BY PipeAssumption DEF PipeAssumption, NearestInv, Capture, display
<1>2. ASSUME NEW d, Nearest(d) PROVE d \in Int
  BY <1>1, <1>2 DEF Nearest, MeasureTypes
<1>3. \/ pc' = "exited" /\ UNCHANGED delta
      \/ \E lag \in Lags :
           delta' = NormalizeDelta(FindMinimumDelta(PrimaryVsync(lag), SecondaryVsync),
                                   FindAvg(SecondaryVsync))
      \/ clientDone /\ delta' \in -(Period - 1) .. Period \div 2
  BY DEF Capture
<1>4. CASE pc' = "exited" /\ UNCHANGED delta
  BY <1>1, <1>4 DEF NearestInv, MeasureTypes
<1>5. CASE \E lag \in Lags :
             delta' = NormalizeDelta(FindMinimumDelta(PrimaryVsync(lag), SecondaryVsync),
                                     FindAvg(SecondaryVsync))
  <2>1. Nearest(delta')
    BY <1>1, <1>5, Measured
  <2>2. delta' \in Int
    BY <1>2, <2>1
  <2> QED
    BY <1>1, <2>1, <2>2 DEF NearestInv, MeasureTypes, Nearest
<1>6. CASE clientDone /\ delta' \in -(Period - 1) .. Period \div 2
  <2>1. delta' \in Int
    BY <1>1, <1>6
  <2> QED
    BY <1>1, <1>6, <2>1 DEF NearestInv, MeasureTypes
<1> QED
  BY <1>3, <1>4, <1>5, <1>6

LEMMA SynchronizeNearest == ASSUME NearestInv, Synchronize PROVE NearestInv'
<1>1. MeasureTypes /\ pc' = "stop" /\ UNCHANGED <<drift, delta, timestamps>>
  BY DEF NearestInv, Synchronize
<1>2. phase' \in 0 .. Period - 1
  <2>1. CASE UNCHANGED phase
    BY <1>1, <2>1 DEF MeasureTypes
  <2>2. CASE \E e \in Errors : phase' = (phase + Adjusted \div OvershootDen + e) % Period
    <3>1. PICK e \in Errors : phase' = (phase + Adjusted \div OvershootDen + e) % Period
      BY <2>2
    <3>2. phase \in Int /\ Adjusted \div OvershootDen \in Int /\ e \in Int
      BY <1>1, AdjustedType, PipeAssumption DEF MeasureTypes, PipeAssumption
    <3>3. phase + Adjusted \div OvershootDen + e \in Int
      BY <3>2
    <3> QED
      BY <3>1, <3>3, PhaseType
  <2> QED
    BY <2>1, <2>2 DEF Synchronize
<1> QED
  BY <1>1, <1>2 DEF NearestInv, MeasureTypes

LEMMA OtherNearest ==
  ASSUME NearestInv, [Next]_vars, ~Capture, ~Synchronize
  PROVE  NearestInv'
<1>1. MeasureTypes /\ Learning \in Int
  BY PipeAssumption DEF NearestInv, PipeAssumption
<1>2. CASE Sleep
  <2>1. phase + drift \in Int
    BY <1>1 DEF MeasureTypes
  <2>2. /\ phase' = (phase + drift) % Period /\ timestamps' = 2 /\ UNCHANGED <<drift, delta>>
        /\ pc' \in {"exited", "capture"}
    BY <1>2 DEF Sleep
  <2> QED
    BY <1>1, <2>1, <2>2, PhaseType DEF NearestInv, MeasureTypes
<1>3. CASE Learn
  BY <1>1, <1>3 DEF Learn, NearestInv, MeasureTypes
<1>4. CASE ~Sleep /\ ~Learn
  <2>1. /\ UNCHANGED <<phase, drift, delta, timestamps>>
        /\ clientDone => clientDone'
        /\ pc' \in {"decide", "spawn", "sync"} => pc \in {"decide", "spawn", "sync"}
    BY <1>4 DEF Next, ThreadStep, LeaveAlone, BeginSync, Spawn, Stop, Join, Store, LoggerStep,
                CtrlC, Terminated, vars, display
  <2> QED
    BY <2>1 DEF NearestInv, MeasureTypes, Nearest
<1> QED
  BY <1>2, <1>3, <1>4

LEMMA NearestInvariant == ASSUME Covered PROVE Spec => []NearestInv
<1>1. Init => NearestInv
  BY InitNearest
<1>2. NearestInv /\ [Next]_vars => NearestInv'
  BY CaptureNearest, SynchronizeNearest, OtherNearest
<1> QED
  BY <1>1, <1>2, PTL DEF Spec

\* For any period, phase, drift, threshold and number of timestamps, the delta that
\* do_pipe_sync acts upon is the way to the primary's nearest vblank, however late
\* an answer is that the extra timestamps cover (secondary.cpp:54-66,109-125).
THEOREM MeasuresNearest ==
  ASSUME Covered
  PROVE  Spec => []NearestVblank
<1>1. NearestInv => NearestVblank
  <2> SUFFICES ASSUME NearestInv, pc \in {"decide", "spawn", "sync"}, ~clientDone
               PROVE  (delta - phase) % Period = 0 /\ Abs(delta) = Distance(phase)
    BY DEF NearestVblank
  <2>1. /\ Period \in Nat \ {0} /\ phase \in 0 .. Period - 1 /\ delta \in Int /\ Nearest(delta)
    BY PipeAssumption DEF PipeAssumption, NearestInv, MeasureTypes
  <2> QED
    BY <2>1, DistanceIs
<1> QED
  BY <1>1, NearestInvariant, PTL

\* An overshoot of at most the delta itself goes at most as far to the other side.
LEMMA Overshot ==
  ASSUME delta \in Int, OvershootNum <= OvershootDen
  PROVE  Abs(delta + Adjusted \div OvershootDen) <= Abs(delta)
<1>1. OvershootNum \in Nat /\ OvershootDen \in Nat \ {0} /\ 0 \in 0 .. OvershootDen - 1
  BY PipeAssumption DEF PipeAssumption
<1>2. CASE ~Overshoots
  <2>1. Adjusted = OvershootDen * (-delta) + 0 /\ -delta \in Int
    BY <1>1, <1>2 DEF Adjusted
  <2>2. Adjusted \div OvershootDen = -delta
    BY <1>1, <2>1, DivisionIs
  <2> QED
    BY <2>2 DEF Abs
<1>3. CASE Overshoots
  <2> DEFINE t == OvershootNum * (-delta)
  <2>1. t \in Int /\ -delta \in Int
    BY <1>1
  <2>2. Adjusted = OvershootDen * (-delta) + t /\ OvershootDen * (-delta) \in Int
    BY <1>1, <1>3 DEF Adjusted
  <2>3. -(OvershootDen * Abs(delta)) <= t /\ t <= OvershootDen * Abs(delta)
    <3>1. PICK k \in Nat : OvershootDen = OvershootNum + k
      BY <1>1
    <3>2. ASSUME NEW x \in Nat
          PROVE  OvershootNum * x \in Nat /\ OvershootNum * x <= OvershootDen * x
      <4>1. k * x \in Nat /\ OvershootNum * x \in Nat
        BY <1>1
      <4>2. OvershootDen * x = OvershootNum * x + k * x
        BY <1>1, <3>1
      <4> QED
        BY <4>1, <4>2
    <3>3. PICK a \in Nat : a = Abs(delta) /\ (delta = a \/ delta = -a)
      BY DEF Abs
    <3>4. OvershootNum * (-a) = -(OvershootNum * a) /\ -(-a) = a
      BY <1>1
    <3>5. t = OvershootNum * a \/ t = -(OvershootNum * a)
      BY <3>3, <3>4
    <3>6. OvershootNum * a \in Nat /\ OvershootNum * a <= OvershootDen * a
          /\ OvershootDen * a \in Int
      BY <1>1, <3>2
    <3> HIDE DEF t
    <3> QED
      BY <3>3, <3>5, <3>6
  <2> HIDE DEF t
  <2>4. PICK q \in Int, r \in 0 .. OvershootDen - 1 :
          t \div OvershootDen = q /\ t % OvershootDen = r /\ t = OvershootDen * q + r
    BY <1>1, <2>1, Division, Zenon
  <2>5. -delta + q \in Int /\ OvershootDen * q \in Int
        /\ OvershootDen * (-delta + q) = OvershootDen * (-delta) + OvershootDen * q
    BY <1>1, <2>4
  <2>6. Adjusted = OvershootDen * (-delta + q) + r
    BY <1>1, <2>2, <2>4, <2>5
  <2>7. Adjusted \div OvershootDen = -delta + q
    BY <1>1, <2>4, <2>5, <2>6, DivisionIs
  <2>8. -Abs(delta) <= q /\ q <= Abs(delta)
    <3>1. PICK a \in Nat : a = Abs(delta)
      BY DEF Abs
    <3>2. OvershootDen * (-a) = -(OvershootDen * a) /\ -a \in Int /\ OvershootDen * a \in Int
      BY <1>1
    <3>3. /\ OvershootDen * (-a) < OvershootDen * q + OvershootDen
          /\ OvershootDen * q < OvershootDen * a + OvershootDen
      <4>1. -(OvershootDen * a) <= t /\ t <= OvershootDen * a
        BY <2>3, <3>1
      <4> QED
        BY <1>1, <2>1, <2>4, <2>5, <3>2, <4>1
    <3>4. -a <= q /\ q <= a
      BY <1>1, <2>4, <3>2, <3>3, Multiples
    <3> QED
      BY <3>1, <3>4
  <2> QED
    BY <2>4, <2>7, <2>8 DEF Abs
<1> QED
  BY <1>2, <1>3

\* A correction that is refused leaves the displays where they are.
LEMMA Unmoved ==
  ASSUME NearestInv, pc = "sync", ~clientDone, Errors # {}, phase' = phase
  PROVE  \E e \in Errors : Distance(phase') <= Distance(phase) + Abs(e)
<1>1. /\ Period \in Nat \ {0} /\ phase \in 0 .. Period - 1 /\ delta \in Int /\ Nearest(delta)
      /\ Errors \subseteq Int
  BY PipeAssumption DEF PipeAssumption, NearestInv, MeasureTypes
<1>2. PICK e \in Errors : TRUE
  BY Zenon
<1>3. Abs(delta) = Distance(phase)
  BY <1>1, DistanceIs
<1>4. Distance(phase) \in Int /\ Abs(e) >= 0 /\ Abs(e) \in Int
  BY <1>1, <1>2, <1>3 DEF Abs
<1> QED
  BY <1>4

LEMMA SynchronizeNearer ==
  ASSUME NearestInv, Synchronize, ~clientDone, OvershootNum <= OvershootDen, Errors # {}
  PROVE  \E e \in Errors : Distance(phase') <= Distance(phase) + Abs(e)
<1>1. /\ Period \in Nat \ {0} /\ phase \in 0 .. Period - 1 /\ phase \in Int
      /\ delta \in Int /\ Nearest(delta) /\ Errors \subseteq Int
  BY PipeAssumption DEF PipeAssumption, NearestInv, MeasureTypes, Synchronize
<1>2. Abs(delta) = Distance(phase)
  BY <1>1, DistanceIs
<1>3. CASE UNCHANGED phase
  BY <1>3, Unmoved DEF Synchronize
<1>4. CASE \E e \in Errors : phase' = (phase + Adjusted \div OvershootDen + e) % Period
  <2>1. PICK e \in Errors : phase' = (phase + Adjusted \div OvershootDen + e) % Period
    BY <1>4
  <2>2. PICK n \in Int : phase = Period * n + delta
    BY <1>1, DistanceIs
  <2>3. PICK a \in Int : a = Adjusted \div OvershootDen
    BY <1>1, AdjustedType
  <2>4. e \in Int /\ phase + a + e \in Int /\ delta + a + e \in Int
    BY <1>1, <2>1
  <2>5. PICK q \in Int, r \in 0 .. Period - 1 :
          /\ (phase + a + e) \div Period = q /\ (phase + a + e) % Period = r
          /\ phase + a + e = Period * q + r
    BY <1>1, <2>4, Division, Zenon
  <2>6. Period * n \in Int /\ Period * q \in Int /\ n - q \in Int
        /\ Period * (n - q) = Period * n - Period * q
    BY <1>1, <2>2, <2>5
  <2>7. phase' = Period * (n - q) + (delta + a + e)
    BY <1>1, <2>1, <2>2, <2>3, <2>4, <2>5, <2>6
  <2>8. Distance(phase') <= Abs(delta + a + e)
    BY <1>1, <2>4, <2>6, <2>7, NotFurther
  <2>9. Abs(delta + a) <= Abs(delta)
    BY <1>1, <2>3, Overshot
  <2>10. Abs(delta + a + e) <= Abs(delta) + Abs(e)
    BY <1>1, <2>4, <2>9 DEF Abs
  <2>11. Distance(phase') \in Int
    <3>1. phase' \in Int /\ -phase' \in Int
      BY <1>1, <2>4, <2>6, <2>7
    <3>2. phase' % Period \in 0 .. Period - 1 /\ (-phase') % Period \in 0 .. Period - 1
      BY <3>1, PhaseType
    <3> QED
      BY <3>2 DEF Distance, Least
  <2>12. Distance(phase') <= Abs(delta) + Abs(e)
    BY <1>1, <2>4, <2>8, <2>10, <2>11 DEF Abs
  <2> QED
    BY <1>2, <2>1, <2>12
<1> QED
  BY <1>3, <1>4 DEF Synchronize

\* A correction leaves the displays no further apart than they were, beyond its own
\* error, with any overshoot that the usage text allows (0 to 1, main.cpp:171), refused
\* or not: perform_synchronization moves the clock the right way.
THEOREM Nearer ==
  ASSUME Covered, OvershootNum <= OvershootDen, Errors # {}
  PROVE  Spec => NeverFurtherApart
<1>1. ASSUME NearestInv, [Next]_vars, pc = "sync", ~clientDone, phase' # phase
      PROVE  \E e \in Errors : Distance(phase') <= Distance(phase) + Abs(e)
  <2>1. Synchronize
    BY <1>1 DEF Next, ThreadStep, Capture, LeaveAlone, BeginSync, Spawn, Stop, Join, Learn, Store,
                Sleep, LoggerStep, CtrlC, Terminated, vars, display
  <2> QED
    BY <1>1, <2>1, SynchronizeNearer
<1>2. NearestInv /\ [Next]_vars =>
        [pc = "sync" /\ ~clientDone =>
           \E e \in Errors : Distance(phase') <= Distance(phase) + Abs(e)]_vars
  BY <1>1, Unmoved
<1> QED
  BY <1>2, NearestInvariant, PTL DEF Spec, NeverFurtherApart

-----------------------------------------------------------------------------
(* LibLifecycle: types and consistency.                                    *)

LEMMA PhyOfType ==
  ASSUME NEW w \in Rows, NEW r \in Routings[w], NEW p \in Driven(r), NEW mn \in BOOLEAN
  PROVE  PhyOf(r, p, mn) \in PhyObjects /\ PhyOf(r, p, mn).pipe = p
<1>1. p \in Pipes /\ p \in Nat /\ r[p] \in Outputs
  BY LibAssumption DEF Driven, Pipes
<1>2. CASE mn /\ r[p].dp
  BY <1>1, <1>2 DEF PhyOf, PhyObjects
<1>3. CASE ~(mn /\ r[p].dp)
  BY <1>1, <1>3 DEF PhyOf, PhyObjects, Outputs
<1> QED
  BY <1>2, <1>3

LEMMA MarksTypes ==
  ASSUME NEW xs \in SUBSET PhyObjects
  PROVE  MarksOf(xs) \subseteq (Kinds \cup {"m_n"}) \X Nat
<1>1. ASSUME NEW x \in xs PROVE Marks(x) \subseteq (Kinds \cup {"m_n"}) \X Nat
  <2>1. x.kind \in Kinds \cup {"m_n"} /\ x.pll \in Nat
    BY DEF PhyObjects
  <2>2. <<x.kind, x.pll>> \in (Kinds \cup {"m_n"}) \X Nat
    BY <2>1
  <2> QED
    BY <2>2 DEF Marks
<1> QED
  BY <1>1 DEF MarksOf

LEMMA RowOfType ==
  ASSUME TypeOK, NEW card \in Cards, NEW dev \in Identified(card), RowOf(dev) # Foreign
  PROVE  RowOf(dev) \in Rows
BY LibAssumption DEF RowOf, Identified, TypeOK

LEMMA InitTypeOK == LibInit => TypeOK
<1> SUFFICES ASSUME LibInit PROVE TypeOK
  OBVIOUS
<1>1. loop \in LoopTypes /\ loop.op = "none"
  BY DEF LibInit, LoopTypes
<1>2. last \in [call : {"none", "init", "uninit", "sync", "set", "ask", "crash"},
               result : {0, 1}]
  BY DEF LibInit
<1> QED
  BY <1>1, <1>2, LibAssumption DEF LibInit, TypeOK, IsInit

\* A call that only answers.
LEMMA ReturnedType ==
  ASSUME NEW name \in {"init", "uninit", "sync", "set", "ask", "crash"},
         NEW result \in {0, 1}, Returned(name, result)
  PROVE  last' \in [call : {"none", "init", "uninit", "sync", "set", "ask", "crash"},
                    result : {0, 1}]
BY DEF Returned

-----------------------------------------------------------------------------
(* vsync_lib_init and vsync_lib_uninit.                                    *)

LEMMA InitReadyTypes ==
  ASSUME TypeOK, NEW card \in Cards, NEW mn \in BOOLEAN, NEW ts \in BOOLEAN,
         InitReady(card, mn, ts)
  PROVE  TypeOK'
<1>1. PICK dev \in Identified(card) :
        /\ RowOf(dev) # Foreign /\ row' = RowOf(dev) /\ idUnread' = (dev = NoDevice)
        /\ \E r \in Routings[RowOf(dev)] :
             /\ list' = {PhyOf(r, p, mn) : p \in Driven(r)}
             /\ taken' = taken \cup MarksOf(list')
  BY DEF InitReady
<1>2. RowOf(dev) \in Rows
  BY <1>1, RowOfType
<1>3. PICK r \in Routings[RowOf(dev)] :
        /\ list' = {PhyOf(r, p, mn) : p \in Driven(r)}
        /\ taken' = taken \cup MarksOf(list')
  BY <1>1
<1>4. list' \subseteq PhyObjects
  BY <1>2, <1>3, PhyOfType
<1>5. taken' \subseteq (Kinds \cup {"m_n"}) \X Nat
  BY <1>3, <1>4, MarksTypes DEF TypeOK
<1>6. Target[card] \in Devices
  BY LibAssumption
<1>7. last' \in [call : {"none", "init", "uninit", "sync", "set", "ask", "crash"},
                 result : {0, 1}]
  BY ReturnedType DEF InitReady
<1>8. loop.op = "none" /\ UNCHANGED <<loop, shutdown>>
  BY DEF InitReady, MayCall
<1>9. /\ mapped' \in Devices /\ cached' \in Devices
      /\ hasList' = TRUE /\ hwTs' \in BOOLEAN /\ counting' \subseteq Devices
  BY <1>6 DEF InitReady, TypeOK
<1> QED
  BY <1>1, <1>2, <1>4, <1>5, <1>7, <1>8, <1>9, LibAssumption DEF TypeOK, IsInit, InitReady

LEMMA TakeDownTypes ==
  ASSUME TypeOK, NEW left, TakeDown(left)
  PROVE  /\ hasList' = FALSE /\ list' = {} /\ taken' \subseteq taken
         /\ mapped' = NoDevice /\ cached' = NoDevice
BY DEF TakeDown

LEMMA InitUnusableTypes ==
  ASSUME TypeOK, NEW card \in Cards, NEW mn \in BOOLEAN, InitUnusable(card, mn)
  PROVE  TypeOK'
<1>1. PICK dev \in Identified(card) :
        RowOf(dev) # Foreign /\ row' = RowOf(dev) /\ idUnread' = (dev = NoDevice)
  BY DEF InitUnusable
<1>2. \/ Returned("crash", 1) /\ UNCHANGED <<mapped, cached, phys>>
      \/ Returned("init", 1) /\ \E left : TakeDown(left)
  BY DEF InitUnusable
<1>3. last' \in [call : {"none", "init", "uninit", "sync", "set", "ask", "crash"},
                 result : {0, 1}]
  BY <1>2, ReturnedType
<1>4. loop.op = "none" /\ UNCHANGED <<global, loop>>
  BY DEF InitUnusable, MayCall
<1>5. \/ UNCHANGED <<mapped, cached, phys>>
      \/ /\ hasList' = FALSE /\ list' = {} /\ taken' \subseteq taken
         /\ mapped' = NoDevice /\ cached' = NoDevice
  BY <1>2, TakeDownTypes
<1>6. row' \in Rows /\ idUnread' \in BOOLEAN
  BY <1>1, RowOfType
<1>7. /\ hasList' \in BOOLEAN /\ list' \subseteq PhyObjects
      /\ taken' \subseteq (Kinds \cup {"m_n"}) \X Nat
      /\ mapped' \in Devices \cup {NoDevice} /\ cached' \in Devices \cup {NoDevice}
      /\ hasList' <=> mapped' # NoDevice
  <2>1. CASE UNCHANGED <<mapped, cached, phys>>
    BY <2>1 DEF TypeOK, phys, IsInit
  <2>2. CASE /\ hasList' = FALSE /\ list' = {} /\ taken' \subseteq taken
             /\ mapped' = NoDevice /\ cached' = NoDevice
    BY <2>2 DEF TypeOK
  <2> QED
    BY <1>5, <2>1, <2>2
<1>8. loop' \in LoopTypes /\ loop'.op = "none"
  BY <1>4 DEF TypeOK
<1> QED
  BY <1>3, <1>4, <1>6, <1>7, <1>8 DEF TypeOK, global, IsInit

-----------------------------------------------------------------------------
(* The loop over the PHYs, and the calls that leave all of it alone.       *)

LEMMA LoopStartTypes ==
  ASSUME TypeOK, NEW op \in {"sync", "set"}, NEW pipe \in Pipes \cup {AllPipes},
         LoopStart(op, pipe)
  PROVE  TypeOK'
<1>1. IsInit /\ UNCHANGED <<mapped, cached, row, phys, global, last, idUnread>>
  BY DEF LoopStart
<1>2. Matching(pipe) \in SUBSET PhyObjects /\ {} \in SUBSET PhyObjects
  BY DEF Matching, TypeOK
<1>3. loop' \in [op : {"sync", "set"}, pipe : Pipes \cup {AllPipes},
                todo : SUBSET PhyObjects, done : SUBSET PhyObjects,
                failed : SUBSET PhyObjects]
  <2>1. loop' = [op |-> op, pipe |-> pipe, todo |-> Matching(pipe), done |-> {}, failed |-> {}]
    BY DEF LoopStart
  <2> QED
    BY <1>2, <2>1
<1>4. loop' \in LoopTypes
  BY <1>3 DEF LoopTypes
<1> QED
  BY <1>1, <1>4 DEF TypeOK, phys, global, IsInit

LEMMA LoopNextTypes == ASSUME TypeOK, LoopNext PROVE TypeOK'
<1>1. UNCHANGED <<mapped, cached, row, phys, global, last, idUnread>> /\ loop.op # "none"
  BY DEF LoopNext
<1>2. loop \in [op : {"sync", "set"}, pipe : Pipes \cup {AllPipes},
               todo : SUBSET PhyObjects, done : SUBSET PhyObjects,
               failed : SUBSET PhyObjects]
  BY <1>1 DEF TypeOK, LoopTypes
<1>3. PICK x \in loop.todo :
        \/ loop' = [loop EXCEPT !.todo = @ \ {x}, !.done = @ \cup {x}]
        \/ loop' = [loop EXCEPT !.todo = @ \ {x}, !.failed = @ \cup {x}]
  BY DEF LoopNext
<1>4. x \in PhyObjects
  BY <1>2
<1>5. loop' \in [op : {"sync", "set"}, pipe : Pipes \cup {AllPipes},
                todo : SUBSET PhyObjects, done : SUBSET PhyObjects,
                failed : SUBSET PhyObjects]
  <2> DEFINE S == SUBSET PhyObjects
             Q == Pipes \cup {AllPipes}
  <2>1. /\ loop.todo \ {x} \in S /\ loop.done \cup {x} \in S
        /\ loop.failed \cup {x} \in S
    BY <1>2, <1>4
  <2>2. loop \in [op : {"sync", "set"}, pipe : Q, todo : S, done : S, failed : S]
    BY <1>2
  <2> HIDE DEF S, Q
  <2>3. loop' \in [op : {"sync", "set"}, pipe : Q, todo : S, done : S, failed : S]
    BY <1>3, <2>1, <2>2
  <2> QED
    BY <2>3 DEF S, Q
<1>6. loop' \in LoopTypes /\ loop'.op # "none"
  BY <1>5 DEF LoopTypes
<1> QED
  BY <1>1, <1>6 DEF TypeOK, phys, global, IsInit

LEMMA LoopEndTypes == ASSUME TypeOK, LoopEnd PROVE TypeOK'
<1>1. UNCHANGED <<mapped, cached, row, phys, global, idUnread>> /\ loop.op # "none"
  BY DEF LoopEnd
<1>2. loop' = [op |-> "none"] /\ loop' \in LoopTypes
  BY DEF LoopEnd, LoopTypes
<1>3. loop.op \in {"sync", "set"}
  BY <1>1 DEF TypeOK, LoopTypes
<1>4. \E result \in {0, 1} : Returned(loop.op, result)
  BY DEF LoopEnd
<1>5. last' \in [call : {"none", "init", "uninit", "sync", "set", "ask", "crash"},
                result : {0, 1}]
  BY <1>3, <1>4, ReturnedType
<1> QED
  BY <1>1, <1>2, <1>5 DEF TypeOK, phys, global, IsInit

\* The calls, and the ways they end, that only return a result.
OnlyReturns ==
  \/ InitAgain \/ InitNotOpened \/ SyncRefused
  \/ \E pipe \in Pipes \cup {AllPipes} : Ask(pipe)

LEMMA OnlyReturnsTypes == ASSUME TypeOK, OnlyReturns PROVE TypeOK'
<1>1. UNCHANGED <<mapped, cached, row, phys, global, loop, idUnread>>
  BY DEF OnlyReturns, InitAgain, InitNotOpened, SyncRefused, Ask
<1>2. \E name \in {"init", "sync", "ask"}, result \in {0, 1} : Returned(name, result)
  BY DEF OnlyReturns, InitAgain, InitNotOpened, SyncRefused, Ask
<1>3. last' \in [call : {"none", "init", "uninit", "sync", "set", "ask", "crash"},
                result : {0, 1}]
  BY <1>2, ReturnedType
<1> QED
  BY <1>1, <1>3 DEF TypeOK, phys, global, IsInit

\* The ways vsync_lib_init fails before the scan, and vsync_lib_uninit.
LEMMA DownTypes ==
  ASSUME TypeOK,
         (\E card \in Cards : InitForeign(card) \/ InitNotMapped(card)) \/ Uninit
  PROVE  TypeOK'
<1>1. loop.op = "none" /\ UNCHANGED <<global, loop>>
  BY DEF InitForeign, InitNotMapped, Uninit, MayCall
<1>2. \E name \in {"init", "uninit"}, result \in {0, 1} : Returned(name, result)
  BY DEF InitForeign, InitNotMapped, Uninit
<1>3. last' \in [call : {"none", "init", "uninit", "sync", "set", "ask", "crash"},
                result : {0, 1}]
  BY <1>2, ReturnedType
<1>4. CASE Uninit
  <2>1. /\ hasList' = FALSE /\ list' = {} /\ taken' \subseteq taken
        /\ mapped' = NoDevice /\ cached' = NoDevice
    BY <1>4, TakeDownTypes DEF Uninit
  <2>2. UNCHANGED <<row, idUnread>>
    BY <1>4 DEF Uninit
  <2> QED
    BY <1>1, <1>3, <2>1, <2>2 DEF TypeOK, global, IsInit
<1>5. ASSUME NEW card \in Cards, InitForeign(card) PROVE TypeOK'
  <2>1. UNCHANGED <<mapped, row, phys, idUnread>> /\ cached' \in Devices \cup {NoDevice}
    BY <1>5, LibAssumption DEF InitForeign, Identified, TypeOK
  <2> QED
    BY <1>1, <1>3, <2>1 DEF TypeOK, phys, global, IsInit
<1>6. ASSUME NEW card \in Cards, InitNotMapped(card) PROVE TypeOK'
  <2>1. PICK dev \in Identified(card) :
          RowOf(dev) # Foreign /\ row' = RowOf(dev) /\ idUnread' = (dev = NoDevice)
    BY <1>6 DEF InitNotMapped
  <2>2. row' \in Rows /\ idUnread' \in BOOLEAN
    BY <2>1, RowOfType
  <2>3. UNCHANGED <<mapped, phys>> /\ cached' = NoDevice
    BY <1>6 DEF InitNotMapped
  <2> QED
    BY <1>1, <1>3, <2>2, <2>3 DEF TypeOK, phys, global, IsInit
<1> QED
  BY <1>4, <1>5, <1>6

LEMMA ShutdownTypes == ASSUME TypeOK, Shutdown PROVE TypeOK'
BY DEF Shutdown, TypeOK, phys, IsInit

LEMMA NextTypes == TypeOK /\ [LibNext]_libVars => TypeOK'
<1> SUFFICES ASSUME TypeOK, [LibNext]_libVars PROVE TypeOK'
  OBVIOUS
<1>1. CASE Dead \/ UNCHANGED libVars
  BY <1>1 DEF Dead, libVars, phys, global, TypeOK, IsInit
<1> QED
  BY <1>1, InitReadyTypes, InitUnusableTypes, LoopStartTypes, LoopNextTypes,
     LoopEndTypes, OnlyReturnsTypes, DownTypes, ShutdownTypes DEF LibNext, OnlyReturns

\* Every global has its type after any sequence of calls (TypeOK), and there is a
\* list of PHYs exactly while the registers are mapped.
THEOREM TypeCorrect == LibSpec => []TypeOK
  BY InitTypeOK, NextTypes, PTL DEF LibSpec

-----------------------------------------------------------------------------
(* Consistency.                                                            *)

\* Of two PHY objects of one scan, the later one finds no mark of the earlier.
LEMMA ScanExclusive ==
  ASSUME NEW w \in Rows, NEW r \in Routings[w], NEW mn \in BOOLEAN,
         UnusablePipes(r, mn) = {},
         NEW p \in Driven(r), NEW q \in Driven(r), p < q
  PROVE  Marks(PhyOf(r, p, mn)) \cap Marks(PhyOf(r, q, mn)) = {}
<1> DEFINE x == PhyOf(r, p, mn)
           y == PhyOf(r, q, mn)
<1>1. CASE y.kind \in {"combo", "dkl"}
  <2>1. x \in BuiltBefore(r, q, mn)
    BY DEF BuiltBefore
  <2>2. ~Unusable(r, q, mn)
    BY DEF UnusablePipes
  <2>3. Marks(y) \cap MarksOf(BuiltBefore(r, q, mn)) = {}
    BY <1>1, <2>2 DEF Unusable
  <2> QED
    BY <2>1, <2>3 DEF MarksOf
<1>2. CASE y.kind \in {"c10", "c20"}
  BY <1>2 DEF Marks
<1>3. CASE y.kind = "m_n"
  <2>1. r[p] \in Outputs /\ r[q] \in Outputs
    BY LibAssumption DEF Driven
  <2>2. y.pll = q /\ (x.kind = "m_n" => x.pll = p)
    BY <1>3, <2>1 DEF PhyOf, Outputs, Kinds
  <2>3. p # q
    BY DEF Driven, Pipes
  <2> QED
    BY <1>3, <2>2, <2>3 DEF Marks
<1>4. y.kind \in Kinds \cup {"m_n"}
  BY PhyOfType DEF PhyObjects
<1> QED
  BY <1>1, <1>2, <1>3, <1>4 DEF Kinds

LEMMA InitReadyConsistent ==
  ASSUME TypeOK, Consistent, NEW card \in Cards, NEW mn \in BOOLEAN, NEW ts \in BOOLEAN,
         InitReady(card, mn, ts)
  PROVE  Consistent'
<1>1. PICK dev \in Identified(card) :
        /\ RowOf(dev) # Foreign /\ row' = RowOf(dev) /\ idUnread' = (dev = NoDevice)
        /\ \E r \in Routings[RowOf(dev)] :
             /\ UnusablePipes(r, mn) = {}
             /\ list' = {PhyOf(r, p, mn) : p \in Driven(r)}
             /\ taken' = taken \cup MarksOf(list')
  BY DEF InitReady
<1>2. RowOf(dev) \in Rows
  BY <1>1, RowOfType
<1>3. PICK r \in Routings[RowOf(dev)] :
        /\ UnusablePipes(r, mn) = {}
        /\ list' = {PhyOf(r, p, mn) : p \in Driven(r)}
        /\ taken' = taken \cup MarksOf(list')
  BY <1>1
<1>4. /\ ~IsInit /\ taken = {}
      /\ cached = NoDevice \/ Chip[cached] = Foreign
  BY DEF InitReady, Consistent, NothingLeftBehind
<1>5. dev \in {Target[card], NoDevice}
  BY <1>1, <1>4, LibAssumption DEF Identified, RowOf
<1>6. mapped' = Target[card] /\ cached' = Target[card] /\ Target[card] # NoDevice
  BY LibAssumption DEF InitReady
<1>7. OwnChip'
  BY <1>1, <1>5, <1>6 DEF OwnChip, RowOf
<1>8. Exclusive'
  <2>1. taken' = MarksOf(list')
    BY <1>3, <1>4
  <2>2. ASSUME NEW x \in list', NEW y \in list', x # y
        PROVE  x.pipe # y.pipe /\ Marks(x) \cap Marks(y) = {}
    <3>1. PICK p \in Driven(r), q \in Driven(r) : x = PhyOf(r, p, mn) /\ y = PhyOf(r, q, mn)
      BY <1>3, <2>2
    <3>2. p \in Nat /\ q \in Nat /\ p # q
      BY <2>2, <3>1 DEF Driven, Pipes
    <3>3. p < q \/ q < p
      BY <3>2
    <3>4. Marks(x) \cap Marks(y) = {}
      BY <1>2, <1>3, <3>1, <3>3, ScanExclusive
    <3>5. x.pipe = p /\ y.pipe = q
      BY <1>2, <3>1, PhyOfType
    <3> QED
      BY <3>2, <3>4, <3>5
  <2> QED
    BY <2>1, <2>2 DEF Exclusive, MarksOf
<1>9. NothingLeftBehind'
  BY <1>6 DEF NothingLeftBehind, IsInit
<1> QED
  BY <1>7, <1>8, <1>9 DEF Consistent

\* vsync_lib_uninit, from wherever it is called.
LEMMA TakeDownConsistent ==
  ASSUME Consistent, NEW left, TakeDown(left)
  PROVE  Consistent'
<1>1. list' = {} /\ taken' = {} /\ mapped' = NoDevice /\ cached' = NoDevice
  BY DEF TakeDown, Consistent, Exclusive
<1> QED
  BY <1>1 DEF Consistent, OwnChip, Exclusive, NothingLeftBehind, IsInit, MarksOf

LEMMA SameConsistent ==
  ASSUME Consistent, UNCHANGED <<mapped, cached, phys>>,
         IsInit => UNCHANGED <<row, idUnread>>
  PROVE  Consistent'
BY DEF Consistent, OwnChip, Exclusive, NothingLeftBehind, IsInit, phys, MarksOf

LEMMA NextConsistent == TypeOK /\ Consistent /\ [LibNext]_libVars => Consistent'
<1> SUFFICES ASSUME TypeOK, Consistent, [LibNext]_libVars PROVE Consistent'
  OBVIOUS
<1>1. ASSUME NEW card \in Cards, InitForeign(card) PROVE Consistent'
  <2>1. ~IsInit /\ UNCHANGED <<mapped, row, phys, idUnread>>
    BY <1>1 DEF InitForeign
  <2>2. Chip[cached'] = Foreign
    BY <1>1, LibAssumption DEF InitForeign, RowOf
  <2> QED
    BY <2>1, <2>2 DEF Consistent, OwnChip, Exclusive, NothingLeftBehind, IsInit, phys, MarksOf
<1>2. ASSUME NEW card \in Cards, InitNotMapped(card) PROVE Consistent'
  <2>1. ~IsInit /\ UNCHANGED <<mapped, phys>> /\ cached' = NoDevice
    BY <1>2 DEF InitNotMapped
  <2> QED
    BY <2>1 DEF Consistent, OwnChip, Exclusive, NothingLeftBehind, IsInit, phys, MarksOf
<1>3. ASSUME NEW card \in Cards, NEW mn \in BOOLEAN, InitUnusable(card, mn) PROVE Consistent'
  <2>1. ~IsInit
    BY <1>3 DEF InitUnusable
  <2>2. \/ UNCHANGED <<mapped, cached, phys>>
        \/ \E left : TakeDown(left)
    BY <1>3 DEF InitUnusable
  <2> QED
    BY <2>1, <2>2, SameConsistent, TakeDownConsistent
<1>4. CASE Uninit
  BY <1>4, TakeDownConsistent DEF Uninit
<1>5. CASE \/ OnlyReturns \/ LoopNext \/ LoopEnd \/ Shutdown \/ Dead \/ UNCHANGED libVars
           \/ \E op \in {"sync", "set"}, pipe \in Pipes \cup {AllPipes} : LoopStart(op, pipe)
  <2>1. UNCHANGED <<mapped, cached, phys, row, idUnread>>
    BY <1>5 DEF OnlyReturns, InitAgain, InitNotOpened, SyncRefused, Ask, LoopNext,
         LoopEnd, Shutdown, Dead, LoopStart, libVars
  <2> QED
    BY <2>1, SameConsistent
<1> QED
  BY <1>1, <1>2, <1>3, <1>4, <1>5, InitReadyConsistent DEF LibNext, OnlyReturns

\* Whatever calls a process makes and whatever of them fails (Consistent): the
\* PHYs are of the chip that is mapped, no PLL serves two, and vsync_lib_init
\* finds nothing left of an earlier one that a later call would trip over.
THEOREM AlwaysConsistent == LibSpec => []Consistent
<1>1. LibInit => Consistent
  BY DEF LibInit, Consistent, OwnChip, Exclusive, NothingLeftBehind, IsInit, MarksOf
<1> QED
  BY <1>1, NextConsistent, TypeCorrect, PTL DEF LibSpec

-----------------------------------------------------------------------------
(* The loop over the PHYs.                                                 *)

\* Each PHY the call is for is yet to come, programmed, or failed.
Tried ==
  loop.op # "none" => loop.todo \cup loop.done \cup loop.failed = Matching(loop.pipe)

\* The steps between two calls, and those that no call notices.
LEMMA OutsideLoop ==
  ASSUME [LibNext]_libVars,
         ~(\E op \in {"sync", "set"}, pipe \in Pipes \cup {AllPipes} : LoopStart(op, pipe)),
         ~LoopNext, ~LoopEnd
  PROVE  UNCHANGED loop /\ (loop.op # "none" => UNCHANGED list)
<1>1. CASE Uninit \/ \E card \in Cards, mn \in BOOLEAN : InitUnusable(card, mn)
  BY <1>1 DEF Uninit, InitUnusable, MayCall
<1>2. CASE \/ \E card \in Cards : InitForeign(card) \/ InitNotMapped(card)
           \/ \E card \in Cards, mn, ts \in BOOLEAN : InitReady(card, mn, ts)
  BY <1>2 DEF InitForeign, InitNotMapped, InitReady, MayCall
<1>3. CASE OnlyReturns \/ Shutdown \/ Dead \/ UNCHANGED libVars
  BY <1>3 DEF OnlyReturns, InitAgain, InitNotOpened, SyncRefused, Ask, Shutdown, Dead,
     libVars, phys
<1> QED
  BY <1>1, <1>2, <1>3 DEF LibNext, OnlyReturns

LEMMA NextTried == TypeOK /\ Tried /\ [LibNext]_libVars => Tried'
<1> SUFFICES ASSUME TypeOK, Tried, [LibNext]_libVars PROVE Tried'
  OBVIOUS
<1>1. ASSUME NEW op \in {"sync", "set"}, NEW pipe \in Pipes \cup {AllPipes},
             LoopStart(op, pipe)
      PROVE  Tried'
  <2>1. /\ UNCHANGED list
        /\ loop' = [op |-> op, pipe |-> pipe, todo |-> Matching(pipe), done |-> {},
                    failed |-> {}]
    BY <1>1 DEF LoopStart, phys
  <2> QED
    BY <2>1 DEF Tried, Matching
<1>2. CASE LoopNext
  <2>1. PICK x \in loop.todo :
          \/ loop' = [loop EXCEPT !.todo = @ \ {x}, !.done = @ \cup {x}]
          \/ loop' = [loop EXCEPT !.todo = @ \ {x}, !.failed = @ \cup {x}]
    BY <1>2 DEF LoopNext
  <2>2. UNCHANGED list /\ loop.op # "none"
    BY <1>2 DEF LoopNext, phys
  <2>3. loop \in [op : {"sync", "set"}, pipe : Pipes \cup {AllPipes},
                 todo : SUBSET PhyObjects, done : SUBSET PhyObjects,
                 failed : SUBSET PhyObjects]
    BY <2>2 DEF TypeOK, LoopTypes
  <2>4. loop.todo \cup loop.done \cup loop.failed = Matching(loop.pipe)
    BY <2>2 DEF Tried
  <2>5. /\ loop'.pipe = loop.pipe
        /\ loop'.todo \cup loop'.done \cup loop'.failed
             = loop.todo \cup loop.done \cup loop.failed
    <3>1. CASE loop' = [loop EXCEPT !.todo = @ \ {x}, !.done = @ \cup {x}]
      <4>1. /\ loop'.pipe = loop.pipe /\ loop'.todo = loop.todo \ {x}
            /\ loop'.done = loop.done \cup {x} /\ loop'.failed = loop.failed
        BY <2>3, <3>1
      <4> QED
        BY <4>1
    <3>2. CASE loop' = [loop EXCEPT !.todo = @ \ {x}, !.failed = @ \cup {x}]
      <4>1. /\ loop'.pipe = loop.pipe /\ loop'.todo = loop.todo \ {x}
            /\ loop'.failed = loop.failed \cup {x} /\ loop'.done = loop.done
        BY <2>3, <3>2
      <4> QED
        BY <4>1
    <3> QED
      BY <2>1, <3>1, <3>2
  <2> QED
    BY <2>2, <2>4, <2>5 DEF Tried, Matching
<1>3. CASE LoopEnd
  BY <1>3 DEF LoopEnd, Tried
<1>4. CASE UNCHANGED loop /\ (loop.op # "none" => UNCHANGED list)
  BY <1>4 DEF Tried, Matching
<1> QED
  BY <1>1, <1>2, <1>3, <1>4, OutsideLoop

\* synchronize_vsync and set_pll_clock end when every PHY they are for has been
\* programmed or has failed, and one that failed is in the result (EveryPhyTried).
THEOREM AllTried == LibSpec => EveryPhyTried
<1> DEFINE Ending == loop.op # "none" /\ loop'.op = "none" =>
                       /\ loop.done \cup loop.failed = Matching(loop.pipe)
                       /\ loop.failed # {} => last'.result = 1
<1>1. LibInit => Tried
  BY DEF LibInit, Tried
<1>2. TypeOK /\ Tried /\ [LibNext]_libVars => [Ending]_libVars
  <2> SUFFICES ASSUME TypeOK, Tried, [LibNext]_libVars, loop.op # "none", loop'.op = "none"
               PROVE  /\ loop.done \cup loop.failed = Matching(loop.pipe)
                      /\ loop.failed # {} => last'.result = 1
    OBVIOUS
  <2>1. ~LoopNext
    <3>1. SUFFICES ASSUME LoopNext PROVE FALSE
      OBVIOUS
    <3>2. loop'.op = loop.op
      <4>1. PICK x \in loop.todo :
              \/ loop' = [loop EXCEPT !.todo = @ \ {x}, !.done = @ \cup {x}]
              \/ loop' = [loop EXCEPT !.todo = @ \ {x}, !.failed = @ \cup {x}]
        BY <3>1 DEF LoopNext
      <4>2. loop \in [op : {"sync", "set"}, pipe : Pipes \cup {AllPipes},
                     todo : SUBSET PhyObjects, done : SUBSET PhyObjects,
                     failed : SUBSET PhyObjects]
        BY DEF TypeOK, LoopTypes
      <4> QED
        BY <4>1, <4>2
    <3> QED
      BY <3>2
  <2>2. ~(\E op \in {"sync", "set"}, pipe \in Pipes \cup {AllPipes} : LoopStart(op, pipe))
    BY DEF LoopStart, MayCall
  <2>3. LoopEnd
    BY <2>1, <2>2, OutsideLoop
  <2>4. loop.todo = {} /\ (loop.failed # {} => last'.result = 1)
    BY <2>3 DEF LoopEnd, Returned
  <2> QED
    BY <2>4 DEF Tried
<1> QED
  BY <1>1, <1>2, NextTried, TypeCorrect, PTL DEF LibSpec, EveryPhyTried

=============================================================================
