------------------------------ MODULE PipeSync ------------------------------
(***************************************************************************)
(* One pipe's synchronisation loop on the secondary (swgenlock/            *)
(* secondary.cpp and pipe_sync_thread of main.cpp): measure the delta to   *)
(* the primary's vblanks, decide, correct, perhaps adjust the clock for    *)
(* good, sleep, again.  A second thread logs while a correction lasts.     *)
(*                                                                         *)
(* The display is a phase, how late the secondary's vblanks are, and a     *)
(* drift, how much later they get per iteration.  The PLL work itself is   *)
(* PhyControl's; here synchronize_vsync is refused or moves the phase.     *)
(*                                                                         *)
(* Units: a unit of time is a millisecond, an iteration takes a second.    *)
(***************************************************************************)
EXTENDS Integers, Sequences

CONSTANTS
  Period,        \* the vblank period of both displays
  Phases, Drifts,\* initial phases and drifts
  Lags,          \* vblanks the primary's answer may be later than the request
  Errors,        \* what a correction may miss its target by
  Threshold,     \* --delta
  TimePeriod,    \* --time_period, in iterations
  Learning,      \* effect of --learning_rate on the drift; 0 disables it
  OvershootNum, OvershootDen,    \* --overshoot_ratio
  MaxTimestamps, \* VSYNC_MAX_TIMESTAMPS
  FirstTimestamps, \* timestamps to capture in the first iteration
  MaxAge,        \* bound: iterations counted since the last synchronisation
  MaxCount       \* bound: the counters of PipeStats stop here

\* Variant: fewer extra timestamps.
NExtra_Fewer == 3

NExtra    == 5
TimeLimit == 20      \* synchronize_vsync refuses 20 ms and more
Tolerance == 35      \* CLOCK_SYNC_TOLERANCE_US

ASSUME PipeAssumption ==
  /\ Period \in Nat \ {0}
  /\ Phases \subseteq 0 .. Period - 1
  /\ Drifts \subseteq Int /\ Errors \subseteq Int
  /\ Lags \subseteq Nat
  /\ Threshold \in Nat /\ TimePeriod \in Nat /\ Learning \in Nat
  /\ OvershootNum \in Nat /\ OvershootDen \in Nat \ {0}
  /\ MaxTimestamps \in Nat /\ MaxTimestamps > NExtra + 1
  /\ FirstTimestamps \in 2 .. MaxTimestamps
  /\ MaxAge \in Nat /\ MaxAge > TimePeriod
  /\ MaxCount \in Nat /\ MaxCount > 1

VARIABLES
  phase, drift,  \* the display
  pc,            \* where the pipe's thread is
  timestamps,    \* how many vblanks this iteration captures
  stats,         \* g_pipe_stats of the pipe
  local,         \* the copy do_pipe_sync works on
  age,           \* time since stats.last_sync
  duration,      \* the age this correction started at
  delta,         \* the normalised delta
  logger,        \* the thread running background_task
  clientDone,    \* client_done and lib_client_done
  outRun         \* history: measurements out of sync in a row, none corrected

display == <<phase, drift>>
vars == <<display, pc, timestamps, stats, local, age, duration, delta, logger,
          clientDone, outRun>>

-----------------------------------------------------------------------------
(* The arithmetic of do_pipe_sync.                                         *)

Abs(x)     == IF x < 0 THEN -x ELSE x
Least(a, b) == IF a < b THEN a ELSE b
Count(n)   == Least(n, MaxCount)

\* The remainder of C: it has the sign of the dividend.
Rem(a, b) == IF a < 0 THEN -((-a) % b) ELSE a % b

\* find_minimum_delta: of the closest pairs, the one it meets first coming from
\* the ends of the two arrays.
FindMinimumDelta(primary, secondary) ==
  LET Diff(k) == secondary[k[1]] - primary[k[2]]
      pairs   == (1 .. Len(secondary)) \X (1 .. Len(primary))
      closest == {k \in pairs : \A m \in pairs : Abs(Diff(k)) <= Abs(Diff(m))}
  IN  Diff(CHOOSE k \in closest : \A m \in closest :
             m[1] < k[1] \/ (m[1] = k[1] /\ m[2] <= k[2]))

\* find_avg, of arrays with two timestamps at least: the sum telescopes.
FindAvg(va) == (va[Len(va)] - va[1]) \div (Len(va) - 1)

NormalizeDelta(d, avg) ==
  LET r == IF d # avg THEN Rem(d, avg) ELSE d
  IN  IF r > avg \div 2 THEN r - avg ELSE r

\* How many vblanks to capture, and how many to ask the primary for.
SecondaryCount == IF timestamps + NExtra > MaxTimestamps
                  THEN MaxTimestamps - NExtra ELSE timestamps
PrimaryCount   == Least(timestamps + NExtra, MaxTimestamps)

\* The vblanks of the two systems, the primary's answer lag periods late.
SecondaryVsync == [i \in 1 .. SecondaryCount |-> phase + i * Period]
PrimaryVsync(lag) ==
  [j \in 1 .. PrimaryCount |-> (SecondaryCount + lag - PrimaryCount + j) * Period]

OutOfSync == Threshold # 0 /\ Abs(delta) > Threshold

\* The overshoot, of a correction by delta_ms = -delta.
Overshoots == Learning = 0 \/ duration > TimePeriod
Adjusted == IF Overshoots
            THEN -(delta * (OvershootNum + OvershootDen)) ELSE -(delta * OvershootDen)

\* Variant: a tenth of the limit.
Accepted_Tenth(scaled, scale) == 10 * Abs(scaled) < TimeLimit * scale

\* synchronize_vsync's limit.
Accepted(scaled, scale) == Abs(scaled) < TimeLimit * scale

-----------------------------------------------------------------------------
(* The loop.                                                               *)

NewStats == [success |-> 0, syncs |-> 0, outOfSync |-> 0, continue |-> TRUE]

Init ==
  /\ phase \in Phases
  /\ drift \in Drifts
  /\ pc = "capture"
  /\ timestamps = FirstTimestamps
  /\ stats = NewStats
  /\ local = NewStats
  /\ age = 0
  /\ duration = 0
  /\ delta = 0
  /\ logger = "none"
  /\ clientDone = FALSE
  /\ outRun = 0

\* The part of do_pipe_sync that measures. A capture may fail, the clocks of the
\* systems may be too far apart; and an exchange that Ctrl+C cuts short leaves
\* the answer's buffer uninitialised.
Capture ==
  /\ pc = "capture"
  /\ local' = stats
  /\ \/ pc' = "exited" /\ UNCHANGED <<delta, outRun>>
     \/ \E lag \in Lags :
          LET raw == FindMinimumDelta(PrimaryVsync(lag), SecondaryVsync)
          IN  /\ delta' = NormalizeDelta(raw, FindAvg(SecondaryVsync))
              /\ IF Abs(raw) > Tolerance
                 THEN pc' = "exited" /\ UNCHANGED outRun
                 ELSE /\ pc' = "decide"
                      /\ outRun' = IF OutOfSync' THEN Count(outRun + 1) ELSE 0
     \/ /\ clientDone
        /\ delta' \in -(Period - 1) .. Period \div 2
        /\ pc' = "decide"
        /\ UNCHANGED outRun
  /\ UNCHANGED <<display, timestamps, stats, age, duration, logger, clientDone>>

\* In sync, or out of it for the first time.
LeaveAlone ==
  /\ pc = "decide"
  /\ \/ /\ ~OutOfSync
        /\ stats' = [local EXCEPT !.outOfSync = 0, !.success = Count(@ + 1)]
     \/ /\ OutOfSync
        /\ local.outOfSync + 1 < 2 /\ local.syncs > 1
        /\ stats' = [local EXCEPT !.outOfSync = @ + 1]
  /\ pc' = "sleep"
  /\ UNCHANGED <<display, timestamps, local, age, duration, delta, logger,
                 clientDone, outRun>>

\* Variant: any measurement out of sync is acted upon.
BeginSync_AtOnce ==
  /\ pc = "decide" /\ OutOfSync
  /\ local' = [local EXCEPT !.outOfSync = 0]
  /\ duration' = age
  /\ age' = 0
  /\ pc' = "spawn"
  /\ UNCHANGED <<display, timestamps, stats, delta, logger, clientDone, outRun>>

BeginSync ==
  /\ pc = "decide" /\ OutOfSync
  /\ local.outOfSync + 1 >= 2 \/ local.syncs <= 1
  /\ local' = [local EXCEPT !.outOfSync = 0]
  /\ duration' = age
  /\ age' = 0
  /\ pc' = "spawn"
  /\ UNCHANGED <<display, timestamps, stats, delta, logger, clientDone, outRun>>

-----------------------------------------------------------------------------
(* perform_synchronization.                                                *)

\* The flag is raised in the shared statistics, and the logger is started; when
\* that fails, the thread gives up and stores its copy.
Spawn ==
  /\ pc = "spawn"
  /\ \/ /\ stats' = [stats EXCEPT !.continue = TRUE]
        /\ logger' = "start"
        /\ pc' = "sync"
     \/ /\ stats' = local
        /\ pc' = "exited"
        /\ UNCHANGED logger
  /\ UNCHANGED <<display, timestamps, local, age, duration, delta, clientDone,
                 outRun>>

\* Variant: the secondary is moved away from the primary.
Synchronize_WrongWay ==
  /\ pc = "sync"
  /\ IF Accepted(Adjusted, OvershootDen)
     THEN \E e \in Errors : phase' = (phase - Adjusted \div OvershootDen + e) % Period
     ELSE UNCHANGED <<phase>>
  /\ outRun' = 0
  /\ pc' = "stop"
  /\ UNCHANGED <<drift, timestamps, stats, local, age, duration, delta, logger, clientDone>>

\* synchronize_vsync: a correction that is refused is not noticed. Ctrl+C may cut
\* it short, or keep it from starting.
Synchronize ==
  /\ pc = "sync"
  /\ \/ /\ ~Accepted(Adjusted, OvershootDen)
        /\ UNCHANGED <<phase>>
     \/ /\ Accepted(Adjusted, OvershootDen)
        /\ \E e \in Errors : phase' = (phase + Adjusted \div OvershootDen + e) % Period
     \/ clientDone /\ UNCHANGED <<phase>>
  /\ outRun' = 0
  /\ pc' = "stop"
  /\ UNCHANGED <<drift, timestamps, stats, local, age, duration, delta, logger, clientDone>>

\* Variant: the logger is joined without being told.
Stop_Silent ==
  /\ pc = "stop"
  /\ pc' = "join"
  /\ UNCHANGED <<display, timestamps, stats, local, age, duration, delta, logger,
                 clientDone, outRun>>

\* The logger is told to end.
Stop ==
  /\ pc = "stop"
  /\ stats' = [stats EXCEPT !.continue = FALSE]
  /\ pc' = "join"
  /\ UNCHANGED <<display, timestamps, local, age, duration, delta, logger,
                 clientDone, outRun>>

\* pthread_join.
Join ==
  /\ pc = "join"
  /\ logger = "over"
  /\ logger' = "none"
  /\ pc' = "learn"
  /\ UNCHANGED <<display, timestamps, stats, local, age, duration, delta,
                 clientDone, outRun>>

\* Variant: the end of the learning period still belongs to it.
Learns_AtTheEnd == Learning # 0 /\ local.syncs > 1 /\ duration <= TimePeriod

Learns == Learning # 0 /\ local.syncs > 1 /\ duration < TimePeriod

\* The permanent adjustment: a step of the size of the learning rate, against
\* the delta. After Ctrl+C set_pll_clock does nothing.
Learn ==
  /\ pc = "learn"
  /\ drift' = IF Learns /\ Accepted(delta, 1) /\ ~clientDone
              THEN IF delta > 0 THEN drift - Learning ELSE drift + Learning
              ELSE drift
  /\ pc' = "store"
  /\ UNCHANGED <<phase, timestamps, stats, local, age, duration, delta, logger,
                 clientDone, outRun>>

\* Back in do_pipe_sync: the copy, its thread_continue as it was loaded, becomes
\* the statistics.
Store ==
  /\ pc = "store"
  /\ stats' = [local EXCEPT !.success = 0, !.syncs = Count(@ + 1)]
  /\ age' = 0
  /\ pc' = "sleep"
  /\ UNCHANGED <<display, timestamps, local, duration, delta, logger, clientDone,
                 outRun>>

\* Variant: Ctrl+C takes the loop back to its sleep.
Sleep_Forever ==
  /\ pc = "sleep"
  /\ timestamps' = 2
  /\ phase' = (phase + drift) % Period
  /\ age' = Least(age + 1, MaxAge)
  /\ pc' = IF clientDone THEN "sleep" ELSE "capture"
  /\ UNCHANGED <<drift, stats, local, duration, delta, logger, clientDone, outRun>>

\* pipe_sync_thread sleeps, and the display drifts.
Sleep ==
  /\ pc = "sleep"
  /\ timestamps' = 2
  /\ phase' = (phase + drift) % Period
  /\ age' = Least(age + 1, MaxAge)
  /\ pc' = IF clientDone THEN "exited" ELSE "capture"
  /\ UNCHANGED <<drift, stats, local, duration, delta, logger, clientDone, outRun>>

-----------------------------------------------------------------------------
(* background_task, and Ctrl+C.                                            *)

\* It reads the flag once a second, and logs once more at its end.
LoggerStep ==
  /\ \/ /\ logger \in {"start", "loop"}
        /\ logger' = IF stats.continue THEN "loop" ELSE "last"
     \/ logger = "last" /\ logger' = "over"
  /\ UNCHANGED <<display, pc, timestamps, stats, local, age, duration, delta,
                 clientDone, outRun>>

CtrlC ==
  /\ ~clientDone /\ pc # "exited"
  /\ clientDone' = TRUE
  /\ UNCHANGED <<display, pc, timestamps, stats, local, age, duration, delta,
                 logger, outRun>>

Terminated == pc = "exited" /\ UNCHANGED vars

ThreadStep ==
  \/ Capture \/ LeaveAlone \/ BeginSync
  \/ Spawn \/ Synchronize \/ Stop \/ Join \/ Learn \/ Store
  \/ Sleep

Next == ThreadStep \/ LoggerStep \/ CtrlC \/ Terminated

Spec == Init /\ [][Next]_vars

(* Both threads are scheduled. *)
FairSpec == Spec /\ WF_vars(ThreadStep) /\ WF_vars(LoggerStep)

-----------------------------------------------------------------------------
(* Properties.                                                             *)

\* How far the vblanks of the two displays are apart.
Distance(x) == Least(x % Period, (-x) % Period)

\* The measured delta is the way to the primary's nearest vblank, even when the
\* answer is as late as the extra timestamps allow (secondary.cpp:54-66,109-125).
NearestVblank ==
  pc \in {"decide", "spawn", "sync"} /\ ~clientDone =>
    /\ (delta - phase) % Period = 0
    /\ Abs(delta) = Distance(phase)

\* Once two corrections have been made, a third needs two measurements out of
\* sync in a row: one late vblank does not move the clock (secondary.cpp:510-516).
NoHastySync ==
  [][pc = "decide" /\ pc' = "spawn" /\ stats.syncs > 1 /\ ~clientDone => outRun >= 2]_vars

\* A correction, overshoot included, never leaves the displays further apart than
\* they were, beyond the error of the correction itself.
NeverFurtherApart ==
  [][pc = "sync" /\ ~clientDone =>
       \E e \in Errors : Distance(phase') <= Distance(phase) + Abs(e)]_vars

\* The logger of one correction is gone before anything else happens, and while
\* it is waited for, its flag is down.
LoggerOfOneSync ==
  /\ logger # "none" => pc \in {"sync", "stop", "join"}
  /\ pc = "join" => ~stats.continue

\* A correction that has begun ends (secondary.cpp:216-239), and so does the loop
\* after Ctrl+C (main.cpp:61-81).
CorrectionsEnd ==
  /\ pc = "spawn" ~> pc \in {"sleep", "exited"}
  /\ clientDone ~> pc = "exited"

\* As soon as the drift goes above the threshold, the secondary resyncs with the
\* primary (docs/swgenlock.md:143).
InSync  == Distance(phase) <= Threshold
Resyncs == ~InSync ~> InSync \/ pc = "exited" \/ clientDone

\* Learning comes to an end, though its steps leave a drift they can only turn round:
\* corrections get needed no sooner than the learning period allows for
\* (README.md:261-268).  That takes steps small enough for the threshold and the
\* period: one that is not hunts around the primary's clock for ever.
LearningStabilises == <>[][UNCHANGED drift]_vars

=============================================================================
