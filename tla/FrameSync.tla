------------------------------ MODULE FrameSync ------------------------------
(***************************************************************************)
(* framesync (framesync/primary.cpp, secondary.cpp): a primary tells the   *)
(* secondaries, by UDP multicast, which colour to show and from when on.   *)
(* Each of them, the primary included, sleeps until then and presents the  *)
(* colour at the next vblank of its own display.  swgenlock holds the      *)
(* displays' vblanks together up to a small skew.                          *)
(*                                                                         *)
(* Time passes in ticks, all times are relative to the present. A display  *)
(* has a vblank every Frame ticks; the clocks agree.  A thread that has    *)
(* nothing to wait for runs within Latency ticks; an update is in the      *)
(* secondary's queue within MaxDelay ticks, or lost.                       *)
(***************************************************************************)
EXTENDS Integers, Sequences

CONSTANTS
  Frame,       \* ticks from one vblank to the next
  Skews,       \* by how much the secondary's vblank may follow the primary's
  Aheads,      \* schedule_ahead_ms, in ticks
  Interval,    \* interval_ms, in ticks
  Buffer,      \* the pause after a vblank, 500 us
  Latency,
  MaxDelay,
  MaxUpdates   \* bound: the primary is closed after so many updates

ASSUME FrameAssumption ==
  /\ Frame \in Nat \ {0} /\ Buffer \in Nat \ {0}
  /\ Aheads \subseteq Nat \ {0}
  /\ Skews \subseteq Int /\ \A s \in Skews : -Frame < s /\ s < Frame
  /\ Interval \in Nat /\ Latency \in Nat /\ MaxDelay \in Nat /\ MaxUpdates \in Nat

Displays == {"primary", "secondary"}

VARIABLES
  skew, ahead,   \* constants of each behaviour
  phase,         \* ticks since the primary's vblank
  place,         \* where each main thread is
  left,          \* the ticks it still waits for
  lag,           \* the ticks it has been late
  update,        \* the sequence number of the update it works on
  shutdown,      \* g_shutdown of each process
  elapsed,       \* ticks since last_change_time, up to Interval
  sent,          \* sequence_num
  net,           \* the updates under way
  receiver,      \* whether receive_updates_thread runs
  queue,         \* g_pending_updates
  color,         \* the update each display shows
  age,           \* for how long, while the other shows another
  missed         \* the updates that each display will not show

\* The last three are history, kept while both processes run.

main == <<place, left, lag, update>>
history == <<color, age, missed>>
vars == <<skew, ahead, phase, main, shutdown, elapsed, sent, net, receiver,
          queue, history>>

Places == {"loop", "vblank", "buffer", "sleep", "present", "cleanup", "ended", "stuck"}
Out == {"cleanup", "ended", "stuck"}
MaxAge == 2 * Frame
Updates == 0 .. MaxUpdates
AtMost(a, b) == IF a < b THEN a ELSE b
LessOne(n) == IF n = 0 THEN 0 ELSE n - 1

VblankPhase(d) == IF d = "primary" THEN 0 ELSE skew % Frame

\* Variant: the second vblank from now, the present one included.
TicksToVblank_Second(d) == Frame + ((VblankPhase(d) - phase) % Frame)

\* A vblank that happens now has been missed.
TicksToVblank(d) ==
  LET ticks == (VblankPhase(d) - phase) % Frame
  IN  IF ticks = 0 THEN Frame ELSE ticks

\* d's main thread reaches a place where it has n ticks to wait.
Goto(d, where, n) ==
  /\ place' = [place EXCEPT ![d] = where]
  /\ left' = [left EXCEPT ![d] = n]
  /\ lag' = [lag EXCEPT ![d] = IF n = 0 THEN @ ELSE 0]

At(d, where) == place[d] = where /\ left[d] = 0

Running == \A d \in Displays : ~shutdown[d] /\ place[d] \notin Out

Never == [d \in Displays |-> 0]
Forget ==
  color' = Never /\ age' = Never /\ missed' = [d \in Displays |-> {}]

Init ==
  /\ skew \in Skews /\ ahead \in Aheads
  /\ phase = 0
  /\ place = [d \in Displays |-> "loop"]
  /\ left = [d \in Displays |-> 0]
  /\ lag = left
  /\ update = left
  /\ shutdown = [d \in Displays |-> FALSE]
  /\ elapsed = 0 /\ sent = 0
  /\ net = {} /\ receiver = "on" /\ queue = << >>
  /\ color = Never /\ age = Never
  /\ missed = [d \in Displays |-> {}]

\* Both leave their loop when g_shutdown is up or the window is closed; the
\* secondary then raises g_shutdown itself.
Quit(d) ==
  /\ Goto(d, "cleanup", 0)
  /\ shutdown' = [shutdown EXCEPT ![d] = @ \/ d = "secondary"]
  /\ Forget

-----------------------------------------------------------------------------
(* The main loops.                                                         *)

Leave(d) ==
  /\ At(d, "loop")
  /\ Quit(d)
  /\ UNCHANGED <<skew, ahead, phase, update, elapsed, sent, net, receiver, queue>>

\* The secondary has nothing to show, the primary looks at the time once a frame.
AwaitVblank(d) ==
  /\ At(d, "loop") /\ ~shutdown[d]
  /\ CASE d = "primary"   -> sent < MaxUpdates
       [] d = "secondary" -> queue = << >>
  /\ Goto(d, "vblank", TicksToVblank(d))
  /\ UNCHANGED <<skew, ahead, phase, update, shutdown, elapsed, sent, net,
                 receiver, queue, history>>

\* wait_for_vblank returns; a failure ends the loop.
Vblank(d) ==
  /\ At(d, "vblank")
  /\ \/ /\ IF d = "primary" THEN Goto(d, "buffer", Buffer) ELSE Goto(d, "loop", 0)
        /\ UNCHANGED <<shutdown, history>>
     \/ Quit(d)
  /\ UNCHANGED <<skew, ahead, phase, update, elapsed, sent, net, receiver, queue>>

\* Too early for the next colour.
TooEarly ==
  /\ At("primary", "buffer")
  /\ elapsed < Interval
  /\ Goto("primary", "loop", 0)
  /\ UNCHANGED <<skew, ahead, phase, update, shutdown, elapsed, sent, net,
                 receiver, queue, history>>

\* Variant: the primary goes on without waiting for the time it has announced.
Schedule_NoSleep ==
  /\ At("primary", "buffer")
  /\ elapsed >= Interval
  /\ sent' = sent + 1
  /\ net' = net \cup {[seq |-> sent', target |-> ahead, age |-> 0]}
  /\ update' = [update EXCEPT !["primary"] = sent']
  /\ Goto("primary", "present", TicksToVblank("primary"))
  /\ UNCHANGED <<skew, ahead, phase, shutdown, elapsed, receiver, queue, history>>

\* broadcast_color_update, and the sleep until the time it announces.
Schedule ==
  /\ At("primary", "buffer")
  /\ elapsed >= Interval
  /\ sent' = sent + 1
  /\ net' = net \cup {[seq |-> sent', target |-> ahead, age |-> 0]}
  /\ update' = [update EXCEPT !["primary"] = sent']
  /\ Goto("primary", "sleep", ahead)
  /\ UNCHANGED <<skew, ahead, phase, shutdown, elapsed, receiver, queue, history>>

\* Variant: it is to be shown at the next vblank.
TakeUpdate_AtOnce ==
  /\ At("secondary", "loop") /\ ~shutdown["secondary"]
  /\ queue # << >>
  /\ update' = [update EXCEPT !["secondary"] = Head(queue).seq]
  /\ queue' = Tail(queue)
  /\ Goto("secondary", "sleep", 0)
  /\ UNCHANGED <<skew, ahead, phase, shutdown, elapsed, sent, net, receiver,
                 history>>

\* The secondary takes an update from its queue. One that is late is shown all the
\* same: more than 50 ms are worth a warning only.
TakeUpdate ==
  /\ At("secondary", "loop") /\ ~shutdown["secondary"]
  /\ queue # << >>
  /\ update' = [update EXCEPT !["secondary"] = Head(queue).seq]
  /\ queue' = Tail(queue)
  /\ Goto("secondary", "sleep", Head(queue).target)
  /\ UNCHANGED <<skew, ahead, phase, shutdown, elapsed, sent, net, receiver,
                 history>>

Awake(d) ==
  /\ At(d, "sleep")
  /\ Goto(d, "present", TicksToVblank(d))
  /\ UNCHANGED <<skew, ahead, phase, update, shutdown, elapsed, sent, net,
                 receiver, queue, history>>

\* The colour is shown at the vblank, or not at all when waiting for it fails.
Present(d) ==
  /\ At(d, "present")
  /\ IF Running
     THEN \/ /\ color' = [color EXCEPT ![d] = update[d]]
             /\ age' = [age EXCEPT ![d] = 0]
             /\ UNCHANGED missed
          \/ /\ missed' = [missed EXCEPT ![d] = @ \cup {update[d]}]
             /\ UNCHANGED <<color, age>>
     ELSE UNCHANGED history
  /\ elapsed' = IF d = "primary" THEN 0 ELSE elapsed
  /\ Goto(d, "loop", 0)
  /\ UNCHANGED <<skew, ahead, phase, update, shutdown, sent, net, receiver, queue>>

\* The secondary joins its receiver thread; what the process remembers is gone.
End(d) ==
  /\ At(d, "cleanup")
  /\ d = "secondary" => receiver = "out"
  /\ place' = [place EXCEPT ![d] = "ended"]
  /\ lag' = [lag EXCEPT ![d] = 0]
  /\ update' = [update EXCEPT ![d] = 0]
  /\ queue' = IF d = "secondary" THEN << >> ELSE queue
  /\ UNCHANGED <<skew, ahead, phase, left, shutdown, elapsed, sent, net, receiver,
                 history>>

-----------------------------------------------------------------------------
(* The network and the receiver thread.                                    *)

\* While g_shutdown is down, or the message was there before it rose.
Receive(m) ==
  /\ receiver = "on"
  /\ net' = net \ {m}
  /\ queue' = Append(queue, [seq |-> m.seq, target |-> m.target])
  /\ receiver' = IF shutdown["secondary"] THEN "out" ELSE "on"
  /\ UNCHANGED <<skew, ahead, phase, main, shutdown, elapsed, sent, history>>

Lose(m) ==
  /\ net' = net \ {m}
  /\ missed' = IF Running THEN [missed EXCEPT !["secondary"] = @ \cup {m.seq}]
                ELSE missed
  /\ UNCHANGED <<skew, ahead, phase, main, shutdown, elapsed, sent, receiver,
                 queue, color, age>>

\* Variant: select has no time limit.
SelectTimeOut_Never ==
  /\ receiver = "on" /\ shutdown["secondary"]
  /\ UNCHANGED vars

\* select gives up after 100 ms, and the loop looks at g_shutdown.
SelectTimeOut ==
  /\ receiver = "on" /\ shutdown["secondary"]
  /\ receiver' = "out"
  /\ UNCHANGED <<skew, ahead, phase, main, shutdown, elapsed, sent, net, queue,
                 history>>

\* The signal interrupts the wait of one thread: a sleep or get_vsync returns
\* early, as if it had succeeded; select fails and the receiver ends.  Further signals
\* would only end further waits sooner.
Interrupted(d) ==
  /\ ~shutdown[d]
  /\ shutdown' = [shutdown EXCEPT ![d] = TRUE]
  /\ \/ left' = [left EXCEPT ![d] = 0] /\ UNCHANGED receiver
     \/ d = "secondary" /\ receiver' = "out" /\ UNCHANGED left
  /\ UNCHANGED <<place, lag>>

\* With -v info: signal_handler logs before it raises g_shutdown. A thread that was
\* itself inside log_message waits there for ever for the log_mutex it holds, and the
\* other stops at its next message.
Blocked(d) ==
  /\ left[d] = 0 \/ (d = "secondary" /\ receiver = "on")
  /\ place' = [place EXCEPT ![d] = "stuck"]
  /\ left' = [left EXCEPT ![d] = 0]
  /\ lag' = [lag EXCEPT ![d] = 0]
  /\ UNCHANGED <<shutdown, receiver>>

CtrlC(d) ==
  /\ place[d] \notin {"ended", "stuck"}
  /\ Interrupted(d) \/ Blocked(d)
  /\ Forget
  /\ UNCHANGED <<skew, ahead, phase, update, elapsed, sent, net, queue>>

-----------------------------------------------------------------------------

\* A thread that is neither waiting nor at its end has to run in time.
Busy(d) == left[d] = 0 /\ place[d] \notin Out

Tick ==
  /\ \A d \in Displays : Busy(d) => lag[d] < Latency
  /\ \A m \in net : m.age < MaxDelay
  /\ phase' = (phase + 1) % Frame
  /\ left' = [d \in Displays |-> LessOne(left[d])]
  /\ lag' = [d \in Displays |-> IF Busy(d) THEN lag[d] + 1 ELSE lag[d]]
  /\ elapsed' = AtMost(elapsed + 1, Interval)
  /\ net' = {[m EXCEPT !.target = LessOne(@), !.age = @ + 1] : m \in net}
  /\ queue' = [i \in DOMAIN queue |-> [queue[i] EXCEPT !.target = LessOne(@)]]
  /\ age' = IF color["primary"] = color["secondary"]
            THEN [d \in Displays |-> 0]
            ELSE [d \in Displays |-> AtMost(age[d] + 1, MaxAge)]
  /\ UNCHANGED <<skew, ahead, place, update, shutdown, sent, receiver, color, missed>>

Network == \E m \in net : Receive(m) \/ Lose(m)

Main(d) == AwaitVblank(d) \/ Vblank(d) \/ Awake(d) \/ Present(d) \/ End(d)

Next ==
  \/ \E d \in Displays : Main(d) \/ Leave(d) \/ CtrlC(d)
  \/ TooEarly \/ Schedule \/ TakeUpdate
  \/ Network \/ SelectTimeOut \/ Tick

Spec == Init /\ [][Next]_vars

\* The threads run, select times out, the network decides, and time goes on.
\* Nobody has to press Ctrl+C, or to close a window unless the bound demands it.
FairSpec ==
  /\ Spec
  /\ WF_vars(Tick) /\ WF_vars(Network) /\ WF_vars(SelectTimeOut)
  /\ WF_vars(TooEarly) /\ WF_vars(Schedule) /\ WF_vars(TakeUpdate)
  /\ \A d \in Displays : WF_vars(Main(d)) /\ WF_vars(Leave(d))

-----------------------------------------------------------------------------
(* Properties.                                                             *)

\* Nothing is waited for beyond its time, no thread is later and no update longer under
\* way than the timing allows, and only the primary has a pause (primary.cpp:166).
TypeOK ==
  /\ skew \in Skews /\ ahead \in Aheads
  /\ phase \in 0 .. Frame - 1
  /\ place \in [Displays -> Places] /\ place["secondary"] # "buffer"
  /\ left \in [Displays -> Nat]
  /\ lag \in [Displays -> 0 .. Latency]
  /\ update \in [Displays -> Updates]
  /\ shutdown \in [Displays -> BOOLEAN]
  /\ elapsed \in 0 .. Interval /\ sent \in Updates
  /\ net \subseteq [seq : Updates, target : Nat, age : 0 .. MaxDelay]
  /\ receiver \in {"on", "out"}
  /\ queue \in Seq([seq : Updates, target : Nat])
  /\ color \in [Displays -> Updates]
  /\ age \in [Displays -> 0 .. MaxAge]
  /\ missed \in [Displays -> SUBSET Updates]

Distance == IF skew < 0 THEN -skew ELSE skew

\* The announcement reaches the secondary's main thread, which may have gone to
\* wait for a vblank, before the announced time.
InTime == ahead >= Frame + MaxDelay + Latency

\* The announced time falls between the vblanks of both displays and the next
\* ones, however late the threads run.
BetweenVblanks ==
  LET from == (ahead + Buffer) % Frame
      to == from + 3 * Latency
  IN  /\ 0 < from /\ skew < from
      /\ to < Frame /\ to < Frame + skew

\* d shows an update, and for more than n ticks the other display does not.
Alone(d, other, n) ==
  /\ color[d] > color[other]
  /\ color[d] \notin missed[other]
  /\ age[d] > n

\* All displays change their colour at the same vblank (docs/framesync.md:11), up
\* to the skew of their vblanks, provided that the primary schedules far enough
\* ahead and not to the time of a vblank.
Simultaneous ==
  Running /\ InTime /\ BetweenVblanks =>
    /\ ~Alone("primary", "secondary", Distance + Latency)
    /\ ~Alone("secondary", "primary", Distance + Latency)

\* However short the time ahead, the secondary shows what it has received, one
\* frame after the primary at the latest, and its delay never builds up.
NeverFarBehind ==
  Running => ~Alone("primary", "secondary", Frame + Distance + Latency)

\* Nothing bounds the queue of the secondary but the pace of the primary: no update
\* arrives before the one before it has been shown, even if the interval is about a
\* frame, as it is by default.
NoBacklog ==
  Running /\ InTime /\ BetweenVblanks /\ place["secondary"] \in {"sleep", "present"} =>
    queue = << >>

\* Whatever Ctrl+C interrupts - a sleep, a wait for a vblank, the receiver's select -
\* once g_shutdown is up the process ends, the receiver thread joined, unless a signal
\* finds a thread inside log_message.
Ends == \A d \in Displays : shutdown[d] ~> place[d] \in {"ended", "stuck"}

=============================================================================
