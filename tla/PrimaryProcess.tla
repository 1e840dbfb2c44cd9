--------------------------- MODULE PrimaryProcess ---------------------------
(***************************************************************************)
(* The threads of a primary (swgenlock/primary.cpp) and how they end: the  *)
(* main thread that accepts clients, the collector of vblanks, the monitor *)
(* that writes what secondaries report, a thread for each client, and      *)
(* server_close_signal, the handler of SIGINT and SIGTERM.                 *)
(*                                                                         *)
(* The handler runs on a thread it has interrupted, which stands still     *)
(* from then on, with the locks it holds: the handler does not return.  It *)
(* joins the monitor, deletes the server that clients may be using, unmaps *)
(* the registers the collector may be reading, and calls exit, whose       *)
(* destructors take the collector's buffer away.  What a thread does with  *)
(* something that is gone is undefined: it may crash or go on.             *)
(*                                                                         *)
(* log_mutex matters where main holds it, for main is what a signal stops. *)
(* The others hold it for a moment only; that clients and the collector    *)
(* wait for it too is left out, because nobody waits for them.             *)
(*                                                                         *)
(* What is collected and sent is in VblankExchange.                        *)
(***************************************************************************)
EXTENDS Naturals, Sequences, Functions

CONSTANTS
  Clients,   \* client_handler threads there may be at a time
  Signals,   \* the signals that may come, in this order
  Modes,     \* the command lines: what is a PTP server, is monitored, ...
  NoOne

Threads  == {"main", "collector", "monitor"} \cup Clients
Contexts == Threads \cup Range(Signals)
First    == Signals[1]

ASSUME PrimaryAssumption ==
  /\ Signals \in Seq(STRING) /\ Len(Signals) > 0
  /\ Modes \subseteq [ptp : BOOLEAN, monitored : BOOLEAN, verbose : BOOLEAN, hwTs : BOOLEAN]
  /\ NoOne \notin Contexts
  /\ {"main", "collector", "monitor"} \cap Clients = {}
  /\ Threads \cap Range(Signals) = {} /\ IsInjective(Signals)

VARIABLES
  mode,        \* g_enable_monitoring, hardware_ts, the log level, TCP or PTP
  pc,          \* where each thread and each activation of the handler is
  host,        \* the thread, or activation, that each activation interrupted
  server,      \* the global pointer, and what it points to
  monitoring,  \* g_monitoring
  joinable,    \* g_monitor_thread
  collecting,  \* g_collecting
  log,         \* who holds log_mutex
  mapped,      \* the registers, as far as the collector reads them
  destroyed,   \* exit has destroyed g_vsync_buffer and g_monitor_csv
  end,         \* how the process has ended
  by           \* history: the context in which it ended

flags == <<server, monitoring, joinable, collecting, mapped, destroyed>>
vars  == <<mode, pc, host, flags, log, end, by>>

\* Where a context is on its way out.  main takes the first way once accept has
\* failed, the handler the second.
MainWay == <<"stop", "lower", "join", "stop_collecting", "uninit", "delete",
             "null", "destroy", "exit">>
HandlerWay_DeletesFirst == <<"log", "stop", "lower", "join", "delete", "null", "close",
                             "uninit", "destroy", "exit">>
HandlerWay == <<"log", "stop", "lower", "join", "close", "delete", "null",
                "uninit", "destroy", "exit">>
Way(c) == IF c = "main" THEN MainWay ELSE HandlerWay

\* The place that follows on the way.
Behind(c, place) ==
  LET i == CHOOSE i \in DOMAIN Way(c) : Way(c)[i] = place IN Way(c)[i + 1]

Signalled(s) == host[s] # NoOne
Running(c) == end = "running" /\ \A s \in Range(Signals) : host[s] # c
At(c, place) == Running(c) /\ pc[c] = place
Goto(c, place) == pc' = [pc EXCEPT ![c] = place]

\* A process that ends is not looked at any more.
Ends(c, how) == end' = how /\ by' = c /\ UNCHANGED <<mode, pc, host, flags, log>>
Survives == UNCHANGED <<mode, host, end, by>>

\* What is gone may or may not be noticed.
MayCrash(c, gone) == gone /\ Ends(c, "crashed")

Init ==
  /\ mode \in Modes
  /\ pc = [c \in Contexts |-> IF c = "main" THEN "server" ELSE "unborn"]
  /\ host = [s \in Range(Signals) |-> NoOne]
  /\ server = "closed"
  /\ monitoring = FALSE /\ joinable = FALSE /\ collecting = FALSE
  /\ mapped = TRUE /\ destroyed = FALSE
  /\ log = NoOne
  /\ end = "running" /\ by = NoOne

-----------------------------------------------------------------------------
(* do_primary, in the main thread.                                         *)

InitServer ==
  /\ At("main", "server")
  /\ server' = "open" /\ Goto("main", "start_collector")
  /\ Survives /\ UNCHANGED <<monitoring, joinable, collecting, mapped, destroyed, log>>

\* main goes on to uninitialise the library and delete the server; nothing else runs.
InitServerFails ==
  /\ At("main", "server")
  /\ server' = "null" /\ mapped' = FALSE /\ Goto("main", "destroy")
  /\ Survives /\ UNCHANGED <<monitoring, joinable, collecting, destroyed, log>>

\* The collector raises its flag itself; see CollectorStarts.
StartCollector ==
  /\ At("main", "start_collector")
  /\ pc' = [pc EXCEPT !["main"] = IF mode.monitored THEN "start_monitor" ELSE "sleep",
                      !["collector"] = "start"]
  /\ Survives /\ UNCHANGED <<flags, log>>

\* start_sync_monitor_thread: the flag, the thread, the variable it is kept in.
StartMonitor ==
  \/ /\ At("main", "start_monitor")
     /\ monitoring' = TRUE /\ Goto("main", "create_monitor")
     /\ UNCHANGED joinable
  \/ /\ At("main", "create_monitor")
     /\ pc' = [pc EXCEPT !["main"] = "keep_monitor", !["monitor"] = "hello"]
     /\ UNCHANGED <<monitoring, joinable>>
  \/ /\ At("main", "keep_monitor")
     /\ joinable' = TRUE /\ Goto("main", "sleep")
     /\ UNCHANGED monitoring

BuffersFill == At("main", "sleep") /\ Goto("main", "accept")

\* A PTP server has no connections: it accepts at once, and logs nothing.
Accept ==
  /\ At("main", "accept")
  /\ \/ ~mode.ptp /\ Goto("main", "await_log")
     \/ ~mode.ptp /\ Goto("main", "stop")
     \/ mode.ptp /\ Goto("main", "create_client")

\* log_message, for a new connection or for one without a thread: main may be
\* interrupted while it holds the lock.
Inside == {"in_log", "in_error"}

EnterLog ==
  /\ log = NoOne /\ log' = "main"
  /\ \/ At("main", "await_log") /\ Goto("main", "in_log")
     \/ At("main", "await_error") /\ Goto("main", "in_error")
  /\ Survives /\ UNCHANGED flags

LeaveLog_KeepsLock ==
  /\ \/ At("main", "in_log") /\ Goto("main", "create_client")
     \/ At("main", "in_error") /\ Goto("main", "accept")
  /\ Survives /\ UNCHANGED <<flags, log>>

LeaveLog ==
  /\ log' = NoOne
  /\ \/ At("main", "in_log") /\ Goto("main", "create_client")
     \/ At("main", "in_error") /\ Goto("main", "accept")
  /\ Survives /\ UNCHANGED flags

CreateClient ==
  /\ At("main", "create_client")
  /\ \/ Goto("main", "await_error")
     \/ \E c \in Clients :
          /\ pc[c] = "unborn"
          /\ pc' = [pc EXCEPT !["main"] = IF mode.ptp THEN "join_client" ELSE "accept",
                              ![c] = "receive"]

JoinClient ==
  /\ At("main", "join_client")
  /\ \A c \in Clients : pc[c] = "unborn"
  /\ Goto("main", "accept")

-----------------------------------------------------------------------------
(* The way out: the end of do_primary and of main, and server_close_signal *)
(* (c is "main" or an activation of the handler).                          *)

\* The handler's message is a debug message.
Announce(c) ==
  /\ At(c, "log") /\ (mode.verbose => log = NoOne)
  /\ Goto(c, "stop")
  /\ Survives /\ UNCHANGED <<flags, log>>

\* stop_sync_monitor_thread; do_primary calls it only with monitoring enabled.
Stop(c) ==
  /\ At(c, "stop")
  /\ Goto(c, IF monitoring /\ (c = "main" => mode.monitored) THEN "lower" ELSE Behind(c, "join"))
  /\ Survives /\ UNCHANGED <<flags, log>>

Lower_NoJoin(c) ==
  /\ At(c, "lower")
  /\ monitoring' = FALSE /\ Goto(c, Behind(c, "join"))
  /\ Survives /\ UNCHANGED <<server, joinable, collecting, mapped, destroyed, log>>

Lower_StaysUp(c) ==
  /\ At(c, "lower")
  /\ Goto(c, IF joinable THEN "join" ELSE Behind(c, "join"))
  /\ Survives /\ UNCHANGED <<flags, log>>

Lower(c) ==
  /\ At(c, "lower")
  /\ monitoring' = FALSE
  /\ Goto(c, IF joinable THEN "join" ELSE Behind(c, "join"))
  /\ Survives /\ UNCHANGED <<server, joinable, collecting, mapped, destroyed, log>>

\* A thread cannot join itself, nor be joined twice: std::thread throws.
JoinMonitor(c) ==
  /\ At(c, "join")
  /\ IF (c # "main" /\ host[c] = "monitor") \/ \E d \in Contexts \ {c} : pc[d] = "join"
     THEN Ends(c, "aborted")
     ELSE /\ pc["monitor"] = "done"
          /\ joinable' = FALSE /\ Goto(c, Behind(c, "join"))
          /\ Survives /\ UNCHANGED <<server, monitoring, collecting, mapped, destroyed, log>>

StopCollecting ==
  /\ At("main", "stop_collecting")
  /\ collecting' = FALSE /\ Goto("main", "uninit")
  /\ Survives /\ UNCHANGED <<server, monitoring, joinable, mapped, destroyed, log>>

CloseServer(c) ==
  /\ At(c, "close")
  /\ \/ MayCrash(c, server \in {"deleted", "null"})
     \/ /\ server # "null"
        /\ server' = IF server = "open" THEN "closed" ELSE server
        /\ Goto(c, Behind(c, "close"))
        /\ Survives /\ UNCHANGED <<monitoring, joinable, collecting, mapped, destroyed, log>>

\* delete does nothing to a null pointer.
DeleteServer(c) ==
  /\ At(c, "delete")
  /\ \/ MayCrash(c, server = "deleted")
     \/ /\ server' = IF server = "null" THEN "null" ELSE "deleted"
        /\ Goto(c, Behind(c, "delete"))
        /\ Survives /\ UNCHANGED <<monitoring, joinable, collecting, mapped, destroyed, log>>

ForgetServer(c) ==
  /\ At(c, "null")
  /\ server' = "null" /\ Goto(c, Behind(c, "null"))
  /\ Survives /\ UNCHANGED <<monitoring, joinable, collecting, mapped, destroyed, log>>

Uninit(c) ==
  /\ At(c, "uninit")
  /\ mapped' = FALSE /\ Goto(c, Behind(c, "uninit"))
  /\ Survives /\ UNCHANGED <<server, monitoring, joinable, collecting, destroyed, log>>

\* exit: the destructor of a thread that could still be joined aborts.
Destroy(c) ==
  /\ At(c, "destroy")
  /\ IF joinable
     THEN Ends(c, "aborted")
     ELSE /\ destroyed' = TRUE /\ Goto(c, "exit")
          /\ Survives /\ UNCHANGED <<server, monitoring, joinable, collecting, mapped, log>>

Exit(c) == At(c, "exit") /\ Ends(c, "exited")

WayOut(c) ==
  \/ Announce(c) \/ Stop(c) \/ Lower(c) \/ JoinMonitor(c) \/ CloseServer(c)
  \/ DeleteServer(c) \/ ForgetServer(c) \/ Uninit(c) \/ Destroy(c) \/ Exit(c)

-----------------------------------------------------------------------------
(* vsync_collector_thread.                                                 *)

CollectorStarts ==
  /\ At("collector", "start")
  /\ collecting' = TRUE /\ Goto("collector", "loop")
  /\ Survives /\ UNCHANGED <<server, monitoring, joinable, mapped, destroyed, log>>

\* get_vsync with hardware timestamps looks whether the registers are mapped, then
\* reads; otherwise it reads zeros.
Capture ==
  /\ \/ At("collector", "loop") /\ Goto("collector", IF collecting THEN "capture" ELSE "done")
     \/ At("collector", "capture") /\ Goto("collector", "loop")
     \/ /\ At("collector", "capture")
        /\ Goto("collector", IF mode.hwTs /\ mapped THEN "read" ELSE "push")
     \/ At("collector", "read") /\ mapped /\ Goto("collector", "push")
     \/ At("collector", "push") /\ Goto("collector", "loop")
  /\ Survives /\ UNCHANGED <<flags, log>>

CollectorCrashes ==
  \/ At("collector", "read") /\ MayCrash("collector", ~mapped)
  \/ At("collector", "push") /\ MayCrash("collector", destroyed)

-----------------------------------------------------------------------------
(* sync_monitor_thread_func.  Every place but "poll" logs.                 *)

NeedsLog == {"hello", "open", "socket", "bind", "complain", "goodbye"}

MonitorProceeds ==
  /\ \/ /\ log = NoOne
        /\ \/ At("monitor", "hello") /\ Goto("monitor", "open")
           \/ At("monitor", "open") /\ (Goto("monitor", "socket") \/ Goto("monitor", "done"))
           \/ At("monitor", "socket") /\ (Goto("monitor", "bind") \/ Goto("monitor", "done"))
           \/ At("monitor", "bind") /\ (Goto("monitor", "poll") \/ Goto("monitor", "done"))
           \/ At("monitor", "complain") /\ Goto("monitor", "poll")
           \/ At("monitor", "goodbye") /\ Goto("monitor", "done")
     \/ At("monitor", "poll") /\ ~monitoring /\ Goto("monitor", "goodbye")
  /\ Survives /\ UNCHANGED <<flags, log>>

\* A report is a row of the file; it is logged at the debug level, an error always.
MonitorReceives ==
  /\ At("monitor", "poll") /\ monitoring
  /\ Goto("monitor", "complain")
  /\ Survives /\ UNCHANGED <<flags, log>>

MonitorCrashes == pc["monitor"] \in NeedsLog /\ Running("monitor") /\ MayCrash("monitor", destroyed)

-----------------------------------------------------------------------------
(* client_handler and do_msg: each call of a method reads `server`.        *)

\* On a PTP server's own socket there is nothing to be had once it is closed.
ClientProceeds(c) ==
  /\ \/ /\ At(c, "receive") /\ server # "null"
        /\ Goto(c, "close") \/ (Goto(c, "received") /\ (mode.ptp => server = "open"))
     \/ At(c, "received") /\ (Goto(c, "send") \/ Goto(c, "close"))
     \/ /\ At(c, "send") /\ server # "null"
        /\ Goto(c, "close") \/ (Goto(c, "receive") /\ (mode.ptp => server = "open"))
     \/ At(c, "close") /\ Goto(c, "unborn")
  /\ Survives /\ UNCHANGED <<flags, log>>

ClientCrashes(c) ==
  \/ pc[c] \in {"receive", "send"} /\ Running(c) /\ MayCrash(c, server \in {"deleted", "null"})
  \/ At(c, "received") /\ MayCrash(c, destroyed)

-----------------------------------------------------------------------------
(* Signals.  The first finds the main thread, which the kernel prefers.    *)
(* A second one is the other signal, on top of the first handler, or the   *)
(* same one, which main blocks, on another thread.                         *)

Armed == pc["collector"] # "unborn" \/ pc["main"] = "start_collector"

Signal(i) ==
  LET s == Signals[i] IN
  /\ end = "running" /\ Armed /\ ~Signalled(s)
  /\ i > 1 => Signalled(Signals[i - 1])
  /\ \E h \in IF i = 1 THEN {"main"} ELSE {Signals[i - 1], "collector", "monitor"} :
       /\ Running(h) /\ pc[h] \notin {"unborn", "done"}
       /\ host' = [host EXCEPT ![s] = h]
  /\ Goto(s, "log")
  /\ UNCHANGED <<mode, flags, log, end, by>>

MainProceeds ==
  \/ InitServer \/ InitServerFails \/ StartCollector \/ EnterLog \/ LeaveLog \/ StopCollecting
  \/ (BuffersFill \/ Accept \/ CreateClient \/ JoinClient) /\ Survives /\ UNCHANGED <<flags, log>>
  \/ StartMonitor /\ Survives /\ UNCHANGED <<server, collecting, mapped, destroyed, log>>

Next ==
  \/ MainProceeds
  \/ \E c \in {"main"} \cup Range(Signals) : WayOut(c)
  \/ CollectorStarts \/ Capture \/ CollectorCrashes
  \/ MonitorProceeds \/ MonitorReceives \/ MonitorCrashes
  \/ \E c \in Clients : ClientProceeds(c) \/ ClientCrashes(c)
  \/ \E i \in DOMAIN Signals : Signal(i)

Spec == Init /\ [][Next]_vars

\* The threads that run are scheduled, log_message returns.
Fairness ==
  /\ \A c \in {"main"} \cup Range(Signals) : WF_vars(WayOut(c))
  /\ WF_vars(StopCollecting) /\ WF_vars(LeaveLog) /\ WF_vars(MonitorProceeds)

FairSpec == Spec /\ Fairness

-----------------------------------------------------------------------------
(* Properties.                                                             *)

Closing == pc["main"] \in Range(MainWay)
Repeated == Len(Signals) > 1 /\ Signalled(Signals[2])

\* Every variable has the type of what it stands for. log_mutex is held exactly while
\* its owner is inside log_message, and there is a thread to join once it is created.
TypeOK ==
  /\ mode \in Modes
  /\ DOMAIN pc = Contexts
  /\ host \in [Range(Signals) -> Contexts \cup {NoOne}]
  /\ server \in {"open", "closed", "deleted", "null"}
  /\ monitoring \in BOOLEAN /\ joinable \in BOOLEAN /\ collecting \in BOOLEAN
  /\ mapped \in BOOLEAN /\ destroyed \in BOOLEAN
  /\ log = IF pc["main"] \in Inside THEN "main" ELSE NoOne
  /\ end \in {"running", "exited", "crashed", "aborted"}
  /\ by \in Contexts \cup {NoOne}
  /\ joinable => pc["monitor"] # "unborn"

\* Whoever deletes the server has waited for the monitor (stop_sync_monitor_thread):
\* at the first signal, and also when accept fails, its file is closed and its last
\* message written before the server goes - unless the signal caught main when it
\* had not kept the thread yet, or was joining it itself.
MonitorJoined ==
  server \in {"deleted", "null"} /\ ~Repeated =>
    \/ pc["monitor"] \in {"unborn", "done"}
    \/ Signalled(First) /\ pc["main"] \in {"keep_monitor", "join"}

\* server_close_signal and the end of main never die themselves of a single signal,
\* nor does the monitor - unless main was ending by itself, or starting the monitor.
\* A client's thread dies only because the server is deleted under it, the collector
\* only because of exit or, with hardware timestamps, of vsync_lib_uninit.
DiesOnlyIf ==
  end \in {"crashed", "aborted"} /\ ~Repeated =>
    \/ by \in Clients /\ server \in {"deleted", "null"}
    \/ by = "collector" /\ (destroyed \/ (mode.hwTs /\ ~mapped))
    \/ Signalled(First) /\ (Closing \/ (by = "monitor" /\ pc["main"] = "keep_monitor"))

\* An activation of the handler that cannot go on, because log_mutex is not free.
Waits(s) ==
  \/ pc[s] = "log" /\ mode.verbose
  \/ pc[s] = "join" /\ pc["monitor"] \in NeedsLog

\* The deadlock there is: the handler has interrupted main inside log_message.
Stuck ==
  /\ log = "main"
  /\ \A s \in Range(Signals) : Signalled(s) /\ Running(s) => Waits(s)

\* A primary that is told to stop, or that cannot accept any more, ends, whatever the
\* other threads are doing, unless it is Stuck; from some of that a second Ctrl+C
\* still frees it (stop_sync_monitor_thread, called again, does not wait again).
ShutdownEnds ==
  (\E s \in Range(Signals) : Signalled(s)) \/ Closing ~> end # "running" \/ Stuck

=============================================================================
