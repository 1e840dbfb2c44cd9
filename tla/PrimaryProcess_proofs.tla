----------------------- MODULE PrimaryProcess_proofs -----------------------
(***************************************************************************)
(* Proofs about PrimaryProcess: who may have run how far when the server   *)
(* goes, and what a single signal may kill, for any number of clients, any *)
(* command lines and any signals.                                          *)
(***************************************************************************)
EXTENDS PrimaryProcess, TLAPS

-----------------------------------------------------------------------------
(* The inductive invariant.                                                *)

Handlers == Range(Signals)

\* The places inside log_message are looked into everywhere.
USE DEF Inside

\* main until it has created the monitor, while it serves, on its way out.
Starting == {"server", "start_collector", "start_monitor", "create_monitor"}
Serving  == {"sleep", "accept", "await_log", "in_log", "create_client", "await_error",
             "in_error", "join_client", "stop", "lower"}
Leaving  == {"stop_collecting", "uninit", "delete", "null", "destroy", "exit"}

\* The handler before it has stopped the monitor, and after.
Coming == {"unborn", "log", "stop", "lower"}
Gone   == {"close", "delete", "null", "uninit", "destroy", "exit"}

PlacesOK ==
  /\ pc["main"] \in Starting \cup Serving \cup Leaving \cup {"keep_monitor", "join"}
  /\ pc["collector"] \in {"unborn", "start", "loop", "capture", "read", "push", "done"}
  /\ pc["monitor"] \in {"unborn", "hello", "open", "socket", "bind", "poll", "complain",
                        "goodbye", "done"}
  /\ \A c \in Clients : pc[c] \in {"unborn", "receive", "received", "send", "close"}
  /\ \A s \in Handlers : pc[s] \in Coming \cup {"join"} \cup Gone
  /\ pc["collector"] = "read" => mode.hwTs
  /\ pc["main"] = "keep_monitor" => pc["monitor"] # "unborn"

\* The first signal stops main, and until the second no other has come.
HostsOK ==
  /\ \A s \in Handlers : pc[s] = "unborn" <=> host[s] = NoOne
  /\ host[First] \in {NoOne, "main"}
  /\ ~Repeated => \A s \in Handlers \ {First} : host[s] = NoOne

Quiet == pc["monitor"] \in {"unborn", "done"}

\* How far main, which stands still once there is a handler, has come with the
\* monitor.
MainOK ==
  /\ ~mode.monitored =>
       /\ pc["monitor"] = "unborn"
       /\ pc["main"] \notin {"start_monitor", "create_monitor", "keep_monitor", "lower", "join"}
  /\ pc["main"] \in Starting => pc["monitor"] = "unborn"
  /\ pc["main"] \in Leaving => Quiet

\* What the handler finds, and what it leaves.
HandlerOK ==
  /\ pc[First] \in Coming =>
       /\ monitoring <=> mode.monitored
                           /\ pc["main"] \in {"create_monitor", "keep_monitor"} \cup Serving
       /\ joinable <=> mode.monitored /\ pc["main"] \in {"join"} \cup Serving
  /\ pc[First] = "lower" => monitoring
  /\ pc[First] = "join" => joinable /\ pc["main"] \in Serving
  /\ pc[First] \in {"join"} \cup Gone => ~monitoring
  /\ pc[First] \in Gone =>
       /\ Quiet \/ pc["main"] \in {"keep_monitor", "join"}
       /\ joinable => pc["main"] = "join"

\* Who has deleted the server, and taken the globals down.
ServerOK ==
  /\ server \in {"deleted", "null"} =>
       pc["main"] \in {"null", "destroy", "exit"}
         \/ pc[First] \in {"null", "uninit", "destroy", "exit"}
  /\ pc["main"] \in {"destroy", "exit"} \/ pc[First] \in {"uninit", "destroy", "exit"} =>
       server = "null"
  /\ destroyed => pc["main"] = "exit" \/ pc[First] = "exit"

PrimaryInv ==
  /\ TypeOK /\ PlacesOK /\ HostsOK
  /\ ~Repeated => MainOK /\ HandlerOK /\ ServerOK /\ DiesOnlyIf

-----------------------------------------------------------------------------
(* Names and ways.                                                         *)

\* The contexts are different things.
LEMMA Names ==
  /\ First \in Handlers /\ Handlers \subseteq Contexts /\ Clients \subseteq Contexts
  /\ {"main", "collector", "monitor"} \subseteq Contexts
  /\ Contexts = {"main", "collector", "monitor"} \cup Clients \cup Handlers
  /\ {"main", "collector", "monitor"} \cap Clients = {}
  /\ ({"main", "collector", "monitor"} \cup Clients) \cap Handlers = {}
  /\ NoOne \notin Contexts
<1>1. Signals \in Seq(STRING) /\ Len(Signals) > 0
  BY PrimaryAssumption DEF PrimaryAssumption
<1>2. 1 \in DOMAIN Signals
  BY <1>1
<1>3. First \in Handlers
  BY <1>2 DEF First, Handlers, Range
<1> QED
  BY <1>3, PrimaryAssumption DEF PrimaryAssumption, Contexts, Threads, Handlers

\* The signals, in their order.
LEMMA SignalNames ==
  ASSUME NEW i \in DOMAIN Signals
  PROVE  /\ i \in Nat \ {0} /\ Signals[i] \in Handlers
         /\ Signals[i] = First <=> i = 1
         /\ i > 1 => Len(Signals) > 1 /\ i - 1 \in DOMAIN Signals /\ 2 \in DOMAIN Signals
<1>1. Signals \in Seq(STRING) /\ Len(Signals) \in Nat /\ DOMAIN Signals = 1 .. Len(Signals)
  BY PrimaryAssumption DEF PrimaryAssumption
<1>2. i \in Nat \ {0} /\ 1 \in DOMAIN Signals
  BY <1>1
<1>3. Signals[i] \in Handlers
  BY DEF Handlers, Range
<1>4. Signals[i] = First <=> i = 1
  BY <1>2, PrimaryAssumption DEF PrimaryAssumption, IsInjective, First
<1> QED
  BY <1>1, <1>2, <1>3, <1>4

\* The place that follows, on main's way and on the handler's.
LEMMA MainBehind ==
  ASSUME NEW c, c = "main"
  PROVE  /\ Behind(c, "join") = "stop_collecting"
         /\ Behind(c, "uninit") = "delete"
         /\ Behind(c, "delete") = "null"
         /\ Behind(c, "null") = "destroy"
<1>1. Way(c) = <<"stop", "lower", "join", "stop_collecting", "uninit", "delete",
                      "null", "destroy", "exit">>
  BY DEF Way, MainWay
<1> DEFINE w == Way(c)
<1>2. ASSUME NEW k \in DOMAIN w, NEW place, w[k] = place,
             \A i \in DOMAIN w : w[i] = place => i = k
      PROVE  Behind(c, place) = w[k + 1]
  <2>1. (CHOOSE i \in DOMAIN w : w[i] = place) = k
    BY <1>2
  <2> QED
    BY <2>1 DEF Behind
<1>3. /\ DOMAIN w = 1 .. 9
      /\ w[1] = "stop" /\ w[2] = "lower" /\ w[3] = "join" /\ w[4] = "stop_collecting"
      /\ w[5] = "uninit" /\ w[6] = "delete" /\ w[7] = "null" /\ w[8] = "destroy"
      /\ w[9] = "exit"
  BY <1>1
<1> HIDE DEF w
<1>4. \A k \in DOMAIN w : \A i \in DOMAIN w : w[i] = w[k] => i = k
  BY <1>3
<1>5. \A k \in DOMAIN w : Behind(c, w[k]) = w[k + 1]
  BY <1>2, <1>4
<1> QED
  BY <1>3, <1>5

LEMMA HandlerBehind ==
  ASSUME NEW c, c # "main"
  PROVE  /\ Behind(c, "join") = "close"
         /\ Behind(c, "close") = "delete"
         /\ Behind(c, "delete") = "null"
         /\ Behind(c, "null") = "uninit"
         /\ Behind(c, "uninit") = "destroy"
<1>1. Way(c) = <<"log", "stop", "lower", "join", "close", "delete", "null",
                 "uninit", "destroy", "exit">>
  BY DEF Way, HandlerWay
<1> DEFINE w == Way(c)
<1>2. ASSUME NEW k \in DOMAIN w, NEW place, w[k] = place,
             \A i \in DOMAIN w : w[i] = place => i = k
      PROVE  Behind(c, place) = w[k + 1]
  <2>1. (CHOOSE i \in DOMAIN w : w[i] = place) = k
    BY <1>2
  <2> QED
    BY <2>1 DEF Behind
<1>3. /\ DOMAIN w = 1 .. 10
      /\ w[1] = "log" /\ w[2] = "stop" /\ w[3] = "lower" /\ w[4] = "join"
      /\ w[5] = "close" /\ w[6] = "delete" /\ w[7] = "null" /\ w[8] = "uninit"
      /\ w[9] = "destroy" /\ w[10] = "exit"
  BY <1>1
<1> HIDE DEF w
<1>4. \A k \in DOMAIN w : \A i \in DOMAIN w : w[i] = w[k] => i = k
  BY <1>3
<1>5. \A k \in DOMAIN w : Behind(c, w[k]) = w[k + 1]
  BY <1>2, <1>4
<1> QED
  BY <1>3, <1>5

LEMMA GotoPlace ==
  ASSUME TypeOK, NEW c \in Contexts, NEW place, Goto(c, place)
  PROVE  /\ DOMAIN pc' = Contexts /\ pc'[c] = place
         /\ \A d \in Contexts \ {c} : pc'[d] = pc[d]
  BY DEF TypeOK, Goto

-----------------------------------------------------------------------------
(* Who can take a step.                                                    *)

LEMMA MainRuns ==
  ASSUME PrimaryInv, Running("main")
  PROVE  host[First] = NoOne /\ pc[First] = "unborn"
  BY Names DEF PrimaryInv, HostsOK, Running, Handlers

\* Until the second signal, a handler that runs is the first's, and main stands still.
LEMMA HandlerRuns ==
  ASSUME PrimaryInv, NEW s \in Handlers, pc[s] # "unborn", ~Repeated
  PROVE  s = First /\ host[First] = "main" /\ Signalled(First)
  BY Names DEF PrimaryInv, HostsOK, Signalled

-----------------------------------------------------------------------------
(* The beginning, the end, and the threads that stop nobody.               *)

LEMMA ModeType ==
  ASSUME TypeOK
  PROVE  /\ mode.ptp \in BOOLEAN /\ mode.monitored \in BOOLEAN
         /\ mode.verbose \in BOOLEAN /\ mode.hwTs \in BOOLEAN
  BY PrimaryAssumption DEF PrimaryAssumption, TypeOK

LEMMA InitInv == Init => PrimaryInv
<1> SUFFICES ASSUME Init PROVE PrimaryInv
  OBVIOUS
<1>1. /\ DOMAIN pc = Contexts /\ pc["main"] = "server"
      /\ \A c \in Contexts \ {"main"} : pc[c] = "unborn"
      /\ \A s \in Handlers : host[s] = NoOne
      /\ host \in [Handlers -> Contexts \cup {NoOne}]
  BY Names DEF Init, Handlers
<1>2. \A s \in Handlers : pc[s] = "unborn" /\ s # "main"
  BY <1>1, Names
<1>3. TypeOK
  BY <1>1, Names DEF TypeOK, Init, Handlers
<1>4. PlacesOK
  BY <1>1, <1>2, Names DEF PlacesOK, Starting, Coming
<1>5. HostsOK
  BY <1>1, <1>2, Names DEF HostsOK
<1>6. /\ pc["monitor"] = "unborn" /\ pc[First] = "unborn"
      /\ monitoring = FALSE /\ joinable = FALSE /\ destroyed = FALSE
      /\ server = "closed" /\ end = "running"
  BY <1>1, <1>2, Names DEF Init
<1>7. MainOK /\ HandlerOK
  BY <1>1, <1>6 DEF MainOK, HandlerOK, Quiet, Starting, Serving, Leaving, Coming, Gone
<1>8. ServerOK /\ DiesOnlyIf
  BY <1>1, <1>6 DEF ServerOK, DiesOnlyIf
<1> QED
  BY <1>3, <1>4, <1>5, <1>7, <1>8 DEF PrimaryInv

\* The process ends: nothing changes but how.
LEMMA EndInv ==
  ASSUME PrimaryInv, NEW c \in Contexts, NEW how \in {"exited", "crashed", "aborted"},
         Ends(c, how),
         how # "exited" /\ ~Repeated =>
           \/ c \in Clients /\ server \in {"deleted", "null"}
           \/ c = "collector" /\ (destroyed \/ (mode.hwTs /\ ~mapped))
           \/ Signalled(First) /\ (Closing \/ (c = "monitor" /\ pc["main"] = "keep_monitor"))
  PROVE  PrimaryInv'
<1>1. UNCHANGED <<mode, pc, host, server, monitoring, joinable, collecting, mapped, destroyed, log>>
      /\ end' = how /\ by' = c
  BY DEF Ends, flags
<1>2. (Repeated' <=> Repeated) /\ (Closing' <=> Closing) /\ (Signalled(First)' <=> Signalled(First))
  BY <1>1 DEF Repeated, Closing, Signalled
<1>3. TypeOK'
  BY <1>1 DEF PrimaryInv, TypeOK
<1>4. PlacesOK' /\ HostsOK'
  BY <1>1, <1>2 DEF PrimaryInv, PlacesOK, HostsOK
<1>5. ~Repeated' => MainOK' /\ HandlerOK' /\ ServerOK'
  BY <1>1, <1>2 DEF PrimaryInv, MainOK, HandlerOK, ServerOK, Quiet
<1>6. ~Repeated' => DiesOnlyIf'
  BY <1>1, <1>2 DEF DiesOnlyIf
<1> QED
  BY <1>3, <1>4, <1>5, <1>6 DEF PrimaryInv

\* A step of a thread that is neither main nor a handler.
LEMMA ThreadInv ==
  ASSUME PrimaryInv, end = "running", Survives,
         UNCHANGED <<server, monitoring, joinable, mapped, destroyed, log>>,
         collecting' \in BOOLEAN,
         NEW c \in {"collector", "monitor"} \cup Clients, NEW place, Goto(c, place),
         c = "collector" =>
           /\ place \in {"loop", "capture", "read", "push", "done"}
           /\ place = "read" => mode.hwTs,
         c = "monitor" =>
           /\ pc[c] \notin {"unborn", "done"}
           /\ place \in {"open", "socket", "bind", "poll", "complain", "goodbye", "done"},
         c \in Clients => place \in {"unborn", "receive", "received", "send", "close"}
  PROVE  PrimaryInv'
<1>1. TypeOK /\ PlacesOK /\ HostsOK /\ c \in Contexts /\ c \notin Handlers /\ c # "main"
  BY Names DEF PrimaryInv
<1>2. /\ DOMAIN pc' = Contexts /\ pc'[c] = place
      /\ \A d \in Contexts \ {c} : pc'[d] = pc[d]
  BY <1>1, GotoPlace
<1>3. /\ pc'["main"] = pc["main"] /\ pc'[First] = pc[First]
      /\ \A s \in Handlers : pc'[s] = pc[s]
  BY <1>1, <1>2, Names
<1>4. /\ UNCHANGED <<mode, host, end, by>>
      /\ (Repeated' <=> Repeated)
  BY DEF Survives, Repeated, Signalled
<1>5. TypeOK'
  <2>1. joinable => pc'["monitor"] # "unborn"
    BY <1>1, <1>2, Names DEF TypeOK
  <2> QED
    BY <1>1, <1>2, <1>3, <1>4, <2>1 DEF TypeOK
<1>6. PlacesOK'
  <2>1. /\ pc'["collector"] \in {"unborn", "start", "loop", "capture", "read", "push", "done"}
        /\ pc'["collector"] = "read" => mode.hwTs
    BY <1>1, <1>2, Names DEF PlacesOK
  <2>2. pc'["monitor"] \in {"unborn", "hello", "open", "socket", "bind", "poll", "complain",
                            "goodbye", "done"}
    BY <1>1, <1>2, Names DEF PlacesOK
  <2>3. pc["monitor"] # "unborn" => pc'["monitor"] # "unborn"
    BY <1>1, <1>2, Names
  <2>4. \A d \in Clients : pc'[d] \in {"unborn", "receive", "received", "send", "close"}
    BY <1>1, <1>2, Names DEF PlacesOK
  <2> QED
    BY <1>1, <1>3, <1>4, <2>1, <2>2, <2>3, <2>4 DEF PlacesOK
<1>7. HostsOK'
  BY <1>1, <1>3, <1>4 DEF HostsOK
<1>8. ASSUME ~Repeated PROVE MainOK' /\ HandlerOK' /\ ServerOK' /\ DiesOnlyIf'
  <2>1. MainOK /\ HandlerOK /\ ServerOK
    BY <1>8 DEF PrimaryInv
  <2>2. pc'["monitor"] = pc["monitor"] \/ (pc["monitor"] \notin {"unborn", "done"})
    BY <1>2, Names
  <2>3. Quiet => Quiet' /\ pc'["monitor"] = pc["monitor"]
    BY <2>2 DEF Quiet
  <2>4. MainOK'
    BY <1>3, <1>4, <2>1, <2>2, <2>3 DEF MainOK, Quiet
  <2>5. HandlerOK'
    BY <1>3, <1>4, <2>1, <2>3 DEF HandlerOK
  <2>6. ServerOK' /\ DiesOnlyIf'
    BY <1>3, <1>4, <2>1 DEF ServerOK, DiesOnlyIf
  <2> QED
    BY <2>4, <2>5, <2>6
<1> QED
  BY <1>4, <1>5, <1>6, <1>7, <1>8 DEF PrimaryInv

LEMMA CollectorInv ==
  ASSUME PrimaryInv, CollectorStarts \/ Capture \/ CollectorCrashes
  PROVE  PrimaryInv'
<1>0. /\ TypeOK /\ PlacesOK /\ mode.hwTs \in BOOLEAN
      /\ "collector" \in Contexts /\ "collector" \notin Clients
  BY ModeType, Names DEF PrimaryInv
<1>1. CASE CollectorStarts
  <2>1. /\ end = "running" /\ Survives /\ Goto("collector", "loop")
        /\ UNCHANGED <<server, monitoring, joinable, mapped, destroyed, log>>
    BY <1>1 DEF CollectorStarts, At, Running
  <2>2. collecting' \in BOOLEAN
    BY <1>1 DEF CollectorStarts
  <2> QED
    BY <1>0, <2>1, <2>2, ThreadInv, SMT
<1>2. CASE Capture
  <2>1. /\ end = "running" /\ Survives
        /\ UNCHANGED <<server, monitoring, joinable, collecting, mapped, destroyed, log>>
    BY <1>2 DEF Capture, At, Running, flags
  <2>2. PICK place \in {"loop", "capture", "read", "push", "done"} :
               Goto("collector", place) /\ (place = "read" => mode.hwTs)
    BY <1>0, <1>2 DEF Capture
  <2>3. collecting' \in BOOLEAN
    BY <1>0, <2>1 DEF TypeOK
  <2> QED
    BY <1>0, <2>1, <2>2, <2>3, ThreadInv, SMT
<1>3. CASE CollectorCrashes
  <2>1. /\ Ends("collector", "crashed")
        /\ destroyed \/ (mode.hwTs /\ ~mapped)
    BY <1>0, <1>3 DEF CollectorCrashes, MayCrash, At, PlacesOK
  <2> QED
    BY <1>0, <2>1, EndInv
<1> QED
  BY <1>1, <1>2, <1>3

LEMMA MonitorInv ==
  ASSUME PrimaryInv, MonitorProceeds \/ MonitorReceives \/ MonitorCrashes
  PROVE  PrimaryInv'
<1>0. TypeOK /\ "monitor" \in Contexts /\ "monitor" \notin Clients
  BY Names DEF PrimaryInv
<1>1. CASE MonitorProceeds \/ MonitorReceives
  <2>1. /\ end = "running" /\ Survives
        /\ UNCHANGED <<server, monitoring, joinable, collecting, mapped, destroyed, log>>
    BY <1>1 DEF MonitorProceeds, MonitorReceives, At, Running, flags
  <2>2. pc["monitor"] \notin {"unborn", "done"}
    BY <1>1 DEF MonitorProceeds, MonitorReceives, At
  <2>3. PICK place \in {"open", "socket", "bind", "poll", "complain", "goodbye", "done"} :
               Goto("monitor", place)
    BY <1>1 DEF MonitorProceeds, MonitorReceives
  <2>4. collecting' \in BOOLEAN
    BY <1>0, <2>1 DEF TypeOK
  <2> QED
    BY <1>0, <2>1, <2>2, <2>3, <2>4, ThreadInv, SMT
<1>2. CASE MonitorCrashes
  <2>1. /\ Ends("monitor", "crashed") /\ destroyed
        /\ pc["monitor"] \notin {"unborn", "done"}
    BY <1>2 DEF MonitorCrashes, MayCrash, NeedsLog
  <2>2. ASSUME ~Repeated
        PROVE  Signalled(First) /\ (Closing \/ pc["main"] = "keep_monitor")
    <3>1. MainOK /\ HandlerOK /\ ServerOK
      BY <2>2 DEF PrimaryInv
    <3>2. pc[First] = "exit"
      BY <2>1, <3>1 DEF ServerOK, MainOK, Leaving, Quiet
    <3>3. pc["main"] \in {"keep_monitor", "join"}
      BY <2>1, <3>1, <3>2 DEF HandlerOK, Gone, Quiet
    <3>4. pc["main"] = "join" => Closing
      <4>1. DOMAIN MainWay = 1 .. 9 /\ MainWay[3] = "join"
        BY DEF MainWay
      <4>2. 3 \in DOMAIN MainWay
        BY <4>1
      <4> QED
        BY <4>1, <4>2 DEF Closing, Range
    <3> QED
      BY <2>2, <3>2, <3>3, <3>4, Names, HandlerRuns
  <2> QED
    BY <1>0, <2>1, <2>2, EndInv
<1> QED
  BY <1>1, <1>2

LEMMA ClientInv ==
  ASSUME PrimaryInv, NEW c \in Clients, ClientProceeds(c) \/ ClientCrashes(c)
  PROVE  PrimaryInv'
<1>0. TypeOK /\ c \in Contexts /\ c \notin {"collector", "monitor"}
  BY Names DEF PrimaryInv
<1>1. CASE ClientProceeds(c)
  <2>1. /\ end = "running" /\ Survives
        /\ UNCHANGED <<server, monitoring, joinable, collecting, mapped, destroyed, log>>
    BY <1>1 DEF ClientProceeds, At, Running, flags
  <2>2. \E place \in {"unborn", "receive", "received", "send", "close"} : Goto(c, place)
    BY <1>1 DEF ClientProceeds
  <2>3. collecting' \in BOOLEAN
    BY <1>0, <2>1 DEF TypeOK
  <2> QED
    BY <1>0, <2>1, <2>2, <2>3, ThreadInv, Zenon
<1>2. CASE ClientCrashes(c)
  <2>1. Ends(c, "crashed") /\ (server \in {"deleted", "null"} \/ destroyed)
    BY <1>2 DEF ClientCrashes, MayCrash
  <2>2. ~Repeated => server \in {"deleted", "null"}
    BY <2>1 DEF PrimaryInv, ServerOK
  <2> QED
    BY <1>0, <2>1, <2>2, EndInv
<1> QED
  BY <1>1, <1>2

-----------------------------------------------------------------------------
(* main and the handlers.                                                  *)

\* What is left to show of a step of either.
LEMMA ActorStep ==
  ASSUME PrimaryInv, end = "running", Survives, TypeOK', PlacesOK',
         \A s \in Handlers : pc'[s] = "unborn" <=> pc[s] = "unborn",
         ~Repeated => MainOK' /\ HandlerOK' /\ ServerOK'
  PROVE  PrimaryInv'
<1>1. Repeated' <=> Repeated
  BY DEF Survives, Repeated, Signalled
<1>2. HostsOK'
  BY <1>1 DEF PrimaryInv, HostsOK, Survives
<1>3. DiesOnlyIf'
  BY DEF DiesOnlyIf, Survives
<1> QED
  BY <1>1, <1>2, <1>3 DEF PrimaryInv

\* The same for a step that moves only the one who takes it, outside log_message.
LEMMA WayStep ==
  ASSUME PrimaryInv, NEW c \in {"main"} \cup Handlers, At(c, pc[c]),
         pc[c] \notin {"unborn"} \cup Inside, NEW place, Goto(c, place),
         place \notin {"unborn"} \cup Inside,
         IF c = "main" THEN place \in Starting \cup Serving \cup Leaving \cup {"join"}
                       ELSE place \in Coming \cup {"join"} \cup Gone,
         Survives, UNCHANGED log,
         server' \in {"open", "closed", "deleted", "null"},
         monitoring' \in BOOLEAN, joinable' \in BOOLEAN, collecting' \in BOOLEAN,
         mapped' \in BOOLEAN, destroyed' \in BOOLEAN,
         joinable' => joinable \/ pc["monitor"] # "unborn",
         ~Repeated /\ pc'[c] = place /\ (\A d \in Contexts \ {c} : pc'[d] = pc[d]) =>
           MainOK' /\ HandlerOK' /\ ServerOK'
  PROVE  PrimaryInv'
<1>1. TypeOK /\ PlacesOK /\ c \in Contexts /\ end = "running" /\ UNCHANGED mode
      /\ c \notin {"collector", "monitor"} /\ c \notin Clients
  BY Names DEF PrimaryInv, At, Running, Survives
<1>2. /\ DOMAIN pc' = Contexts /\ pc'[c] = place
      /\ \A d \in Contexts \ {c} : pc'[d] = pc[d]
  BY <1>1, GotoPlace
<1>3. /\ pc'["monitor"] = pc["monitor"] /\ pc'["collector"] = pc["collector"]
      /\ \A d \in Clients : pc'[d] = pc[d]
  BY <1>1, <1>2, Names
<1>4. /\ pc'["main"] \in Starting \cup Serving \cup Leaving \cup {"keep_monitor", "join"}
      /\ pc'["main"] \in Inside <=> pc["main"] \in Inside
  BY <1>1, <1>2, Names DEF PlacesOK
<1>5. /\ \A s \in Handlers : pc'[s] \in Coming \cup {"join"} \cup Gone
      /\ \A s \in Handlers : pc'[s] = "unborn" <=> pc[s] = "unborn"
  BY <1>1, <1>2, Names DEF PlacesOK
<1>6. PlacesOK'
  <2>1. pc'["main"] = "keep_monitor" => pc'["monitor"] # "unborn"
    <3>1. "keep_monitor" \notin Starting \cup Serving \cup Leaving \cup {"join"}
      BY DEF Starting, Serving, Leaving
    <3> QED
      BY <1>1, <1>2, <1>3, <3>1, Names DEF PlacesOK
  <2> QED
    BY <1>1, <1>3, <1>4, <1>5, <2>1 DEF PlacesOK
<1>7. TypeOK'
  <2>1. joinable' \in BOOLEAN /\ (joinable' => pc'["monitor"] # "unborn")
    BY <1>1, <1>3 DEF TypeOK
  <2> QED
    BY <1>1, <1>2, <1>4, <2>1 DEF TypeOK, Survives
<1> QED
  BY <1>1, <1>2, <1>5, <1>6, <1>7, ActorStep

\* The same for a step of main: there is no handler yet.
LEMMA MainStep ==
  ASSUME PrimaryInv, Running("main"), pc["main"] \notin Inside,
         NEW place \in (Starting \cup Serving \cup Leaving \cup {"join"}) \ Inside,
         Goto("main", place), Survives, UNCHANGED log,
         server' \in {"open", "closed", "deleted", "null"},
         monitoring' \in BOOLEAN, joinable' \in BOOLEAN, collecting' \in BOOLEAN,
         mapped' \in BOOLEAN, destroyed' \in BOOLEAN,
         joinable' => joinable \/ pc["monitor"] # "unborn",
         ~Repeated =>
           /\ ~mode.monitored =>
                place \notin {"start_monitor", "create_monitor", "keep_monitor", "lower", "join"}
           /\ place \in Starting => pc["monitor"] = "unborn"
           /\ place \in Leaving => Quiet
           /\ monitoring' <=> mode.monitored
                                /\ place \in {"create_monitor", "keep_monitor"} \cup Serving
           /\ joinable' <=> mode.monitored /\ place \in {"join"} \cup Serving
           /\ server' \in {"deleted", "null"} => place \in {"null", "destroy", "exit"}
           /\ place \in {"destroy", "exit"} => server' = "null"
           /\ destroyed' => place = "exit"
  PROVE  PrimaryInv'
<1>1. /\ TypeOK /\ PlacesOK /\ pc[First] = "unborn" /\ "main" \in Contexts /\ UNCHANGED mode
      /\ First \in Contexts \ {"main"} /\ "monitor" \in Contexts \ {"main"}
  BY Names, MainRuns DEF PrimaryInv, Survives
<1>2. pc["main"] # "unborn" /\ At("main", pc["main"]) /\ place # "unborn"
  BY <1>1 DEF At, PlacesOK, Starting, Serving, Leaving
<1>3. ASSUME ~Repeated, pc'["main"] = place, \A d \in Contexts \ {"main"} : pc'[d] = pc[d]
      PROVE  MainOK' /\ HandlerOK' /\ ServerOK'
  <2>1. MainOK /\ pc'["monitor"] = pc["monitor"] /\ pc'[First] = "unborn"
    BY <1>1, <1>3 DEF PrimaryInv
  <2>2. MainOK'
    BY <1>1, <1>3, <2>1 DEF MainOK, Quiet
  <2>3. HandlerOK'
    BY <1>1, <1>3, <2>1 DEF HandlerOK, Gone
  <2>4. ServerOK'
    BY <1>1, <1>3, <2>1 DEF ServerOK
  <2> QED
    BY <2>2, <2>3, <2>4
<1>4. /\ place \in Starting \cup Serving \cup Leaving \cup {"join"}
      /\ place \notin Inside
  OBVIOUS
<1> QED
  BY <1>2, <1>3, <1>4, WayStep

\* The same for a step of a handler: main stands still.
LEMMA HandlerStep ==
  ASSUME PrimaryInv, NEW s \in Handlers, At(s, pc[s]), pc[s] # "unborn",
         NEW place \in (Coming \cup {"join"} \cup Gone) \ {"unborn"},
         Goto(s, place), Survives, UNCHANGED log,
         server' \in {"open", "closed", "deleted", "null"},
         monitoring' \in BOOLEAN, joinable' \in BOOLEAN, collecting' \in BOOLEAN,
         mapped' \in BOOLEAN, destroyed' \in BOOLEAN,
         joinable' => joinable \/ pc["monitor"] # "unborn",
         ~Repeated /\ s = First =>
           /\ place \in Coming => UNCHANGED <<monitoring, joinable>> /\ pc[s] \in Coming
           /\ place = "lower" => monitoring'
           /\ place = "join" => joinable' /\ pc["main"] \in Serving
           /\ place \in {"join"} \cup Gone => ~monitoring'
           /\ place \in Gone =>
                /\ Quiet \/ pc["main"] \in {"keep_monitor", "join"}
                /\ joinable' => pc["main"] = "join"
           /\ server' \in {"deleted", "null"} =>
                pc["main"] \in {"null", "destroy", "exit"}
                  \/ place \in {"null", "uninit", "destroy", "exit"}
           /\ pc["main"] \in {"destroy", "exit"} \/ place \in {"uninit", "destroy", "exit"} =>
                server' = "null"
           /\ destroyed' => pc["main"] = "exit" \/ place = "exit"
  PROVE  PrimaryInv'
<1>1. /\ TypeOK /\ PlacesOK /\ UNCHANGED mode /\ s \in Contexts /\ s # "main"
      /\ "main" \in Contexts \ {s} /\ "monitor" \in Contexts \ {s}
  BY Names DEF PrimaryInv, Survives
<1>2. pc[s] \notin Inside /\ place \notin Inside
  BY <1>1 DEF PlacesOK, Coming, Gone
<1>3. ASSUME ~Repeated, pc'[s] = place, \A d \in Contexts \ {s} : pc'[d] = pc[d]
      PROVE  MainOK' /\ HandlerOK' /\ ServerOK'
  <2>1. s = First
    BY <1>3, HandlerRuns
  <2>2. /\ MainOK /\ HandlerOK /\ pc'["monitor"] = pc["monitor"] /\ pc'["main"] = pc["main"]
        /\ pc'[First] = place
    BY <1>1, <1>3, <2>1 DEF PrimaryInv
  <2>3. MainOK'
    BY <1>1, <2>2 DEF MainOK, Quiet
  <2>4. HandlerOK'
    BY <1>1, <1>3, <2>1, <2>2 DEF HandlerOK, Quiet
  <2>5. ServerOK'
    BY <1>1, <1>3, <2>1, <2>2 DEF ServerOK
  <2> QED
    BY <2>3, <2>4, <2>5
<1>4. place \in Coming \cup {"join"} \cup Gone /\ place # "unborn"
  OBVIOUS
<1> QED
  BY <1>1, <1>2, <1>3, <1>4, WayStep

-----------------------------------------------------------------------------
(* The steps of main.                                                      *)

\* What main knows while it runs.
LEMMA MainFacts ==
  ASSUME PrimaryInv, Running("main")
  PROVE  /\ TypeOK /\ PlacesOK /\ end = "running"
         /\ server \in {"open", "closed", "deleted", "null"}
         /\ monitoring \in BOOLEAN /\ joinable \in BOOLEAN /\ collecting \in BOOLEAN
         /\ mapped \in BOOLEAN /\ destroyed \in BOOLEAN
         /\ ~Repeated =>
              /\ MainOK
              /\ monitoring <=> mode.monitored
                                  /\ pc["main"] \in {"create_monitor", "keep_monitor"} \cup Serving
              /\ joinable <=> mode.monitored /\ pc["main"] \in {"join"} \cup Serving
              /\ server \in {"deleted", "null"} => pc["main"] \in {"null", "destroy", "exit"}
              /\ pc["main"] \in {"destroy", "exit"} => server = "null"
              /\ destroyed => pc["main"] = "exit"
<1>1. pc[First] = "unborn" /\ "unborn" \in Coming
  BY MainRuns DEF Coming
<1> QED
  BY <1>1 DEF PrimaryInv, TypeOK, HandlerOK, ServerOK, MainOK, Running

\* Before there is a second thread.
LEMMA InitServerInv == PrimaryInv /\ (InitServer \/ InitServerFails) => PrimaryInv'
<1> SUFFICES ASSUME PrimaryInv, InitServer \/ InitServerFails PROVE PrimaryInv'
  OBVIOUS
<1>1. Running("main") /\ pc["main"] = "server" /\ Survives
      /\ UNCHANGED <<monitoring, joinable, collecting, destroyed, log>>
  BY DEF InitServer, InitServerFails, At
<1>2. ~Repeated => /\ pc["monitor"] = "unborn" /\ Quiet
                   /\ ~monitoring /\ ~joinable /\ ~destroyed
                   /\ server \notin {"deleted", "null"}
  <2>1. "server" \in Starting /\ "server" \notin {"create_monitor", "keep_monitor"} \cup Serving
        /\ "server" \notin {"join"} \cup Serving
    BY DEF Starting, Serving
  <2>2. ~Repeated => pc["monitor"] = "unborn"
    BY <1>1, <2>1, MainFacts DEF MainOK
  <2>3. ~Repeated => ~monitoring /\ ~joinable
    BY <1>1, <2>1, MainFacts
  <2>4. ~Repeated => ~destroyed /\ server \notin {"deleted", "null"}
    BY <1>1, MainFacts
  <2> QED
    BY <2>2, <2>3, <2>4 DEF Quiet
<1>3. CASE InitServer
  <2>1. server' = "open" /\ Goto("main", "start_collector") /\ mapped' = mapped
    BY <1>3 DEF InitServer
  <2> QED
    BY <1>1, <1>2, <2>1, MainFacts, MainStep DEF Starting, Serving, Leaving
<1>4. CASE InitServerFails
  <2>1. server' = "null" /\ Goto("main", "destroy") /\ mapped' = FALSE
    BY <1>4 DEF InitServerFails
  <2> QED
    BY <1>1, <1>2, <2>1, MainFacts, MainStep DEF Starting, Serving, Leaving
<1> QED
  BY <1>3, <1>4

LEMMA StopCollectingInv == PrimaryInv /\ StopCollecting => PrimaryInv'
<1> SUFFICES ASSUME PrimaryInv, StopCollecting PROVE PrimaryInv'
  OBVIOUS
<1>1. Running("main") /\ pc["main"] = "stop_collecting" /\ Survives /\ Goto("main", "uninit")
      /\ UNCHANGED <<server, monitoring, joinable, mapped, destroyed, log>> /\ collecting' = FALSE
  BY DEF StopCollecting, At
<1>2. ~Repeated => Quiet /\ ~monitoring /\ ~joinable /\ ~destroyed
                   /\ server \notin {"deleted", "null"}
  BY <1>1, MainFacts DEF MainOK, Starting, Serving, Leaving
<1> QED
  BY <1>1, <1>2, MainFacts, MainStep DEF Starting, Serving, Leaving

\* main serves: it goes from one place of Serving to another.
LEMMA ServeInv ==
  ASSUME PrimaryInv, BuffersFill \/ Accept \/ JoinClient, Survives, UNCHANGED <<flags, log>>
  PROVE  PrimaryInv'
<1>1. Running("main") /\ pc["main"] \in {"sleep", "accept", "join_client"}
      /\ UNCHANGED <<server, monitoring, joinable, collecting, mapped, destroyed, log>>
  BY DEF BuffersFill, Accept, JoinClient, At, flags
<1>2. PICK place \in {"accept", "await_log", "stop", "create_client"} : Goto("main", place)
  BY DEF BuffersFill, Accept, JoinClient
<1>3. ~Repeated => /\ monitoring <=> mode.monitored
                   /\ joinable <=> mode.monitored
                   /\ ~destroyed /\ server \notin {"deleted", "null"}
  BY <1>1, MainFacts DEF Serving, Leaving
<1> QED
  BY <1>1, <1>2, <1>3, MainFacts, MainStep DEF Starting, Serving, Leaving

\* A step of main that creates a thread, which starts at `first`.
LEMMA MainCreates ==
  ASSUME PrimaryInv, Running("main"), pc["main"] \notin Inside,
         NEW place \in (Starting \cup Serving \cup {"keep_monitor"}) \ Inside,
         place = "keep_monitor" => pc'["monitor"] # "unborn",
         NEW d \in {"collector", "monitor"} \cup Clients, NEW first,
         pc' = [pc EXCEPT !["main"] = place, ![d] = first],
         d = "collector" => first = "start",
         d = "monitor" => first = "hello",
         d \in Clients => first = "receive",
         Survives, UNCHANGED <<server, monitoring, joinable, collecting, mapped, destroyed, log>>,
         ~Repeated =>
           /\ ~mode.monitored =>
                d # "monitor" /\ place \notin {"start_monitor", "create_monitor", "keep_monitor", "lower"}
           /\ place \in Starting => d # "monitor" /\ pc["monitor"] = "unborn"
           /\ monitoring <=> mode.monitored
                               /\ place \in {"create_monitor", "keep_monitor"} \cup Serving
           /\ joinable <=> mode.monitored /\ place \in Serving
           /\ ~destroyed /\ server \notin {"deleted", "null"}
  PROVE  PrimaryInv'
<1>1. /\ TypeOK /\ PlacesOK /\ HostsOK /\ pc[First] = "unborn" /\ UNCHANGED mode
      /\ end = "running" /\ "main" \in Contexts /\ d \in Contexts /\ d # "main"
      /\ d \notin Handlers /\ "main" \notin Handlers /\ First \in Handlers
  BY Names, MainRuns DEF PrimaryInv, Survives, Running
<1>2. /\ DOMAIN pc' = Contexts /\ pc'["main"] = place /\ pc'[d] = first
      /\ \A e \in Contexts \ {"main", d} : pc'[e] = pc[e]
  BY <1>1 DEF TypeOK
<1>3. pc'[First] = "unborn" /\ \A s \in Handlers : pc'[s] = pc[s]
  BY <1>1, <1>2, Names
<1>4. pc["main"] \notin Inside /\ place \notin Inside /\ place \notin Leaving /\ place # "join"
  BY DEF Starting, Serving, Leaving
<1>5. PlacesOK'
  <2>1. /\ pc'["collector"] \in {"unborn", "start", "loop", "capture", "read", "push", "done"}
        /\ pc'["collector"] = "read" => mode.hwTs
    BY <1>1, <1>2, Names DEF PlacesOK
  <2>2. pc'["monitor"] \in {"unborn", "hello", "open", "socket", "bind", "poll", "complain",
                            "goodbye", "done"}
    BY <1>1, <1>2, Names DEF PlacesOK
  <2>3. \A e \in Clients : pc'[e] \in {"unborn", "receive", "received", "send", "close"}
    BY <1>1, <1>2, Names DEF PlacesOK
  <2> QED
    BY <1>1, <1>2, <1>3, <2>1, <2>2, <2>3 DEF PlacesOK
<1>6. TypeOK'
  <2>1. joinable => pc'["monitor"] # "unborn"
    BY <1>1, <1>2, Names DEF TypeOK
  <2> QED
    BY <1>1, <1>2, <1>4, <2>1 DEF TypeOK, Survives
<1>7. ASSUME ~Repeated PROVE MainOK' /\ HandlerOK' /\ ServerOK'
  <2>1. MainOK
    BY <1>7 DEF PrimaryInv
  <2>2. d # "monitor" => pc'["monitor"] = pc["monitor"]
    BY <1>2, Names
  <2>3. MainOK'
    BY <1>1, <1>2, <1>4, <1>7, <2>1, <2>2 DEF MainOK
  <2>4. HandlerOK'
    BY <1>1, <1>2, <1>3, <1>4, <1>7 DEF HandlerOK, Gone
  <2>5. ServerOK'
    <3>1. place \notin {"destroy", "exit"}
      BY DEF Starting, Serving
    <3> QED
      BY <1>2, <1>3, <1>7, <3>1 DEF ServerOK
  <2> QED
    BY <2>3, <2>4, <2>5
<1> QED
  BY <1>1, <1>3, <1>5, <1>6, <1>7, ActorStep

LEMMA StartCollectorInv == PrimaryInv /\ StartCollector => PrimaryInv'
<1> SUFFICES ASSUME PrimaryInv, StartCollector PROVE PrimaryInv'
  OBVIOUS
<1>1. Running("main") /\ pc["main"] = "start_collector" /\ Survives
      /\ UNCHANGED <<server, monitoring, joinable, collecting, mapped, destroyed, log>>
  BY DEF StartCollector, At, flags
<1> DEFINE place == IF mode.monitored THEN "start_monitor" ELSE "sleep"
<1>2. pc' = [pc EXCEPT !["main"] = place, !["collector"] = "start"]
  BY DEF StartCollector
<1>3. ~Repeated => /\ pc["monitor"] = "unborn" /\ ~monitoring /\ ~joinable
                   /\ ~destroyed /\ server \notin {"deleted", "null"}
  <2>1. /\ "start_collector" \in Starting
        /\ "start_collector" \notin {"create_monitor", "keep_monitor"} \cup Serving
        /\ "start_collector" \notin {"join"} \cup Serving
    BY DEF Starting, Serving
  <2>2. ~Repeated => pc["monitor"] = "unborn"
    BY <1>1, <2>1, MainFacts DEF MainOK
  <2> QED
    BY <1>1, <2>1, <2>2, MainFacts

<1>4. place \in (Starting \cup Serving \cup {"keep_monitor"}) \ Inside
  BY DEF Starting, Serving
<1>5. mode.monitored => place \in Starting /\ place \notin {"create_monitor", "keep_monitor"} \cup Serving
  BY DEF Starting, Serving
<1>6. ~mode.monitored => place = "sleep" /\ place \notin Starting
  BY DEF Starting
<1> HIDE DEF place
<1>7. "collector" \notin Clients
  BY Names
<1> QED
  BY <1>1, <1>2, <1>3, <1>4, <1>5, <1>6, <1>7, MainCreates

LEMMA StartMonitorInv ==
  ASSUME PrimaryInv, StartMonitor, Survives,
         UNCHANGED <<server, collecting, mapped, destroyed, log>>
  PROVE  PrimaryInv'
<1>1. Running("main") /\ pc["main"] \in {"start_monitor", "create_monitor", "keep_monitor"}
  BY DEF StartMonitor, At
<1>2. ~Repeated => /\ mode.monitored /\ ~joinable
                   /\ monitoring <=> pc["main"] # "start_monitor"
                   /\ ~destroyed /\ server \notin {"deleted", "null"}
  <2>1. ~Repeated => mode.monitored
    BY <1>1, MainFacts DEF MainOK
  <2>2. pc["main"] \notin {"join"} \cup Serving
    BY <1>1 DEF Serving
  <2> QED
    BY <1>1, <2>1, <2>2, MainFacts
<1>3. CASE pc["main"] = "start_monitor"
  <2>1. monitoring' = TRUE /\ joinable' = joinable /\ Goto("main", "create_monitor")
    BY <1>3 DEF StartMonitor, At
  <2>2. ~Repeated => pc["monitor"] = "unborn"
    BY <1>1, <1>3, MainFacts DEF MainOK, Starting
  <2>3. /\ "create_monitor" \in Starting /\ "create_monitor" \notin Leaving
        /\ "create_monitor" \notin {"join"} \cup Serving
    BY DEF Starting, Serving, Leaving
  <2> QED
    BY <1>1, <1>2, <1>3, <2>1, <2>2, <2>3, MainFacts, MainStep
<1>4. CASE pc["main"] = "create_monitor"
  <2>1. /\ pc' = [pc EXCEPT !["main"] = "keep_monitor", !["monitor"] = "hello"]
        /\ UNCHANGED <<monitoring, joinable>>
    BY <1>4 DEF StartMonitor, At
  <2>2. "keep_monitor" \notin Starting \cup Serving /\ "monitor" \notin Clients
    BY Names DEF Starting, Serving
  <2>3. pc'["monitor"] = "hello"
    BY <1>1, <2>1, Names, MainFacts DEF TypeOK
  <2> QED
    BY <1>1, <1>2, <1>4, <2>1, <2>2, <2>3, MainFacts, MainCreates
<1>5. CASE pc["main"] = "keep_monitor"
  <2>1. joinable' = TRUE /\ monitoring' = monitoring /\ Goto("main", "sleep")
    BY <1>5 DEF StartMonitor, At
  <2>2. pc["monitor"] # "unborn"
    BY <1>1, <1>5, MainFacts DEF PlacesOK
  <2>3. "sleep" \in Serving /\ "sleep" \notin Starting /\ "sleep" \notin Leaving
    BY DEF Starting, Serving, Leaving
  <2> QED
    BY <1>1, <1>2, <1>5, <2>1, <2>2, <2>3, MainFacts, MainStep
<1> QED
  BY <1>1, <1>3, <1>4, <1>5

LEMMA CreateClientInv ==
  ASSUME PrimaryInv, CreateClient, Survives, UNCHANGED <<flags, log>>
  PROVE  PrimaryInv'
<1>1. Running("main") /\ pc["main"] = "create_client"
      /\ UNCHANGED <<server, monitoring, joinable, collecting, mapped, destroyed, log>>
  BY DEF CreateClient, At, flags
<1>2. ~Repeated => /\ monitoring <=> mode.monitored
                   /\ joinable <=> mode.monitored
                   /\ ~destroyed /\ server \notin {"deleted", "null"}
  BY <1>1, MainFacts DEF Serving, Leaving
<1>3. CASE Goto("main", "await_error")
  BY <1>1, <1>2, <1>3, MainFacts, MainStep DEF Starting, Serving, Leaving
<1>4. ASSUME NEW c \in Clients, NEW place \in {"join_client", "accept"},
             pc' = [pc EXCEPT !["main"] = place, ![c] = "receive"]
      PROVE  PrimaryInv'
  <2>1. c \notin {"collector", "monitor"}
    BY Names
  <2>2. /\ place \in Serving /\ place \notin Starting /\ place \notin Inside
        /\ place \notin {"keep_monitor", "start_monitor", "create_monitor", "lower"}
    BY DEF Starting, Serving
  <2> QED
    BY <1>1, <1>2, <1>4, <2>1, <2>2, MainCreates
<1> QED
  BY <1>3, <1>4 DEF CreateClient

\* log_message: only the place and the lock change.
LEMMA LogInv == PrimaryInv /\ (EnterLog \/ LeaveLog) => PrimaryInv'
<1> SUFFICES ASSUME PrimaryInv, EnterLog \/ LeaveLog PROVE PrimaryInv'
  OBVIOUS
<1>1. /\ Running("main") /\ pc["main"] \in {"await_log", "in_log", "await_error", "in_error"} /\ Survives
      /\ UNCHANGED <<server, monitoring, joinable, collecting, mapped, destroyed>>
  BY DEF EnterLog, LeaveLog, At, flags
<1>2. PICK place \in {"in_log", "create_client", "in_error", "accept"} :
        Goto("main", place) /\ log' = (IF place \in Inside THEN "main" ELSE NoOne)
  BY DEF EnterLog, LeaveLog
<1>3. /\ TypeOK /\ PlacesOK /\ end = "running" /\ UNCHANGED <<mode, end, host, by>>
      /\ "main" \in Contexts /\ "main" \notin Handlers /\ "main" \notin Clients
      /\ Handlers \subseteq Contexts /\ Clients \subseteq Contexts
      /\ {"collector", "monitor"} \subseteq Contexts /\ First \in Handlers
  BY <1>1, MainFacts, Names DEF Survives
<1>4. /\ DOMAIN pc' = Contexts /\ pc'["main"] = place
      /\ \A d \in Contexts \ {"main"} : pc'[d] = pc[d]
  BY <1>2, <1>3, GotoPlace
<1>5. /\ pc'["monitor"] = pc["monitor"] /\ pc'["collector"] = pc["collector"]
      /\ pc'[First] = pc[First]
      /\ \A d \in Clients : pc'[d] = pc[d]
      /\ \A s \in Handlers : pc'[s] = pc[s]
  BY <1>3, <1>4
<1>6. /\ {pc["main"], place} \subseteq Serving
      /\ {pc["main"], place} \cap (Starting \cup Leaving) = {}
      /\ {pc["main"], place} \cap {"keep_monitor", "lower", "join"} = {}
  BY <1>1 DEF Starting, Serving, Leaving
<1>7. TypeOK' /\ PlacesOK'
  <2>1. TypeOK'
    BY <1>1, <1>2, <1>3, <1>4, <1>5 DEF TypeOK
  <2>2. PlacesOK'
    BY <1>3, <1>4, <1>5, <1>6 DEF PlacesOK
  <2> QED
    BY <2>1, <2>2
<1>8. ASSUME ~Repeated PROVE MainOK' /\ HandlerOK' /\ ServerOK'
  <2>1. MainOK /\ HandlerOK /\ ServerOK
    BY <1>8 DEF PrimaryInv
  <2>2. MainOK'
    <3>1. /\ place \notin {"start_monitor", "create_monitor", "keep_monitor", "lower", "join"}
          /\ place \notin Starting /\ place \notin Leaving
      BY <1>6 DEF Starting
    <3> QED
      BY <1>3, <1>4, <1>5, <2>1, <3>1 DEF MainOK, Quiet
  <2>3. HandlerOK'
    <3>1. pc[First] = "unborn"
      BY <1>1, MainRuns
    <3> QED
      BY <1>1, <1>3, <1>4, <1>5, <1>6, <2>1, <3>1 DEF HandlerOK, Gone, Coming
  <2>4. ServerOK'
    BY <1>1, <1>4, <1>5, <2>1 DEF ServerOK
  <2> QED
    BY <2>2, <2>3, <2>4
<1> QED
  BY <1>1, <1>3, <1>5, <1>7, <1>8, ActorStep

LEMMA MainInv == PrimaryInv /\ MainProceeds => PrimaryInv'
  BY InitServerInv, StartCollectorInv, LogInv, StopCollectingInv, ServeInv, CreateClientInv,
     StartMonitorInv DEF MainProceeds

-----------------------------------------------------------------------------
(* The way out of main.                                                    *)

\* main ends of itself: what DiesOnlyIf asks of that cannot arise.
LEMMA MainWayInv == PrimaryInv /\ WayOut("main") => PrimaryInv'
<1> SUFFICES ASSUME PrimaryInv, WayOut("main") PROVE PrimaryInv'
  OBVIOUS
<1>1. Running("main") /\ TypeOK /\ PlacesOK /\ "main" \in Contexts
  <2>1. Running("main")
    BY DEF WayOut, Announce, Stop, Lower, JoinMonitor, CloseServer, DeleteServer, ForgetServer,
           Uninit, Destroy, Exit, At
  <2> QED
    BY <2>1, Names DEF PrimaryInv
<1>2. pc["main"] \notin {"log", "close"}
  BY <1>1 DEF PlacesOK, Starting, Serving, Leaving
<1>3. ~Announce("main") /\ ~CloseServer("main")
  BY <1>2 DEF Announce, CloseServer, At
<1>4. ~Repeated => MainOK /\ (~mode.monitored => Quiet)
  BY <1>1, MainFacts DEF MainOK, Quiet
<1>5. /\ {"stop", "lower"} \subseteq Serving /\ "join" \notin Serving
      /\ {"stop", "lower", "join"} \cap (Starting \cup Leaving) = {}
      /\ Leaving \cap (Starting \cup Serving \cup {"keep_monitor", "lower", "join", "create_monitor"}) = {}
      /\ {"stop_collecting", "uninit", "delete", "null", "destroy", "exit"} \subseteq Leaving
  BY DEF Starting, Serving, Leaving
<1>6. CASE Stop("main")
  <2>1. /\ pc["main"] = "stop" /\ Survives
        /\ UNCHANGED <<server, monitoring, joinable, collecting, mapped, destroyed, log>>
        /\ Goto("main", IF monitoring /\ mode.monitored THEN "lower" ELSE "stop_collecting")
    BY <1>6, MainBehind DEF Stop, At, flags
  <2>2. ~Repeated => /\ monitoring <=> mode.monitored
                     /\ joinable <=> mode.monitored
                     /\ ~destroyed /\ server \notin {"deleted", "null"}
    BY <1>1, <1>5, <2>1, MainFacts
  <2>3. CASE monitoring /\ mode.monitored
    <3>1. Goto("main", "lower")
      BY <2>1, <2>3
    <3> QED
      BY <1>1, <1>5, <2>1, <2>2, <2>3, <3>1, MainFacts, MainStep
  <2>4. CASE ~(monitoring /\ mode.monitored)
    <3>1. Goto("main", "stop_collecting")
      BY <2>1, <2>4
    <3> QED
      BY <1>1, <1>4, <1>5, <2>1, <2>2, <2>4, <3>1, MainFacts, MainStep
  <2> QED
    BY <2>3, <2>4
<1>7. CASE Lower("main")
  <2>1. /\ pc["main"] = "lower" /\ Survives /\ monitoring' = FALSE
        /\ UNCHANGED <<server, joinable, collecting, mapped, destroyed, log>>
        /\ Goto("main", IF joinable THEN "join" ELSE "stop_collecting")
    BY <1>7, MainBehind DEF Lower, At
  <2>2. ~Repeated => /\ mode.monitored /\ joinable
                     /\ ~destroyed /\ server \notin {"deleted", "null"}
    BY <1>1, <1>4, <1>5, <2>1, MainFacts DEF MainOK
  <2>3. CASE joinable
    <3>1. Goto("main", "join")
      BY <2>1, <2>3
    <3> QED
      BY <1>1, <1>5, <2>1, <2>2, <3>1, MainFacts, MainStep DEF Serving
  <2>4. CASE ~joinable
    <3>1. Goto("main", "stop_collecting")
      BY <2>1, <2>4
    <3> QED
      BY <1>1, <1>5, <2>1, <2>2, <2>4, <3>1, MainFacts, MainStep
  <2> QED
    BY <2>3, <2>4
<1>8. CASE JoinMonitor("main")
  <2>1. pc["main"] = "join"
    BY <1>8 DEF JoinMonitor, At
  <2>2. ~Repeated => \A d \in Contexts \ {"main"} : pc[d] # "join"
    <3>1. ASSUME ~Repeated, NEW d \in Contexts \ {"main"}, pc[d] = "join" PROVE FALSE
      <4>1. d \in Handlers
        BY <1>1, <3>1, Names DEF PlacesOK
      <4>2. d = First
        BY <3>1, <4>1, HandlerRuns
      <4> QED
        BY <1>1, <3>1, <4>2, MainRuns
    <3> QED
      BY <3>1
  <2>3. CASE Ends("main", "aborted") /\ \E d \in Contexts \ {"main"} : pc[d] = "join"
    BY <1>1, <2>2, <2>3, EndInv
  <2>4. CASE /\ pc["monitor"] = "done"
             /\ joinable' = FALSE /\ Goto("main", Behind("main", "join"))
             /\ Survives /\ UNCHANGED <<server, monitoring, collecting, mapped, destroyed, log>>
    <3>1. Goto("main", "stop_collecting")
      BY <2>4, MainBehind
    <3>2. ~Repeated => ~monitoring /\ ~destroyed /\ server \notin {"deleted", "null"}
      BY <1>1, <1>5, <2>1, MainFacts
    <3>3. Quiet
      BY <2>4 DEF Quiet
    <3> QED
      BY <1>1, <1>5, <2>1, <2>4, <3>1, <3>2, <3>3, MainFacts, MainStep
  <2> QED
    BY <1>8, <2>3, <2>4 DEF JoinMonitor
<1>9. ASSUME pc["main"] \in Leaving, ~Repeated
      PROVE  Quiet /\ ~monitoring /\ ~joinable
  <2>1. pc["main"] \notin {"create_monitor", "keep_monitor"} \cup Serving
        /\ pc["main"] \notin {"join"} \cup Serving
    BY <1>5, <1>9
  <2> QED
    BY <1>1, <1>4, <1>9, <2>1, MainFacts DEF MainOK
<1>10. CASE DeleteServer("main")
  <2>1. pc["main"] = "delete" /\ pc["main"] \in Leaving
    BY <1>5, <1>10 DEF DeleteServer, At
  <2>2. ~Repeated => ~destroyed /\ server \notin {"deleted", "null"}
    BY <1>1, <2>1, MainFacts
  <2>3. CASE MayCrash("main", server = "deleted")
    BY <1>1, <2>2, <2>3, EndInv DEF MayCrash
  <2>4. CASE /\ server' = IF server = "null" THEN "null" ELSE "deleted"
             /\ Goto("main", Behind("main", "delete"))
             /\ Survives
             /\ UNCHANGED <<monitoring, joinable, collecting, mapped, destroyed, log>>
    <3>1. Goto("main", "null") /\ server' \in {"null", "deleted"}
      BY <2>4, MainBehind
    <3> QED
      BY <1>1, <1>5, <1>9, <2>1, <2>2, <2>4, <3>1, MainFacts, MainStep
  <2> QED
    BY <1>10, <2>3, <2>4 DEF DeleteServer
<1>11. CASE ForgetServer("main")
  <2>1. /\ pc["main"] = "null" /\ pc["main"] \in Leaving /\ server' = "null" /\ Survives
        /\ UNCHANGED <<monitoring, joinable, collecting, mapped, destroyed, log>>
        /\ Goto("main", "destroy")
    BY <1>5, <1>11, MainBehind DEF ForgetServer, At
  <2>2. ~Repeated => ~destroyed
    BY <1>1, <2>1, MainFacts
  <2> QED
    BY <1>1, <1>5, <1>9, <2>1, <2>2, MainFacts, MainStep
<1>12. CASE Uninit("main")
  <2>1. /\ pc["main"] = "uninit" /\ pc["main"] \in Leaving /\ mapped' = FALSE /\ Survives
        /\ UNCHANGED <<server, monitoring, joinable, collecting, destroyed, log>>
        /\ Goto("main", "delete")
    BY <1>5, <1>12, MainBehind DEF Uninit, At
  <2>2. ~Repeated => ~destroyed /\ server \notin {"deleted", "null"}
    BY <1>1, <2>1, MainFacts
  <2> QED
    BY <1>1, <1>5, <1>9, <2>1, <2>2, MainFacts, MainStep
<1>13. CASE Destroy("main")
  <2>1. pc["main"] = "destroy" /\ pc["main"] \in Leaving
    BY <1>5, <1>13 DEF Destroy, At
  <2>2. CASE joinable /\ Ends("main", "aborted")
    BY <1>1, <1>9, <2>1, <2>2, EndInv
  <2>3. CASE /\ destroyed' = TRUE /\ Goto("main", "exit")
             /\ Survives /\ UNCHANGED <<server, monitoring, joinable, collecting, mapped, log>>
    <3>1. ~Repeated => server = "null"
      BY <1>1, <2>1, MainFacts
    <3> QED
      BY <1>1, <1>5, <1>9, <2>1, <2>3, <3>1, MainFacts, MainStep
  <2> QED
    BY <1>13, <2>2, <2>3 DEF Destroy
<1>14. CASE Exit("main")
  BY <1>1, <1>14, EndInv DEF Exit
<1> QED
  BY <1>3, <1>6, <1>7, <1>8, <1>10, <1>11, <1>12, <1>13, <1>14 DEF WayOut

-----------------------------------------------------------------------------
(* The way out of a handler.                                               *)

LEMMA InMainWay ==
  {"stop", "lower", "join", "stop_collecting", "uninit", "delete", "null", "destroy", "exit"}
    \subseteq Range(MainWay)
<1>1. /\ DOMAIN MainWay = 1 .. 9
      /\ MainWay[1] = "stop" /\ MainWay[2] = "lower" /\ MainWay[3] = "join"
      /\ MainWay[4] = "stop_collecting" /\ MainWay[5] = "uninit" /\ MainWay[6] = "delete"
      /\ MainWay[7] = "null" /\ MainWay[8] = "destroy" /\ MainWay[9] = "exit"
  BY DEF MainWay
<1> HIDE DEF MainWay
<1> QED
  BY <1>1 DEF Range

\* What a handler knows while it runs.
LEMMA HandlerFacts ==
  ASSUME PrimaryInv, NEW s \in Handlers, pc[s] # "unborn", Running(s)
  PROVE  /\ TypeOK /\ PlacesOK /\ end = "running" /\ s \in Contexts /\ s # "main"
         /\ server \in {"open", "closed", "deleted", "null"}
         /\ monitoring \in BOOLEAN /\ joinable \in BOOLEAN /\ collecting \in BOOLEAN
         /\ mapped \in BOOLEAN /\ destroyed \in BOOLEAN /\ At(s, pc[s])
         /\ ~Repeated => /\ s = First /\ host[s] = "main" /\ Signalled(First)
                         /\ MainOK /\ HandlerOK /\ ServerOK
  BY Names, HandlerRuns DEF PrimaryInv, TypeOK, Running, At

LEMMA HandlerWayInv == PrimaryInv /\ (\E s \in Handlers : WayOut(s)) => PrimaryInv'
<1> SUFFICES ASSUME PrimaryInv, NEW s \in Handlers, WayOut(s) PROVE PrimaryInv'
  OBVIOUS
<1>1. Running(s) /\ pc[s] # "unborn" /\ s # "main"
  <2>1. Running(s)
    BY DEF WayOut, Announce, Stop, Lower, JoinMonitor, CloseServer, DeleteServer, ForgetServer,
           Uninit, Destroy, Exit, At
  <2>2. pc[s] # "unborn"
    BY DEF WayOut, Announce, Stop, Lower, JoinMonitor, CloseServer, DeleteServer, ForgetServer,
           Uninit, Destroy, Exit, At
  <2> QED
    BY <2>1, <2>2, Names
<1>2. /\ {"log", "stop", "lower"} \subseteq Coming /\ "join" \notin Coming \cup Gone \cup Serving
      /\ {"close", "delete", "null", "uninit", "destroy", "exit"} \subseteq Gone
      /\ Coming \cap Gone = {} /\ "unborn" \notin Gone
  BY DEF Coming, Gone, Serving
<1>3. CASE Announce(s)
  <2>1. pc[s] = "log" /\ Goto(s, "stop") /\ Survives
        /\ UNCHANGED <<server, monitoring, joinable, collecting, mapped, destroyed, log>>
    BY <1>3 DEF Announce, At, flags
  <2> QED
    BY <1>1, <1>2, <2>1, HandlerFacts, HandlerStep DEF ServerOK
<1>4. ASSUME ~Repeated, pc[s] \in Coming, ~joinable \/ ~monitoring
      PROVE  (Quiet \/ pc["main"] \in {"keep_monitor", "join"}) /\ (joinable => pc["main"] = "join")
  <2>1. /\ MainOK /\ mode.monitored \in BOOLEAN
        /\ monitoring <=> mode.monitored
                            /\ pc["main"] \in {"create_monitor", "keep_monitor"} \cup Serving
        /\ joinable <=> mode.monitored /\ pc["main"] \in {"join"} \cup Serving
        /\ pc["main"] \in Starting \cup Serving \cup Leaving \cup {"keep_monitor", "join"}
    BY <1>1, <1>4, HandlerFacts, ModeType DEF HandlerOK, PlacesOK
  <2>2. joinable => pc["main"] = "join"
    BY <1>4, <2>1
  <2>3. CASE ~mode.monitored
    BY <2>1, <2>3 DEF MainOK, Quiet
  <2>4. CASE mode.monitored
    <3>1. pc["main"] \notin Serving
      BY <1>4, <2>1, <2>4
    <3> QED
      BY <2>1, <2>2, <3>1 DEF MainOK, Quiet
  <2> QED
    BY <2>1, <2>2, <2>3, <2>4
<1>5. CASE Stop(s)
  <2>1. /\ pc[s] = "stop" /\ Survives
        /\ UNCHANGED <<server, monitoring, joinable, collecting, mapped, destroyed, log>>
        /\ Goto(s, IF monitoring THEN "lower" ELSE "close")
    BY <1>1, <1>5, HandlerBehind DEF Stop, At, flags
  <2>2. CASE monitoring
    <3>1. Goto(s, "lower")
      BY <2>1, <2>2
    <3> QED
      BY <1>1, <1>2, <2>1, <2>2, <3>1, HandlerFacts, HandlerStep DEF ServerOK
  <2>3. CASE ~monitoring
    <3>1. Goto(s, "close")
      BY <2>1, <2>3
    <3>2. pc[s] \in Coming
      BY <1>2, <2>1
    <3> QED
      BY <1>1, <1>2, <1>4, <2>1, <2>3, <3>1, <3>2, HandlerFacts, HandlerStep DEF ServerOK
  <2> QED
    BY <2>2, <2>3
<1>6. CASE Lower(s)
  <2>1. /\ pc[s] = "lower" /\ pc[s] \in Coming /\ Survives /\ monitoring' = FALSE
        /\ UNCHANGED <<server, joinable, collecting, mapped, destroyed, log>>
        /\ Goto(s, IF joinable THEN "join" ELSE "close")
    BY <1>1, <1>2, <1>6, HandlerBehind DEF Lower, At
  <2>2. CASE joinable
    <3>1. Goto(s, "join")
      BY <2>1, <2>2
    <3>2. ~Repeated => pc["main"] \in Serving
      BY <1>1, <2>1, <2>2, HandlerFacts DEF HandlerOK
    <3> QED
      BY <1>1, <1>2, <2>1, <2>2, <3>1, <3>2, HandlerFacts, HandlerStep DEF ServerOK
  <2>3. CASE ~joinable
    <3>1. Goto(s, "close")
      BY <2>1, <2>3
    <3> QED
      BY <1>1, <1>2, <1>4, <2>1, <2>3, <3>1, HandlerFacts, HandlerStep DEF ServerOK
  <2> QED
    BY <2>2, <2>3
<1>7. CASE JoinMonitor(s)
  <2>1. pc[s] = "join"
    BY <1>7 DEF JoinMonitor, At
  <2>2. ~Repeated => host[s] # "monitor" /\ \A d \in Contexts \ {s} : pc[d] # "join"
    <3>1. ASSUME ~Repeated, NEW d \in Contexts \ {s}, pc[d] = "join" PROVE FALSE
      <4>1. PlacesOK /\ s = First /\ pc["main"] \in Serving
        BY <1>1, <2>1, <3>1, HandlerFacts DEF HandlerOK
      <4>2. d \in Handlers
        BY <1>2, <3>1, <4>1, Names DEF PlacesOK
      <4> QED
        BY <3>1, <4>1, <4>2, HandlerRuns
    <3> QED
      BY <1>1, <3>1, HandlerFacts
  <2>3. CASE /\ Ends(s, "aborted")
             /\ (s # "main" /\ host[s] = "monitor") \/ \E d \in Contexts \ {s} : pc[d] = "join"
    BY <1>1, <2>2, <2>3, HandlerFacts, EndInv
  <2>4. CASE /\ pc["monitor"] = "done"
             /\ joinable' = FALSE /\ Goto(s, Behind(s, "join"))
             /\ Survives /\ UNCHANGED <<server, monitoring, collecting, mapped, destroyed, log>>
    <3>1. Goto(s, "close") /\ Quiet
      BY <1>1, <2>4, HandlerBehind DEF Quiet
    <3>2. ~Repeated => ~monitoring
      BY <1>1, <2>1, HandlerFacts DEF HandlerOK
    <3> QED
      BY <1>1, <1>2, <2>1, <2>4, <3>1, <3>2, HandlerFacts, HandlerStep DEF ServerOK
  <2> QED
    BY <1>7, <2>3, <2>4 DEF JoinMonitor
<1>8. ASSUME pc[s] \in Gone, ~Repeated
      PROVE  /\ ~monitoring /\ (Quiet \/ pc["main"] \in {"keep_monitor", "join"})
             /\ joinable => pc["main"] = "join"
  BY <1>1, <1>8, HandlerFacts DEF HandlerOK
<1>9. ASSUME pc[s] \in {"close", "delete"}, ~Repeated, server \in {"deleted", "null"}
      PROVE  Signalled(First) /\ Closing /\ pc["main"] \in {"null", "destroy", "exit"}
  <2>1. pc["main"] \in {"null", "destroy", "exit"} /\ Signalled(First)
    BY <1>1, <1>9, HandlerFacts DEF ServerOK
  <2> QED
    BY <2>1, InMainWay DEF Closing
<1>10. CASE CloseServer(s)
  <2>1. pc[s] = "close" /\ pc[s] \in Gone
    BY <1>2, <1>10 DEF CloseServer, At
  <2>2. CASE MayCrash(s, server \in {"deleted", "null"})
    BY <1>1, <1>9, <2>1, <2>2, HandlerFacts, EndInv DEF MayCrash
  <2>3. CASE /\ server # "null"
             /\ server' = IF server = "open" THEN "closed" ELSE server
             /\ Goto(s, Behind(s, "close"))
             /\ Survives /\ UNCHANGED <<monitoring, joinable, collecting, mapped, destroyed, log>>
    <3>1. Goto(s, "delete") /\ (server' \in {"deleted", "null"} => server' = server)
      BY <1>1, <2>3, HandlerBehind
    <3>2. server' \in {"open", "closed", "deleted", "null"}
      BY <1>1, <2>3, HandlerFacts
    <3>3. ~Repeated /\ server' \in {"deleted", "null"} => pc["main"] \in {"null", "destroy", "exit"}
      BY <1>9, <2>1, <3>1
    <3>4. ~Repeated => pc["main"] \notin {"destroy", "exit"} /\ ~destroyed
      BY <1>1, <2>1, <2>3, HandlerFacts DEF ServerOK
    <3> QED
      BY <1>1, <1>2, <1>8, <2>1, <2>3, <3>1, <3>2, <3>3, <3>4, HandlerFacts, HandlerStep
  <2> QED
    BY <1>10, <2>2, <2>3 DEF CloseServer
<1>11. CASE DeleteServer(s)
  <2>1. pc[s] = "delete" /\ pc[s] \in Gone
    BY <1>2, <1>11 DEF DeleteServer, At
  <2>2. CASE MayCrash(s, server = "deleted")
    BY <1>1, <1>9, <2>1, <2>2, HandlerFacts, EndInv DEF MayCrash
  <2>3. CASE /\ server' = IF server = "null" THEN "null" ELSE "deleted"
             /\ Goto(s, Behind(s, "delete"))
             /\ Survives /\ UNCHANGED <<monitoring, joinable, collecting, mapped, destroyed, log>>
    <3>1. Goto(s, "null") /\ server' \in {"deleted", "null"} /\ (server = "null" => server' = "null")
      BY <1>1, <2>3, HandlerBehind
    <3>2. ~Repeated => /\ pc["main"] \in {"destroy", "exit"} => server = "null"
                       /\ destroyed => pc["main"] = "exit"
      BY <1>1, <2>1, HandlerFacts DEF ServerOK
    <3> QED
      BY <1>1, <1>2, <1>8, <2>1, <2>3, <3>1, <3>2, HandlerFacts, HandlerStep
  <2> QED
    BY <1>11, <2>2, <2>3 DEF DeleteServer
<1>12. CASE ForgetServer(s)
  <2>1. /\ pc[s] = "null" /\ pc[s] \in Gone /\ server' = "null" /\ Survives
        /\ UNCHANGED <<monitoring, joinable, collecting, mapped, destroyed, log>>
        /\ Goto(s, "uninit")
    BY <1>1, <1>2, <1>12, HandlerBehind DEF ForgetServer, At
  <2>2. ~Repeated => (destroyed => pc["main"] = "exit")
    BY <1>1, <2>1, HandlerFacts DEF ServerOK
  <2> QED
    BY <1>1, <1>2, <1>8, <2>1, <2>2, HandlerFacts, HandlerStep
<1>13. CASE Uninit(s)
  <2>1. /\ pc[s] = "uninit" /\ pc[s] \in Gone /\ mapped' = FALSE /\ Survives
        /\ UNCHANGED <<server, monitoring, joinable, collecting, destroyed, log>>
        /\ Goto(s, "destroy")
    BY <1>1, <1>2, <1>13, HandlerBehind DEF Uninit, At
  <2>2. ~Repeated => server = "null" /\ (destroyed => pc["main"] = "exit")
    BY <1>1, <2>1, HandlerFacts DEF ServerOK
  <2> QED
    BY <1>1, <1>2, <1>8, <2>1, <2>2, HandlerFacts, HandlerStep
<1>14. CASE Destroy(s)
  <2>1. pc[s] = "destroy" /\ pc[s] \in Gone
    BY <1>2, <1>14 DEF Destroy, At
  <2>2. CASE joinable /\ Ends(s, "aborted")
    <3>1. ~Repeated => Signalled(First) /\ Closing
      BY <1>1, <1>8, <2>1, <2>2, HandlerFacts, InMainWay DEF Closing
    <3> QED
      BY <1>1, <2>2, <3>1, HandlerFacts, EndInv
  <2>3. CASE /\ destroyed' = TRUE /\ Goto(s, "exit")
             /\ Survives /\ UNCHANGED <<server, monitoring, joinable, collecting, mapped, log>>
    <3>1. ~Repeated => server = "null"
      BY <1>1, <2>1, HandlerFacts DEF ServerOK
    <3> QED
      BY <1>1, <1>2, <1>8, <2>1, <2>3, <3>1, HandlerFacts, HandlerStep
  <2> QED
    BY <1>14, <2>2, <2>3 DEF Destroy
<1>15. CASE Exit(s)
  BY <1>1, <1>15, HandlerFacts, EndInv DEF Exit
<1> QED
  BY <1>3, <1>5, <1>6, <1>7, <1>10, <1>11, <1>12, <1>13, <1>14, <1>15 DEF WayOut

-----------------------------------------------------------------------------
(* Signals, and all of it.                                                 *)

LEMMA SignalInv == PrimaryInv /\ (\E i \in DOMAIN Signals : Signal(i)) => PrimaryInv'
<1> SUFFICES ASSUME PrimaryInv, NEW i \in DOMAIN Signals, Signal(i) PROVE PrimaryInv'
  OBVIOUS
<1> DEFINE s == Signals[i]
<1>1. /\ s \in Handlers /\ s \in Contexts /\ s \notin {"main", "collector", "monitor"}
      /\ s \notin Clients /\ (s = First <=> i = 1) /\ i \in Nat \ {0} /\ First \in Handlers
  BY SignalNames, Names
<1>2. /\ TypeOK /\ PlacesOK /\ HostsOK
      /\ end = "running" /\ host[s] = NoOne /\ pc[s] = "unborn"
      /\ i > 1 => host[Signals[i - 1]] # NoOne
      /\ UNCHANGED <<mode, server, monitoring, joinable, collecting, mapped, destroyed, log, end, by>>
      /\ Goto(s, "log")
  BY <1>1 DEF PrimaryInv, HostsOK, Signal, Signalled, flags
<1>3. PICK h : /\ h \in IF i = 1 THEN {"main"} ELSE {Signals[i - 1], "collector", "monitor"}
               /\ host' = [host EXCEPT ![s] = h]
  BY DEF Signal
<1>4. h \in Contexts /\ h # NoOne /\ (i = 1 => h = "main")
  <2>1. CASE i = 1
    BY <1>3, <2>1, Names
  <2>2. CASE i # 1
    <3>1. Signals[i - 1] \in Handlers
      BY <1>1, <2>2, SignalNames
    <3> QED
      BY <1>3, <2>2, <3>1, Names
  <2> QED
    BY <2>1, <2>2
<1>5. /\ DOMAIN pc' = Contexts /\ pc'[s] = "log"
      /\ \A d \in Contexts \ {s} : pc'[d] = pc[d]
  BY <1>1, <1>2, GotoPlace
<1>6. /\ host' \in [Handlers -> Contexts \cup {NoOne}] /\ host'[s] = h
      /\ \A t \in Handlers \ {s} : host'[t] = host[t]
  BY <1>1, <1>2, <1>3, <1>4 DEF TypeOK, Handlers
<1> HIDE DEF s
<1>7. /\ pc'["main"] = pc["main"] /\ pc'["collector"] = pc["collector"]
      /\ pc'["monitor"] = pc["monitor"] /\ \A c \in Clients : pc'[c] = pc[c]
      /\ \A t \in Handlers \ {s} : pc'[t] = pc[t]
  BY <1>1, <1>5, Names
<1>8. TypeOK' /\ PlacesOK'
  <2>1. TypeOK'
    BY <1>2, <1>5, <1>6, <1>7 DEF TypeOK, Handlers
  <2>2. \A t \in Handlers : pc'[t] \in Coming \cup {"join"} \cup Gone
    BY <1>2, <1>5, <1>7 DEF PlacesOK, Coming
  <2> QED
    BY <1>2, <1>7, <2>1, <2>2 DEF PlacesOK
<1>9. DiesOnlyIf'
  BY <1>2 DEF DiesOnlyIf
<1>10. \A t \in Handlers : pc'[t] = "unborn" <=> host'[t] = NoOne
  BY <1>2, <1>4, <1>5, <1>6, <1>7 DEF HostsOK
<1>11. host'[First] \in {NoOne, "main"}
  BY <1>1, <1>2, <1>4, <1>6 DEF HostsOK
<1>12. CASE i = 1
  <2>1. s = First
    BY <1>1, <1>12
  <2>2. Repeated' <=> Repeated
    <3>1. ASSUME Len(Signals) > 1 PROVE Signals[2] \in Handlers \ {s}
      <4>1. 2 \in DOMAIN Signals
        BY <3>1, PrimaryAssumption DEF PrimaryAssumption
      <4> QED
        BY <2>1, <4>1, SignalNames
    <3> QED
      BY <1>6, <3>1 DEF Repeated, Signalled
  <2>3. HostsOK'
    BY <1>2, <1>6, <1>10, <1>11, <2>1, <2>2 DEF HostsOK
  <2>4. ASSUME ~Repeated PROVE MainOK' /\ HandlerOK' /\ ServerOK'
    <3>1. MainOK /\ HandlerOK /\ ServerOK /\ pc[First] = "unborn" /\ pc'[First] = "log"
      BY <1>2, <1>5, <2>1, <2>4 DEF PrimaryInv
    <3>2. MainOK'
      BY <1>2, <1>7, <3>1 DEF MainOK, Quiet
    <3>3. HandlerOK'
      BY <1>2, <1>7, <3>1 DEF HandlerOK, Coming, Gone
    <3>4. ServerOK'
      BY <1>2, <1>7, <3>1 DEF ServerOK
    <3> QED
      BY <3>2, <3>3, <3>4
  <2> QED
    BY <1>8, <1>9, <2>2, <2>3, <2>4 DEF PrimaryInv
<1>13. CASE i # 1
  <2>1. i > 1 /\ Len(Signals) > 1 /\ i - 1 \in DOMAIN Signals /\ 2 \in DOMAIN Signals
        /\ Signals[2] \in Handlers /\ Signals[i - 1] \in Handlers
    BY <1>1, <1>13, SignalNames
  <2>2. Repeated'
    <3>1. CASE i = 2
      BY <1>4, <1>6, <2>1, <3>1 DEF Repeated, Signalled, s
    <3>2. CASE i # 2
      <4>1. Signals[i - 1] # First
        BY <1>1, <2>1, <3>2, SignalNames
      <4>2. Repeated
        BY <1>2, <2>1, <4>1 DEF HostsOK
      <4>3. Signals[2] # s
        BY <1>2, <4>2 DEF Repeated, Signalled
      <4> QED
        BY <1>6, <2>1, <4>2, <4>3 DEF Repeated, Signalled
    <3> QED
      BY <3>1, <3>2
  <2>3. HostsOK'
    BY <1>10, <1>11, <2>2 DEF HostsOK
  <2> QED
    BY <1>8, <2>2, <2>3 DEF PrimaryInv
<1> QED
  BY <1>12, <1>13

LEMMA StutterInv == PrimaryInv /\ UNCHANGED vars => PrimaryInv'
<1> SUFFICES ASSUME PrimaryInv, UNCHANGED vars PROVE PrimaryInv'
  OBVIOUS
<1>1. UNCHANGED <<mode, pc, host, server, monitoring, joinable, collecting, mapped, destroyed,
                  log, end, by>>
  BY DEF vars, flags
<1>2. TypeOK' /\ PlacesOK'
  BY <1>1 DEF PrimaryInv, TypeOK, PlacesOK
<1>3. HostsOK' /\ (Repeated' <=> Repeated)
  BY <1>1 DEF PrimaryInv, HostsOK, Repeated, Signalled
<1>4. ~Repeated => MainOK' /\ HandlerOK' /\ ServerOK' /\ DiesOnlyIf'
  BY <1>1 DEF PrimaryInv, MainOK, HandlerOK, ServerOK, DiesOnlyIf, Quiet, Signalled, Closing
<1> QED
  BY <1>2, <1>3, <1>4 DEF PrimaryInv

LEMMA NextInv == PrimaryInv /\ [Next]_vars => PrimaryInv'
  BY MainInv, MainWayInv, HandlerWayInv, CollectorInv, MonitorInv, ClientInv, SignalInv,
     StutterInv DEF Next, Handlers

\* The threads and the handler stay where their code puts them, and the globals they
\* share say who has stopped whom, as long as one signal has come.
THEOREM Primary == Spec => []PrimaryInv
  BY InitInv, NextInv, PTL DEF Spec

\* Every variable keeps its type; log_mutex is held exactly while main is inside
\* log_message, and g_monitor_thread is only joinable once the thread exists.
THEOREM TypeCorrect == Spec => []TypeOK
<1>1. PrimaryInv => TypeOK
  BY DEF PrimaryInv
<1> QED
  BY Primary, <1>1, PTL

\* stop_sync_monitor_thread does its work: until a second signal nobody deletes the
\* server under a monitor that is still writing, but for the two moments in which the
\* signal finds main creating the thread or joining it.
THEOREM Joined == Spec => []MonitorJoined
<1>1. PrimaryInv => MonitorJoined
  <2> SUFFICES ASSUME PrimaryInv, server \in {"deleted", "null"}, ~Repeated
               PROVE  \/ pc["monitor"] \in {"unborn", "done"}
                      \/ Signalled(First) /\ pc["main"] \in {"keep_monitor", "join"}
    BY DEF MonitorJoined
  <2>1. MainOK /\ HandlerOK /\ ServerOK
    BY DEF PrimaryInv
  <2>2. CASE pc["main"] \in {"null", "destroy", "exit"}
    BY <2>1, <2>2 DEF MainOK, Leaving, Quiet
  <2>3. CASE pc[First] \in {"null", "uninit", "destroy", "exit"}
    <3>1. Signalled(First)
      BY <2>3, Names, HandlerRuns
    <3> QED
      BY <2>1, <2>3, <3>1 DEF HandlerOK, Gone, Quiet
  <2> QED
    BY <2>1, <2>2, <2>3 DEF ServerOK
<1> QED
  BY Primary, <1>1, PTL

\* What one signal may kill: neither server_close_signal nor the end of main dies of
\* the order in which they take the server, the registers and the buffers away.
THEOREM SingleSignal == Spec => []DiesOnlyIf
<1>1. PrimaryInv => DiesOnlyIf
  BY DEF PrimaryInv, DiesOnlyIf
<1> QED
  BY Primary, <1>1, PTL

=============================================================================
