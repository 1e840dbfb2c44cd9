--------------------------- MODULE VblankExchange ---------------------------
(***************************************************************************)
(* How a secondary gets the primary's vblank timestamps.  The primary's    *)
(* collector thread keeps the last ones in a buffer (swgenlock/            *)
(* primary.cpp); each pipe of the secondary asks for some of them over a   *)
(* TCP connection of its own or, in PTP mode, in raw Ethernet frames       *)
(* (connection.cpp, capture_primary_vsync_network of secondary.cpp), or,   *)
(* in pipelock mode, takes them from the buffer of its own process.        *)
(*                                                                         *)
(* A timestamp is the number of its vblank, a request the number of        *)
(* timestamps asked for, an answer the sequence sent back.                 *)
(***************************************************************************)
EXTENDS Integers, Sequences

CONSTANTS
  Pipes,         \* the secondary's pipes
  Transports,    \* how the secondary may be started: "tcp", "ptp" or "local"
  BufferSize,    \* max_count of the collector
  InitialFill,   \* timestamps collected before the first client is accepted
  FirstCount,    \* timestamps asked for in the first iteration
  NextCount,     \* and in the later ones
  MaxVblank,     \* bound: the primary's vblanks stop here
  MaxQueue       \* frames the receive buffer of a raw socket holds

ASSUME ExchangeAssumption ==
  /\ Transports \subseteq {"tcp", "ptp", "local"}
  /\ BufferSize \in Nat \ {0}
  /\ InitialFill \in 0 .. BufferSize
  /\ FirstCount \in 1 .. BufferSize /\ NextCount \in 1 .. BufferSize
  /\ MaxVblank \in Nat /\ MaxVblank >= InitialFill
  /\ MaxQueue \in Nat \ {0}

VARIABLES
  transport,   \* how timestamps are exchanged: a constant of each run
  vblank,      \* the primary's latest vblank
  collector,   \* "wait", in get_vsync, or "push"
  buffer,      \* g_vsync_buffer
  serverUp,    \* the primary has not been stopped
  pc,          \* where the thread of each pipe is
  count,       \* timestamps_from_primary of its current iteration
  conn,        \* its TCP connection
  request,     \* its requests on the way to the primary
  inbox,       \* the answers in the receive buffer of its socket
  answer,      \* the answer it has accepted, or none
  clientDone,  \* Ctrl+C on the secondary
  killed,      \* the secondary's process was killed by SIGPIPE
  askedAt,     \* history: the vblank collected last when it asked
  refused,     \* history: the primary closed its connection without an answer
  mixed        \* history: the pipes that answers to other pipes have reached

primary == <<vblank, collector, buffer, serverUp>>
client  == <<pc, count, answer, askedAt>>
socket  == <<conn, request, inbox>>
history == <<refused, mixed>>
vars == <<transport, primary, client, socket, clientDone, killed, history>>

IsTcp   == transport = "tcp"
IsPtp   == transport = "ptp"
IsLocal == transport = "local"

None == << >>

\* A socket is open from init_client to close_client.
SocketOpen(c) == pc[c] \in {"send", "recv"}

Init ==
  /\ transport \in Transports
  /\ vblank = InitialFill
  /\ collector = "wait"
  /\ buffer = [i \in 1 .. InitialFill |-> i]
  /\ serverUp = TRUE
  /\ pc = [c \in Pipes |-> "idle"]
  /\ count = [c \in Pipes |-> FirstCount]
  /\ conn = [c \in Pipes |-> "none"]
  /\ request = [c \in Pipes |-> << >>]
  /\ inbox = [c \in Pipes |-> << >>]
  /\ answer = [c \in Pipes |-> None]
  /\ clientDone = FALSE
  /\ killed = FALSE
  /\ askedAt = [c \in Pipes |-> 0]
  /\ refused = [c \in Pipes |-> FALSE]
  /\ mixed = {}

-----------------------------------------------------------------------------
(* The collector of the primary.                                           *)

Tick ==
  /\ serverUp /\ collector = "wait"
  /\ vblank < MaxVblank
  /\ vblank' = vblank + 1
  /\ collector' = "push"
  /\ UNCHANGED <<transport, buffer, serverUp, client, socket, clientDone, killed, history>>

\* get_vsync returns success when no vblank came for three seconds, too: what
\* is pushed then is the previous timestamp.
TimeOut ==
  /\ serverUp /\ collector = "wait"
  /\ collector' = "push"
  /\ UNCHANGED <<transport, vblank, buffer, serverUp, client, socket, clientDone,
                 killed, history>>

\* Variant: the buffer is bounded by dropping the newest.
Rolled_KeepsOld(buf, ts) == IF Len(buf) >= BufferSize THEN buf ELSE Append(buf, ts)

\* The rolling buffer after one more timestamp.
Rolled(buf, ts) ==
  Append(IF Len(buf) >= BufferSize THEN Tail(buf) ELSE buf, ts)

Push ==
  /\ serverUp /\ collector = "push"
  /\ buffer' = Rolled(buffer, vblank)
  /\ collector' = "wait"
  /\ UNCHANGED <<transport, vblank, serverUp, client, socket, clientDone, killed, history>>

\* The vblank the buffer surely reaches up to.
Collected == IF collector = "push" THEN vblank - 1 ELSE vblank

\* get_last_vsyncs, where the buffer holds enough of them.
Enough(n)     == Len(buffer) >= n
LastVsyncs(n) == SubSeq(buffer, Len(buffer) - n + 1, Len(buffer))

-----------------------------------------------------------------------------
(* The primary's accept loop and its client handlers.                      *)

\* TCP: a thread for each connection; if it cannot be created, the connection
\* is closed.
Accept(c) ==
  /\ IsTcp /\ serverUp
  /\ conn[c] = "backlog"
  /\ \/ conn' = [conn EXCEPT ![c] = "open"] /\ UNCHANGED refused
     \/ /\ conn' = [conn EXCEPT ![c] = IF request[c] # << >> THEN "reset" ELSE "closed"]
        /\ refused' = [refused EXCEPT ![c] = TRUE]
  /\ UNCHANGED <<transport, primary, client, request, inbox, clientDone, killed, mixed>>

\* A frame to the secondary's address reaches each raw socket bound there, if
\* its buffer has room.
Delivered(c, msg) ==
  [d \in Pipes |->
     IF (d = c \/ IsPtp) /\ SocketOpen(d) /\ Len(inbox[d]) < MaxQueue
     THEN Append(inbox[d], msg) ELSE inbox[d]]

\* A handler thread has received a request, in PTP mode after all earlier ones.
HasRequest(c) ==
  /\ serverUp /\ request[c] # << >>
  /\ IsTcp => conn[c] = "open"

\* Variant: the connection is closed before the answer is sent.
Serve_ClosesFirst(c) ==
  /\ HasRequest(c)
  /\ inbox' = IF IsPtp /\ Enough(Head(request[c]))
              THEN Delivered(c, LastVsyncs(Head(request[c]))) ELSE inbox
  /\ request' = [request EXCEPT ![c] = Tail(@)]
  /\ conn' = [conn EXCEPT ![c] = IF conn[c] = "open" THEN "closed" ELSE conn[c]]
  /\ UNCHANGED <<transport, primary, client, clientDone, killed, history>>

\* do_msg: it answers an ACK once, or not at all when the buffer
\* does not hold enough yet, and closes the connection.
Serve(c) ==
  /\ HasRequest(c)
  /\ IF Enough(Head(request[c]))
     THEN /\ inbox' = Delivered(c, LastVsyncs(Head(request[c])))
          /\ UNCHANGED refused
     ELSE /\ refused' = [refused EXCEPT ![c] = TRUE]
          /\ UNCHANGED inbox
  /\ request' = [request EXCEPT ![c] = Tail(@)]
  /\ conn' = [conn EXCEPT ![c] = IF conn[c] = "open" THEN "closed" ELSE conn[c]]
  /\ mixed' = mixed \cup {d \in Pipes \ {c} : inbox'[d] # inbox[d]}
  /\ UNCHANGED <<transport, primary, client, clientDone, killed>>

\* server_close_signal: the process and its sockets are gone.
StopPrimary ==
  /\ ~IsLocal /\ serverUp
  /\ serverUp' = FALSE
  /\ conn' = [c \in Pipes |-> CASE conn[c] = "backlog" -> "reset"
                                [] conn[c] = "open" ->
                                     IF request[c] # << >> THEN "reset" ELSE "closed"
                                [] OTHER -> conn[c]]
  /\ request' = [c \in Pipes |-> << >>]
  /\ buffer' = << >>
  /\ collector' = "wait"
  /\ UNCHANGED <<transport, vblank, client, inbox, clientDone, killed, history>>

-----------------------------------------------------------------------------
(* The secondary.                                                          *)

\* init_client: a connection in the listening socket's queue, or none.
Connect(c) ==
  /\ pc[c] = "idle" /\ ~IsLocal
  /\ \/ /\ IsTcp => serverUp
        /\ conn' = [conn EXCEPT ![c] = IF IsTcp THEN "backlog" ELSE "none"]
        /\ inbox' = [inbox EXCEPT ![c] = << >>]
        /\ pc' = [pc EXCEPT ![c] = "send"]
     \/ /\ pc' = [pc EXCEPT ![c] = "exited"]
        /\ UNCHANGED <<conn, inbox>>
  /\ UNCHANGED <<transport, primary, count, answer, askedAt, request, clientDone, killed, history>>

\* send_msg while the other end is there, or believed to be: a frame may be lost.
Send(c) ==
  /\ pc[c] = "send"
  /\ conn[c] # "reset"
  /\ \/ /\ conn[c] # "closed"
        /\ IsTcp \/ serverUp
        /\ request' = [request EXCEPT ![c] = IF Len(@) < MaxQueue THEN Append(@, count[c]) ELSE @]
        /\ UNCHANGED conn
     \/ IsPtp /\ UNCHANGED <<request, conn>>
     \/ /\ conn[c] = "closed"
        /\ conn' = [conn EXCEPT ![c] = "reset"]
        /\ UNCHANGED request
  /\ askedAt' = [askedAt EXCEPT ![c] = Collected]
  /\ pc' = [pc EXCEPT ![c] = "recv"]
  /\ UNCHANGED <<transport, primary, count, answer, inbox, clientDone, killed, history>>

\* Nobody handles SIGPIPE: all threads of the process are gone.
SendKilled(c) ==
  /\ pc[c] = "send"
  /\ conn[c] = "reset"
  /\ killed' = TRUE
  /\ pc' = [d \in Pipes |-> "exited"]
  /\ conn' = [d \in Pipes |-> "none"]
  /\ request' = [d \in Pipes |-> << >>]
  /\ inbox' = [d \in Pipes |-> << >>]
  /\ answer' = [d \in Pipes |-> None]
  /\ askedAt' = [d \in Pipes |-> 0]
  /\ UNCHANGED <<transport, primary, count, clientDone, history>>

\* recv_msg finds an answer.
Receive(c) ==
  /\ pc[c] = "recv" /\ ~clientDone
  /\ inbox[c] # << >>
  /\ answer' = [answer EXCEPT ![c] = Head(inbox[c])]
  /\ inbox' = [inbox EXCEPT ![c] = Tail(@)]
  /\ pc' = [pc EXCEPT ![c] = "got"]
  /\ UNCHANGED <<transport, primary, count, askedAt, conn, request, clientDone, killed, history>>

\* recv_msg finds the connection closed and fails: the loop sends again.
ReceiveFails(c) ==
  /\ pc[c] = "recv" /\ ~clientDone
  /\ inbox[c] = << >> /\ conn[c] \in {"closed", "reset"}
  /\ pc' = [pc EXCEPT ![c] = "send"]
  /\ UNCHANGED <<transport, primary, count, answer, askedAt, socket, clientDone, killed, history>>

\* Variant: Ctrl+C is looked at only when a message has come.
ReceiveNothing_Polls(c) ==
  /\ pc[c] = "recv" /\ clientDone /\ inbox[c] # << >>
  /\ pc' = [pc EXCEPT ![c] = "got"]
  /\ UNCHANGED <<transport, primary, count, answer, askedAt, socket, clientDone, killed, history>>

\* After Ctrl+C recv_msg returns success, having received nothing.
ReceiveNothing(c) ==
  /\ pc[c] = "recv" /\ clientDone
  /\ pc' = [pc EXCEPT ![c] = "got"]
  /\ UNCHANGED <<transport, primary, count, answer, askedAt, socket, clientDone, killed, history>>

\* capture_primary_vsync_local; without enough timestamps the thread gives up.
CaptureLocal(c) ==
  /\ IsLocal /\ pc[c] = "idle"
  /\ IF Enough(count[c])
     THEN /\ answer' = [answer EXCEPT ![c] = LastVsyncs(count[c])]
          /\ pc' = [pc EXCEPT ![c] = "got"]
     ELSE /\ pc' = [pc EXCEPT ![c] = "exited"]
          /\ UNCHANGED answer
  /\ askedAt' = [askedAt EXCEPT ![c] = Collected]
  /\ UNCHANGED <<transport, primary, count, socket, clientDone, killed, history>>

\* close_client, the rest of the iteration, and the loop's condition.
NextIteration(c) ==
  /\ pc[c] = "got"
  /\ conn' = [conn EXCEPT ![c] = "none"]
  /\ inbox' = [inbox EXCEPT ![c] = << >>]
  /\ request' = IF IsTcp THEN [request EXCEPT ![c] = << >>] ELSE request
  /\ answer' = [answer EXCEPT ![c] = None]
  /\ count' = [count EXCEPT ![c] = NextCount]
  /\ askedAt' = [askedAt EXCEPT ![c] = 0]
  /\ refused' = [refused EXCEPT ![c] = FALSE]
  /\ \/ ~clientDone /\ pc' = [pc EXCEPT ![c] = "idle"]
     \/ pc' = [pc EXCEPT ![c] = "exited"]
  /\ UNCHANGED <<transport, primary, clientDone, killed, mixed>>

CtrlC ==
  /\ ~clientDone
  /\ clientDone' = TRUE
  /\ UNCHANGED <<transport, primary, client, socket, killed, history>>

-----------------------------------------------------------------------------

CollectorStep == Tick \/ TimeOut \/ Push
PipeStep(c) ==
  \/ Connect(c) \/ Send(c) \/ SendKilled(c)
  \/ Receive(c) \/ ReceiveFails(c) \/ ReceiveNothing(c)
  \/ CaptureLocal(c) \/ NextIteration(c)

Next ==
  \/ CollectorStep
  \/ \E c \in Pipes : Accept(c) \/ Serve(c) \/ PipeStep(c)
  \/ StopPrimary
  \/ CtrlC

Spec == Init /\ [][Next]_vars

(* Threads are scheduled; the collector is one of them. *)
FairSpec ==
  /\ Spec
  /\ WF_vars(CollectorStep)
  /\ \A c \in Pipes : WF_vars(Accept(c)) /\ WF_vars(Serve(c)) /\ WF_vars(PipeStep(c))

-----------------------------------------------------------------------------
(* Properties.                                                             *)

\* The timestamps of an answer that do_pipe_sync uses.
Used(c) == SubSeq(answer[c], 1, IF count[c] < Len(answer[c]) THEN count[c] ELSE Len(answer[c]))

UpToDate(c) == answer[c] # None => Used(c)[Len(Used(c))] >= askedAt[c]

\* The timestamps a pipe works with reach up to the last vblank collected when it
\* asked for them: with the extra ones they overlap the ones it captures whatever
\* the delay (secondary.cpp:60-66). They are as many as it asked for, and in
\* chronological order, which is what find_avg and the search from the ends rely on
\* (primary.cpp:110-131); in PTP mode an answer to another pipe can spoil that, and
\* nothing else can.
FreshAndComplete ==
  \A c \in Pipes : answer[c] # None =>
    /\ \A i, j \in 1 .. Len(answer[c]) : i < j => answer[c][i] <= answer[c][j]
    /\ c \in mixed \/ (UpToDate(c) /\ Len(answer[c]) = count[c])

\* A secondary in the middle of its corrections is killed by SIGPIPE only if the
\* primary refused to serve it or was stopped, never by the ordinary end of a
\* connection (secondary.cpp:296-300, primary.cpp:350-354).
KilledOnlyByRefusal == killed => ~serverUp \/ \E c \in Pipes : refused[c]

\* Every capture over TCP ends, with an answer or with the process (secondary.cpp:
\* 296-300); a lost frame is never sent again. And after Ctrl+C all threads of the
\* secondary end, those that poll included (connection.cpp:310).
WaitsEnd ==
  /\ \A c \in Pipes : pc[c] = "send" /\ IsTcp ~> pc[c] \in {"got", "exited"}
  /\ clientDone ~> \A c \in Pipes : pc[c] = "exited"

=============================================================================
