----------------------- MODULE VblankExchange_proofs -----------------------
(***************************************************************************)
(* Proofs about VblankExchange: for any pipes, transports, buffer and      *)
(* counts, what a pipe gets is recent, complete and in order unless an     *)
(* answer to another pipe has come to its socket, and SIGPIPE ends the     *)
(* secondary only when the primary has refused it or is gone.              *)
(***************************************************************************)
EXTENDS VblankExchange, SequenceTheorems, TLAPS

-----------------------------------------------------------------------------
(* The inductive invariant.                                                *)

Sorted(s) == \A i, j \in 1 .. Len(s) : i <= j => s[i] <= s[j]

\* Timestamps in chronological order.
Chronological == {s \in Seq(Nat) : Sorted(s)}

LastOf(s) == s[Len(s)]

Places == {"idle", "send", "recv", "got", "exited"}
Ended  == {"closed", "reset"}

PrimaryTypes ==
  /\ transport \in {"tcp", "ptp", "local"}
  /\ vblank \in Nat
  /\ collector \in {"wait", "push"}
  /\ buffer \in Chronological
  /\ serverUp \in BOOLEAN

PipeTypes ==
  /\ pc \in [Pipes -> Places]
  /\ count \in [Pipes -> Nat \ {0}]
  /\ conn \in [Pipes -> {"none", "backlog", "open"} \cup Ended]
  /\ request \in [Pipes -> Seq(Nat \ {0})]
  /\ inbox \in [Pipes -> Seq(Chronological)]
  /\ answer \in [Pipes -> Chronological]
  /\ askedAt \in [Pipes -> Int]
  /\ refused \in [Pipes -> BOOLEAN]
  /\ clientDone \in BOOLEAN /\ killed \in BOOLEAN
  /\ mixed \subseteq Pipes
  /\ mixed # {} => IsPtp

\* The buffer reaches from some earlier vblank up to the last one collected.
BufferOK == buffer # << >> => Collected <= LastOf(buffer) /\ LastOf(buffer) <= vblank

\* What was collected when c asked is collected still.
AskedOK(c) ==
  /\ askedAt[c] <= vblank
  /\ buffer # << >> => askedAt[c] <= LastOf(buffer)

ConnOK(c) ==
  /\ conn[c] # "none" => IsTcp
  /\ pc[c] \in {"idle", "exited"} => conn[c] = "none"

\* An answer to the request that c is waiting with.
Good(c, msg) == Len(msg) = count[c] /\ LastOf(msg) >= askedAt[c]

\* At most one request is under way, or its answer; a connection that has ended may
\* still hold a request that nobody will read.
RequestOK(c) ==
  /\ pc[c] \in {"idle", "send"} /\ conn[c] \notin Ended => request[c] = << >>
  /\ pc[c] = "recv" /\ conn[c] \notin Ended =>
       \/ request[c] = << >>
       \/ request[c] = <<count[c]>> /\ inbox[c] = << >>
  /\ pc[c] = "got" /\ ~IsTcp /\ ~clientDone => request[c] = << >>

AnswerOK(c) ==
  /\ inbox[c] # << >> =>
       pc[c] \in {"recv", "got"} /\ Len(inbox[c]) = 1 /\ Good(c, inbox[c][1])
  /\ answer[c] # None => pc[c] = "got" /\ Good(c, answer[c])

\* While the primary is up, a connection it has not refused is closed only when
\* its answer is there.
ClosedOK(c) ==
  serverUp /\ ~refused[c] =>
    /\ conn[c] # "reset"
    /\ conn[c] = "closed" =>
         \/ pc[c] = "recv" /\ inbox[c] # << >>
         \/ pc[c] = "got"

PipeInv(c) ==
  /\ AskedOK(c)
  /\ ConnOK(c)
  /\ c \notin mixed => RequestOK(c) /\ AnswerOK(c)
  /\ ClosedOK(c)

KilledOK ==
  killed => /\ \A c \in Pipes : pc[c] = "exited"
            /\ ~serverUp \/ \E c \in Pipes : refused[c]

ExchangeInv ==
  /\ PrimaryTypes /\ PipeTypes
  /\ BufferOK
  /\ \A c \in Pipes : PipeInv(c)
  /\ KilledOK

-----------------------------------------------------------------------------
(* Chronological sequences.                                                *)

LEMMA EmptyChronological ==
  /\ << >> \in Chronological
  /\ \A s \in Chronological :
       /\ s \in Seq(Nat) /\ Len(s) \in Nat
       /\ s = << >> <=> Len(s) = 0
  BY EmptySeq DEF Chronological, Sorted

\* The last timestamp is the latest.
LEMMA LastIsLatest ==
  ASSUME NEW s \in Chronological, s # << >>
  PROVE  /\ Len(s) \in Nat \ {0} /\ LastOf(s) \in Nat
         /\ \A i \in 1 .. Len(s) : s[i] \in Nat /\ s[i] <= LastOf(s)
<1>1. s \in Seq(Nat) /\ Len(s) \in Nat \ {0}
  BY EmptyChronological
<1> QED
  BY <1>1 DEF Chronological, Sorted, LastOf

\* A stretch of the buffer is in order as well.
LEMMA PartChronological ==
  ASSUME NEW s \in Chronological, NEW m \in 1 .. Len(s) + 1
  PROVE  /\ SubSeq(s, m, Len(s)) \in Chronological
         /\ Len(SubSeq(s, m, Len(s))) = Len(s) - m + 1
         /\ m <= Len(s) => LastOf(SubSeq(s, m, Len(s))) = LastOf(s)
<1> DEFINE t == SubSeq(s, m, Len(s))
<1>1. s \in Seq(Nat) /\ Len(s) \in Nat
  BY EmptyChronological
<1>2. \A i \in m .. Len(s) : s[i] \in Nat
  BY <1>1
<1>3. /\ t \in Seq(Nat)
      /\ Len(t) = IF m <= Len(s) THEN Len(s) - m + 1 ELSE 0
      /\ \A i \in 1 .. Len(s) - m + 1 : t[i] = s[m + i - 1]
  BY <1>1, <1>2, SubSeqProperties
<1> HIDE DEF t
<1>4. Len(t) = Len(s) - m + 1
  BY <1>1, <1>3
<1>5. Sorted(t)
  <2> SUFFICES ASSUME NEW i \in 1 .. Len(t), NEW j \in 1 .. Len(t), i <= j
               PROVE  t[i] <= t[j]
    BY DEF Sorted
  <2>1. m + i - 1 \in 1 .. Len(s) /\ m + j - 1 \in 1 .. Len(s) /\ m + i - 1 <= m + j - 1
    BY <1>1, <1>4
  <2>2. s[m + i - 1] <= s[m + j - 1]
    BY <2>1 DEF Chronological, Sorted
  <2> QED
    BY <1>3, <1>4, <2>2
<1>6. m <= Len(s) => LastOf(t) = LastOf(s)
  <2> SUFFICES ASSUME m <= Len(s) PROVE t[Len(t)] = s[Len(s)]
    BY DEF LastOf
  <2>1. Len(t) \in 1 .. Len(s) - m + 1 /\ m + Len(t) - 1 = Len(s)
    BY <1>1, <1>4
  <2> QED
    BY <1>3, <2>1
<1> QED
  BY <1>3, <1>4, <1>5, <1>6 DEF t, Chronological

\* A later timestamp at the end keeps the order.
LEMMA LaterChronological ==
  ASSUME NEW s \in Chronological, NEW e \in Nat, s # << >> => LastOf(s) <= e
  PROVE  /\ Append(s, e) \in Chronological
         /\ Append(s, e) # << >>
         /\ LastOf(Append(s, e)) = e
<1> DEFINE t == Append(s, e)
<1>1. s \in Seq(Nat) /\ Len(s) \in Nat
  BY EmptyChronological
<1>2. /\ t \in Seq(Nat) /\ t # << >>
      /\ Len(t) = Len(s) + 1
      /\ \A i \in 1 .. Len(s) : t[i] = s[i]
      /\ t[Len(s) + 1] = e
  BY <1>1, AppendProperties
<1> HIDE DEF t
<1>3. \A i \in 1 .. Len(s) : s[i] \in Nat /\ s[i] <= e
  <2> SUFFICES ASSUME NEW i \in 1 .. Len(s) PROVE s[i] \in Nat /\ s[i] <= e
    OBVIOUS
  <2>1. s # << >>
    BY <1>1, EmptyChronological
  <2>2. s[i] \in Nat /\ s[i] <= LastOf(s) /\ LastOf(s) \in Nat
    BY <2>1, LastIsLatest
  <2> QED
    BY <2>1, <2>2
<1>4. Sorted(t)
  <2> SUFFICES ASSUME NEW i \in 1 .. Len(t), NEW j \in 1 .. Len(t), i <= j
               PROVE  t[i] <= t[j]
    BY DEF Sorted
  <2>1. CASE j \in 1 .. Len(s)
    <3>1. i \in 1 .. Len(s)
      BY <1>1, <2>1
    <3> QED
      BY <1>2, <2>1, <3>1 DEF Chronological, Sorted
  <2>2. CASE j = Len(s) + 1
    BY <1>1, <1>2, <1>3, <2>2
  <2> QED
    BY <1>1, <1>2, <2>1, <2>2
<1>5. t \in Chronological /\ t # << >> /\ LastOf(t) = e
  BY <1>2, <1>4 DEF Chronological, LastOf
<1> QED
  BY <1>5 DEF t

LEMMA Counts ==
  /\ BufferSize \in Nat \ {0} /\ FirstCount \in Nat \ {0} /\ NextCount \in Nat \ {0}
  /\ InitialFill \in Nat /\ MaxQueue \in Nat \ {0}
  BY ExchangeAssumption DEF ExchangeAssumption

\* The rolling buffer stays in order, and ends with what was pushed.
LEMMA RolledBuffer ==
  ASSUME NEW s \in Chronological, NEW e \in Nat, s # << >> => LastOf(s) <= e
  PROVE  /\ Rolled(s, e) \in Chronological
         /\ Rolled(s, e) # << >>
         /\ LastOf(Rolled(s, e)) = e
<1> DEFINE kept == IF Len(s) >= BufferSize THEN Tail(s) ELSE s
<1>1. kept \in Chronological /\ (kept # << >> => LastOf(kept) <= e)
  <2>1. CASE Len(s) >= BufferSize
    <3>1. s # << >> /\ s \in Seq(Nat) /\ Len(s) \in Nat \ {0}
      BY <2>1, Counts, EmptyChronological
    <3>2. Tail(s) = SubSeq(s, 2, Len(s))
      BY <3>1, TailIsSubSeq
    <3>3. 2 \in 1 .. Len(s) + 1
      BY <3>1
    <3>4. /\ Tail(s) \in Chronological
          /\ Len(Tail(s)) = Len(s) - 2 + 1
          /\ 2 <= Len(s) => LastOf(Tail(s)) = LastOf(s)
      BY <3>2, <3>3, PartChronological
    <3>5. Tail(s) # << >> => 2 <= Len(s)
      BY <3>1, <3>4, EmptyChronological
    <3> QED
      BY <2>1, <3>1, <3>4, <3>5
  <2>2. CASE ~(Len(s) >= BufferSize)
    BY <2>2
  <2> QED
    BY <2>1, <2>2
<1> HIDE DEF kept
<1>2. Append(kept, e) \in Chronological /\ Append(kept, e) # << >> /\ LastOf(Append(kept, e)) = e
  BY <1>1, LaterChronological
<1> QED
  BY <1>2 DEF kept, Rolled

\* get_last_vsyncs: as many as were asked for, up to the last one.
LEMMA LastOnes ==
  ASSUME PrimaryTypes, NEW n \in Nat \ {0}, Enough(n)
  PROVE  /\ LastVsyncs(n) \in Chronological
         /\ Len(LastVsyncs(n)) = n
         /\ LastOf(LastVsyncs(n)) = LastOf(buffer)
         /\ LastVsyncs(n) # << >> /\ buffer # << >>
<1>1. buffer \in Chronological /\ Len(buffer) \in Nat /\ n <= Len(buffer)
  BY EmptyChronological DEF PrimaryTypes, Enough
<1>2. Len(buffer) - n + 1 \in 1 .. Len(buffer) + 1 /\ Len(buffer) - n + 1 <= Len(buffer)
  BY <1>1
<1>3. /\ LastVsyncs(n) \in Chronological
      /\ Len(LastVsyncs(n)) = Len(buffer) - (Len(buffer) - n + 1) + 1
      /\ LastOf(LastVsyncs(n)) = LastOf(buffer)
  BY <1>1, <1>2, PartChronological DEF LastVsyncs
<1>4. Len(LastVsyncs(n)) = n
  BY <1>1, <1>3
<1> QED
  BY <1>1, <1>3, <1>4, EmptyChronological

-----------------------------------------------------------------------------
(* The invariant holds initially, and a step that leaves a pipe alone keeps  *)
(* what it says of that pipe.                                                *)

LEMMA InitialBuffer ==
  ASSUME Init
  PROVE  /\ buffer \in Chronological /\ Len(buffer) = InitialFill
         /\ buffer # << >> => LastOf(buffer) = InitialFill
<1>1. InitialFill \in Nat /\ buffer = [i \in 1 .. InitialFill |-> i]
  BY Counts DEF Init
<1>2. buffer \in Seq(Nat) /\ Len(buffer) = InitialFill
  BY <1>1
<1>3. \A i \in 1 .. InitialFill : buffer[i] = i
  BY <1>1
<1>4. buffer \in Chronological
  BY <1>1, <1>2, <1>3 DEF Chronological, Sorted
<1> QED
  BY <1>1, <1>2, <1>3, <1>4, EmptyChronological DEF LastOf

LEMMA InitInv == Init => ExchangeInv
<1> SUFFICES ASSUME Init PROVE ExchangeInv
  OBVIOUS
<1>1. transport \in {"tcp", "ptp", "local"}
  BY ExchangeAssumption DEF ExchangeAssumption, Init
<1>2. PrimaryTypes
  BY <1>1, InitialBuffer, Counts DEF PrimaryTypes, Init
<1>3. PipeTypes
  <2>1. << >> \in Seq(Nat \ {0}) /\ << >> \in Seq(Chronological)
    BY EmptySeq
  <2>2. /\ count = [c \in Pipes |-> FirstCount] /\ FirstCount \in Nat \ {0}
        /\ answer = [c \in Pipes |-> << >>] /\ << >> \in Chronological
    BY Counts, EmptyChronological DEF Init, None
  <2>3. count \in [Pipes -> Nat \ {0}] /\ answer \in [Pipes -> Chronological]
    BY <2>2
  <2>4. request \in [Pipes -> Seq(Nat \ {0})] /\ inbox \in [Pipes -> Seq(Chronological)]
    BY <2>1 DEF Init
  <2>5. /\ pc \in [Pipes -> Places]
        /\ conn \in [Pipes -> {"none", "backlog", "open"} \cup Ended]
        /\ askedAt \in [Pipes -> Int]
    <3>1. /\ pc = [c \in Pipes |-> "idle"] /\ conn = [c \in Pipes |-> "none"]
          /\ askedAt = [c \in Pipes |-> 0]
      BY DEF Init
    <3> QED
      BY <3>1 DEF Places
  <2>6. /\ refused \in [Pipes -> BOOLEAN]
        /\ clientDone \in BOOLEAN /\ killed \in BOOLEAN /\ mixed = {}
    BY Zenon DEF Init
  <2> QED
    BY <2>3, <2>4, <2>5, <2>6 DEF PipeTypes
<1>0. /\ vblank = InitialFill /\ collector = "wait" /\ InitialFill \in Nat
      /\ buffer # << >> => LastOf(buffer) = InitialFill
      /\ \A c \in Pipes : askedAt[c] = 0
  BY InitialBuffer, Counts DEF Init
<1>4. BufferOK
  BY <1>0 DEF BufferOK, Collected
<1>5. ASSUME NEW c \in Pipes PROVE PipeInv(c)
  <2>1. AskedOK(c)
    BY <1>0 DEF AskedOK
  <2> QED
    BY <2>1 DEF PipeInv, ConnOK, RequestOK, AnswerOK, ClosedOK, Ended, None, Init
<1>6. KilledOK
  BY DEF KilledOK, Init
<1> QED
  BY <1>2, <1>3, <1>4, <1>5, <1>6 DEF ExchangeInv

\* Nothing of pipe c changes.
Untouched(c) ==
  /\ pc'[c] = pc[c] /\ count'[c] = count[c] /\ conn'[c] = conn[c]
  /\ request'[c] = request[c] /\ inbox'[c] = inbox[c] /\ answer'[c] = answer[c]
  /\ askedAt'[c] = askedAt[c] /\ refused'[c] = refused[c]

\* The shared state but for the buffer, and what only grows.
Steady ==
  /\ transport' = transport /\ mixed \subseteq mixed'
  /\ serverUp' => serverUp
  /\ clientDone => clientDone'

LEMMA UntouchedInv ==
  ASSUME NEW c, PipeInv(c), Untouched(c), Steady, AskedOK(c)'
  PROVE  PipeInv(c)'
BY DEF PipeInv, ConnOK, RequestOK, AnswerOK, Good, ClosedOK, Untouched, Steady, IsTcp, None

LEMMA CollectorInv ==
  ASSUME ExchangeInv, CollectorStep \/ CtrlC \/ UNCHANGED vars
  PROVE  ExchangeInv'
<1> USE DEF ExchangeInv
<1>1. /\ UNCHANGED <<transport, serverUp, client, socket, history, killed>>
      /\ Steady /\ PipeTypes'
  <2>1. /\ UNCHANGED <<transport, serverUp, client, socket, history, killed>>
        /\ clientDone' \in {clientDone, TRUE}
    BY DEF CollectorStep, Tick, TimeOut, Push, CtrlC, vars, primary
  <2> QED
    BY <2>1 DEF PipeTypes, Steady, client, socket, history, IsPtp
<1>2. PrimaryTypes' /\ BufferOK' /\ \A c \in Pipes : AskedOK(c)'
  <2>0. vblank \in Nat /\ buffer \in Chronological /\ askedAt \in [Pipes -> Int] /\ askedAt' = askedAt
    BY <1>1 DEF PrimaryTypes, PipeTypes, client
  <2>1. CASE Push
    <3>1. /\ buffer' = Rolled(buffer, vblank) /\ collector' = "wait"
          /\ UNCHANGED <<transport, vblank, serverUp>>
      BY <2>1 DEF Push
    <3>2. buffer # << >> => LastOf(buffer) <= vblank
      BY DEF BufferOK
    <3>3. buffer' \in Chronological /\ buffer' # << >> /\ LastOf(buffer') = vblank
      BY <2>0, <3>1, <3>2, RolledBuffer
    <3>4. PrimaryTypes'
      BY <3>1, <3>3 DEF PrimaryTypes
    <3>5. BufferOK'
      BY <2>0, <3>1, <3>3 DEF BufferOK, Collected
    <3>6. \A c \in Pipes : AskedOK(c)'
      BY <2>0, <3>1, <3>3 DEF PipeInv, AskedOK
    <3> QED
      BY <3>4, <3>5, <3>6
  <2>2. CASE Tick
    <3>1. PrimaryTypes'
      BY <2>2 DEF PrimaryTypes, Tick
    <3>2. BufferOK'
      <4>1. buffer' = buffer /\ vblank' = vblank + 1 /\ collector = "wait" /\ collector' = "push"
        BY <2>2 DEF Tick
      <4>2. buffer # << >> => LastOf(buffer) \in Nat
        BY <2>0, LastIsLatest
      <4> QED
        BY <2>0, <4>1, <4>2 DEF BufferOK, Collected
    <3>3. \A c \in Pipes : AskedOK(c)'
      BY <2>0, <2>2 DEF PipeInv, AskedOK, Tick
    <3> QED
      BY <3>1, <3>2, <3>3
  <2>3. CASE TimeOut
    <3>1. PrimaryTypes' /\ \A c \in Pipes : AskedOK(c)'
      BY <2>0, <2>3 DEF PrimaryTypes, PipeInv, AskedOK, TimeOut
    <3>2. buffer # << >> => LastOf(buffer) \in Nat
      BY <2>0, LastIsLatest
    <3>3. BufferOK'
      BY <2>0, <2>3, <3>2 DEF BufferOK, Collected, TimeOut
    <3> QED
      BY <3>1, <3>3
  <2>4. CASE UNCHANGED <<vblank, collector, buffer>>
    BY <1>1, <2>0, <2>4 DEF PrimaryTypes, BufferOK, Collected, PipeInv, AskedOK
  <2> QED
    BY <2>1, <2>2, <2>3, <2>4 DEF CollectorStep, CtrlC, vars, primary
<1>3. \A c \in Pipes : PipeInv(c)'
  <2>1. \A c \in Pipes : Untouched(c)
    BY <1>1 DEF Untouched, client, socket, history
  <2> QED
    BY <1>1, <1>2, <2>1, UntouchedInv
<1>4. KilledOK'
  BY <1>1 DEF KilledOK, client, socket, history
<1> QED
  BY <1>1, <1>2, <1>3, <1>4

-----------------------------------------------------------------------------
(* The steps of one pipe.                                                  *)

\* What is left to show of a step that concerns pipe c alone.
LEMMA OnePipe ==
  ASSUME ExchangeInv, NEW c \in Pipes, UNCHANGED <<transport, primary, killed, mixed>>,
         clientDone' = clientDone, PipeTypes',
         \A d \in Pipes \ {c} : Untouched(d),
         killed => pc'[c] = pc[c] /\ (refused[c] => refused'[c]),
         PipeInv(c)'
  PROVE  ExchangeInv'
<1> USE DEF ExchangeInv
<1>1. PrimaryTypes' /\ BufferOK'
  BY DEF PrimaryTypes, BufferOK, Collected, primary
<1>2. Steady
  BY DEF Steady, primary
<1>3. ASSUME NEW d \in Pipes, d # c PROVE PipeInv(d)'
  <2>1. Untouched(d) /\ PipeInv(d)
    BY <1>3
  <2>2. AskedOK(d)'
    BY <2>1 DEF PipeInv, AskedOK, Untouched, primary
  <2> QED
    BY <1>2, <2>1, <2>2, UntouchedInv
<1>4. KilledOK'
  BY DEF KilledOK, Untouched, primary
<1> QED
  BY <1>1, <1>3, <1>4

\* A killed secondary takes no step.
LEMMA AliveSteps ==
  ASSUME ExchangeInv, NEW c \in Pipes, pc[c] # "exited"
  PROVE  ~killed
  BY DEF ExchangeInv, KilledOK

LEMMA AcceptInv == ASSUME ExchangeInv, NEW c \in Pipes, Accept(c) PROVE ExchangeInv'
<1> USE DEF ExchangeInv
<1>1. /\ conn' = [conn EXCEPT ![c] = conn'[c]] /\ refused' = [refused EXCEPT ![c] = refused'[c]]
      /\ conn'[c] \in {"open"} \cup Ended /\ (conn'[c] \in Ended => refused'[c])
      /\ conn[c] = "backlog" /\ IsTcp
      /\ refused'[c] \in BOOLEAN /\ (refused[c] => refused'[c])
  BY DEF Accept, PipeTypes, Ended
<1>2. /\ UNCHANGED <<transport, primary, pc, count, answer, askedAt, request, inbox,
                     clientDone, killed, mixed>>
  BY DEF Accept, client
<1>3. PipeTypes'
  BY <1>1, <1>2 DEF PipeTypes, IsPtp
<1>4. \A d \in Pipes \ {c} : Untouched(d)
  BY <1>1, <1>2 DEF Untouched, PipeTypes
<1>5. PipeInv(c)'
  <2>1. PipeInv(c)
    OBVIOUS
  <2>2. AskedOK(c)' /\ ConnOK(c)'
    BY <1>1, <1>2, <2>1 DEF PipeInv, AskedOK, ConnOK, primary, IsTcp
  <2>3. c \notin mixed' => RequestOK(c)' /\ AnswerOK(c)'
    BY <1>1, <1>2, <2>1 DEF PipeInv, RequestOK, AnswerOK, Good, Ended, None, IsTcp
  <2>4. ClosedOK(c)'
    BY <1>1, <1>2, <2>1 DEF PipeInv, ClosedOK, Ended
  <2> QED
    BY <2>2, <2>3, <2>4 DEF PipeInv
<1> QED
  BY <1>1, <1>2, <1>3, <1>4, <1>5, OnePipe

LEMMA ConnectInv == ASSUME ExchangeInv, NEW c \in Pipes, Connect(c) PROVE ExchangeInv'
<1> USE DEF ExchangeInv
<1>1. /\ pc[c] = "idle" /\ PipeInv(c) /\ ~killed
      /\ UNCHANGED <<transport, primary, count, answer, askedAt, request, clientDone,
                     killed, refused, mixed>>
  BY AliveSteps DEF Connect, history
<1>2. /\ pc' = [pc EXCEPT ![c] = pc'[c]] /\ conn' = [conn EXCEPT ![c] = conn'[c]]
      /\ inbox' = [inbox EXCEPT ![c] = inbox'[c]]
      /\ \/ /\ pc'[c] = "send" /\ conn'[c] = (IF IsTcp THEN "backlog" ELSE "none")
            /\ inbox'[c] = << >>
         \/ pc'[c] = "exited" /\ conn'[c] = conn[c] /\ inbox'[c] = inbox[c]
  BY DEF Connect, PipeTypes
<1>3. PipeTypes'
  <2>1. << >> \in Seq(Chronological)
    BY EmptySeq
  <2>2. /\ pc'[c] \in Places /\ conn'[c] \in {"none", "backlog", "open"} \cup Ended
        /\ inbox'[c] \in Seq(Chronological)
    BY <1>2, <2>1 DEF PipeTypes, Places
  <2> QED
    BY <1>1, <1>2, <2>2 DEF PipeTypes, IsPtp
<1>4. \A d \in Pipes \ {c} : Untouched(d)
  BY <1>1, <1>2 DEF Untouched, PipeTypes
<1>5. PipeInv(c)'
  <2>1. AskedOK(c)' /\ ConnOK(c)'
    BY <1>1, <1>2 DEF PipeInv, AskedOK, ConnOK, primary, IsTcp
  <2>2. c \notin mixed' => RequestOK(c)' /\ AnswerOK(c)'
    BY <1>1, <1>2 DEF PipeInv, ConnOK, RequestOK, AnswerOK, Good, Ended, None, IsTcp
  <2>3. ClosedOK(c)'
    BY <1>1, <1>2 DEF PipeInv, ClosedOK, ConnOK, primary
  <2> QED
    BY <2>1, <2>2, <2>3 DEF PipeInv
<1> QED
  BY <1>1, <1>3, <1>4, <1>5, OnePipe

\* What was collected last is in the buffer.
LEMMA AskedNow ==
  ASSUME ExchangeInv
  PROVE  /\ Collected \in Int /\ Collected <= vblank
         /\ buffer # << >> => Collected <= LastOf(buffer)
  BY DEF ExchangeInv, PrimaryTypes, BufferOK, Collected

LEMMA SendInv == ASSUME ExchangeInv, NEW c \in Pipes, Send(c) PROVE ExchangeInv'
<1> USE DEF ExchangeInv
<1>1. /\ pc[c] = "send" /\ conn[c] # "reset" /\ PipeInv(c) /\ ~killed
      /\ UNCHANGED <<transport, primary, count, answer, inbox, clientDone, killed,
                     refused, mixed>>
      /\ askedAt' = [askedAt EXCEPT ![c] = Collected]
      /\ pc' = [pc EXCEPT ![c] = "recv"]
  BY AliveSteps DEF Send, history
<1>2. count[c] \in Nat \ {0} /\ request[c] \in Seq(Nat \ {0})
  BY DEF PipeTypes
<1>3. /\ request' = [request EXCEPT ![c] = request'[c]]
      /\ conn' = [conn EXCEPT ![c] = conn'[c]]
      /\ request'[c] \in {request[c], Append(request[c], count[c])}
      /\ conn'[c] = IF conn[c] = "closed" THEN "reset" ELSE conn[c]
  <2>1. IsPtp => conn[c] = "none"
    BY <1>1 DEF PipeInv, ConnOK, IsPtp, IsTcp
  <2>2. /\ request' \in {request, [request EXCEPT ![c] = Append(@, count[c])]}
        /\ conn' = IF conn[c] = "closed" THEN [conn EXCEPT ![c] = "reset"] ELSE conn
    BY <2>1 DEF Send, PipeTypes
  <2> QED
    BY <2>2 DEF PipeTypes
<1>4. /\ request'[c] \in Seq(Nat \ {0})
      /\ request[c] = << >> => request'[c] \in {<< >>, <<count[c]>>}
  <2>1. CASE request'[c] = request[c]
    BY <1>2, <2>1
  <2>2. CASE request'[c] = Append(request[c], count[c])
    <3>1. Append(request[c], count[c]) \in Seq(Nat \ {0})
      BY <1>2, AppendProperties
    <3>2. Append(<< >>, count[c]) = <<count[c]>>
      OBVIOUS
    <3> QED
      BY <2>2, <3>1, <3>2
  <2> QED
    BY <1>3, <2>1, <2>2
<1>5. PipeTypes'
  BY <1>1, <1>3, <1>4, AskedNow DEF PipeTypes, Places, Ended, IsPtp
<1>6. \A d \in Pipes \ {c} : Untouched(d)
  BY <1>1, <1>3 DEF Untouched, PipeTypes
<1>7. pc'[c] = "recv" /\ askedAt'[c] = Collected
  BY <1>1 DEF PipeTypes
<1>8. PipeInv(c)'
  <2>1. AskedOK(c)'
    BY <1>1, <1>7, AskedNow DEF AskedOK, primary
  <2>2. ConnOK(c)'
    BY <1>1, <1>3, <1>7 DEF PipeInv, ConnOK, IsTcp
  <2>3. c \notin mixed' => RequestOK(c)' /\ AnswerOK(c)'
    BY <1>1, <1>3, <1>4, <1>7 DEF PipeInv, ConnOK, RequestOK, AnswerOK, Ended, None
  <2>4. ClosedOK(c)'
    BY <1>1, <1>3, <1>7 DEF PipeInv, ClosedOK, primary
  <2> QED
    BY <2>1, <2>2, <2>3, <2>4 DEF PipeInv
<1> QED
  BY <1>1, <1>5, <1>6, <1>8, OnePipe

LEMMA HeadOfOne ==
  ASSUME NEW S, NEW s \in Seq(S), s # << >>
  PROVE  /\ Head(s) = s[1] /\ Head(s) \in S /\ Tail(s) \in Seq(S)
         /\ Len(s) = 1 => Tail(s) = << >>
<1>1. Head(s) \in S /\ Tail(s) \in Seq(S) /\ Len(Tail(s)) = Len(s) - 1
  BY HeadTailProperties
<1>2. Tail(s) # << >> => Len(Tail(s)) \in Nat \ {0}
  BY <1>1, EmptySeq
<1> QED
  BY <1>1, <1>2

LEMMA ReceiveInv == ASSUME ExchangeInv, NEW c \in Pipes, Receive(c) PROVE ExchangeInv'
<1> USE DEF ExchangeInv
<1>1. /\ pc[c] = "recv" /\ ~clientDone /\ inbox[c] # << >> /\ PipeInv(c) /\ ~killed
      /\ UNCHANGED <<transport, primary, count, askedAt, conn, request, clientDone,
                     killed, refused, mixed>>
      /\ answer' = [answer EXCEPT ![c] = Head(inbox[c])]
      /\ inbox' = [inbox EXCEPT ![c] = Tail(@)]
      /\ pc' = [pc EXCEPT ![c] = "got"]
  BY AliveSteps DEF Receive, history
<1>2. inbox[c] \in Seq(Chronological)
  BY DEF PipeTypes
<1>3. Head(inbox[c]) \in Chronological /\ Tail(inbox[c]) \in Seq(Chronological)
  BY <1>1, <1>2, HeadTailProperties
<1>4. PipeTypes'
  BY <1>1, <1>3 DEF PipeTypes, Places, IsPtp
<1>5. \A d \in Pipes \ {c} : Untouched(d)
  BY <1>1 DEF Untouched, PipeTypes
<1>6. pc'[c] = "got" /\ answer'[c] = Head(inbox[c]) /\ inbox'[c] = Tail(inbox[c])
  BY <1>1 DEF PipeTypes
<1>7. PipeInv(c)'
  <2>1. AskedOK(c)' /\ ConnOK(c)' /\ ClosedOK(c)'
    BY <1>1, <1>6 DEF PipeInv, AskedOK, ConnOK, ClosedOK, primary, IsTcp
  <2>2. ASSUME c \notin mixed PROVE RequestOK(c)' /\ AnswerOK(c)'
    <3>1. Len(inbox[c]) = 1 /\ Good(c, inbox[c][1])
      BY <1>1, <2>2 DEF PipeInv, AnswerOK
    <3>2. Head(inbox[c]) = inbox[c][1] /\ Tail(inbox[c]) = << >>
      BY <1>1, <1>2, <3>1, HeadOfOne
    <3>3. Good(c, answer[c])'
      BY <1>1, <1>6, <3>1, <3>2 DEF Good
    <3>4. request[c] # << >> /\ conn[c] \notin Ended => inbox[c] = << >>
      BY <1>1, <2>2 DEF PipeInv, RequestOK
    <3>5. ~IsTcp => conn[c] \notin Ended
      BY DEF PipeInv, ConnOK, Ended
    <3> QED
      BY <1>1, <1>6, <3>2, <3>3, <3>4, <3>5 DEF RequestOK, AnswerOK, IsTcp
  <2> QED
    BY <1>1, <2>1, <2>2 DEF PipeInv
<1> QED
  BY <1>1, <1>4, <1>5, <1>7, OnePipe

LEMMA ReceiveElseInv ==
  ASSUME ExchangeInv, NEW c \in Pipes, ReceiveFails(c) \/ ReceiveNothing(c)
  PROVE  ExchangeInv'
<1> USE DEF ExchangeInv
<1>1. /\ pc[c] = "recv" /\ PipeInv(c) /\ ~killed
      /\ UNCHANGED <<transport, primary, count, answer, askedAt, conn, request, inbox,
                     clientDone, killed, refused, mixed>>
      /\ \/ /\ pc' = [pc EXCEPT ![c] = "send"] /\ ~clientDone
            /\ inbox[c] = << >> /\ conn[c] \in Ended
         \/ pc' = [pc EXCEPT ![c] = "got"] /\ clientDone
  BY AliveSteps DEF ReceiveFails, ReceiveNothing, socket, history, Ended
<1>2. PipeTypes'
  BY <1>1 DEF PipeTypes, Places, IsPtp
<1>3. \A d \in Pipes \ {c} : Untouched(d)
  BY <1>1 DEF Untouched, PipeTypes
<1>4. \/ pc'[c] = "send" /\ inbox[c] = << >> /\ conn[c] \in Ended
      \/ pc'[c] = "got" /\ clientDone
  BY <1>1 DEF PipeTypes
<1>5. PipeInv(c)'
  <2>1. AskedOK(c)' /\ ConnOK(c)'
    BY <1>1, <1>4 DEF PipeInv, AskedOK, ConnOK, primary, IsTcp
  <2>2. c \notin mixed' => RequestOK(c)' /\ AnswerOK(c)'
    BY <1>1, <1>4 DEF PipeInv, RequestOK, AnswerOK, Good, Ended, None, IsTcp
  <2>3. ClosedOK(c)'
    BY <1>1, <1>4 DEF PipeInv, ClosedOK, Ended, primary
  <2> QED
    BY <2>1, <2>2, <2>3 DEF PipeInv
<1> QED
  BY <1>1, <1>2, <1>3, <1>5, OnePipe

LEMMA CaptureLocalInv == ASSUME ExchangeInv, NEW c \in Pipes, CaptureLocal(c) PROVE ExchangeInv'
<1> USE DEF ExchangeInv
<1>1. /\ IsLocal /\ pc[c] = "idle" /\ PipeInv(c) /\ ~killed
      /\ UNCHANGED <<transport, primary, count, conn, request, inbox, clientDone,
                     killed, refused, mixed>>
      /\ askedAt' = [askedAt EXCEPT ![c] = Collected]
  BY AliveSteps DEF CaptureLocal, socket, history
<1>2. count[c] \in Nat \ {0}
  BY DEF PipeTypes
<1>3. /\ pc' = [pc EXCEPT ![c] = pc'[c]] /\ answer' = [answer EXCEPT ![c] = answer'[c]]
      /\ \/ /\ Enough(count[c]) /\ pc'[c] = "got"
            /\ answer'[c] = LastVsyncs(count[c])
         \/ pc'[c] = "exited" /\ answer'[c] = answer[c]
  BY DEF CaptureLocal, PipeTypes
<1>4. pc'[c] \in Places /\ answer'[c] \in Chronological
  BY <1>2, <1>3, LastOnes DEF PipeTypes, Places
<1>5. PipeTypes'
  BY <1>1, <1>3, <1>4, AskedNow DEF PipeTypes, IsPtp
<1>6. \A d \in Pipes \ {c} : Untouched(d)
  BY <1>1, <1>3 DEF Untouched, PipeTypes
<1>7. askedAt'[c] = Collected
  BY <1>1 DEF PipeTypes
<1>8. PipeInv(c)'
  <2>1. AskedOK(c)'
    BY <1>1, <1>7, AskedNow DEF AskedOK, primary
  <2>2. ConnOK(c)' /\ ClosedOK(c)'
    BY <1>1, <1>3 DEF PipeInv, ConnOK, ClosedOK, primary, IsTcp
  <2>3. ASSUME c \notin mixed PROVE RequestOK(c)' /\ AnswerOK(c)'
    <3>1. request[c] = << >> /\ inbox[c] = << >> /\ answer[c] = None
      BY <1>1, <2>3 DEF PipeInv, ConnOK, RequestOK, AnswerOK, Ended
    <3>2. pc'[c] = "got" => Good(c, answer[c])'
      <4> SUFFICES ASSUME pc'[c] = "got" PROVE Good(c, answer[c])'
        OBVIOUS
      <4>1. Enough(count[c]) /\ answer'[c] = LastVsyncs(count[c])
        BY <1>3
      <4>2. Len(answer'[c]) = count[c] /\ LastOf(answer'[c]) = LastOf(buffer) /\ buffer # << >>
        BY <1>2, <4>1, LastOnes
      <4> QED
        BY <1>1, <1>7, <4>2, AskedNow DEF Good
    <3> QED
      BY <1>1, <1>3, <3>1, <3>2 DEF RequestOK, AnswerOK, None
  <2> QED
    BY <1>1, <2>1, <2>2, <2>3 DEF PipeInv
<1> QED
  BY <1>1, <1>5, <1>6, <1>8, OnePipe

LEMMA NextIterationInv ==
  ASSUME ExchangeInv, NEW c \in Pipes, NextIteration(c)
  PROVE  ExchangeInv'
<1> USE DEF ExchangeInv
<1>1. /\ pc[c] = "got" /\ PipeInv(c) /\ ~killed
      /\ UNCHANGED <<transport, primary, clientDone, killed, mixed>>
      /\ conn' = [conn EXCEPT ![c] = "none"]
      /\ inbox' = [inbox EXCEPT ![c] = << >>]
      /\ request' = IF IsTcp THEN [request EXCEPT ![c] = << >>] ELSE request
      /\ answer' = [answer EXCEPT ![c] = None]
      /\ count' = [count EXCEPT ![c] = NextCount]
      /\ askedAt' = [askedAt EXCEPT ![c] = 0]
      /\ refused' = [refused EXCEPT ![c] = FALSE]
      /\ \/ ~clientDone /\ pc' = [pc EXCEPT ![c] = "idle"]
         \/ pc' = [pc EXCEPT ![c] = "exited"]
  BY AliveSteps DEF NextIteration
<1>2. /\ << >> \in Seq(Chronological) /\ << >> \in Seq(Nat \ {0})
      /\ None \in Chronological /\ NextCount \in Nat \ {0}
  BY EmptySeq, EmptyChronological, Counts DEF None
<1>3. PipeTypes'
  <2>1. conn' \in [Pipes -> {"none", "backlog", "open"} \cup Ended] /\ pc' \in [Pipes -> Places]
    BY <1>1 DEF PipeTypes, Places
  <2>2. /\ inbox' \in [Pipes -> Seq(Chronological)] /\ request' \in [Pipes -> Seq(Nat \ {0})]
        /\ answer' \in [Pipes -> Chronological] /\ count' \in [Pipes -> Nat \ {0}]
    BY <1>1, <1>2 DEF PipeTypes
  <2>3. askedAt' \in [Pipes -> Int] /\ refused' \in [Pipes -> BOOLEAN]
    BY <1>1 DEF PipeTypes
  <2> QED
    BY <1>1, <2>1, <2>2, <2>3 DEF PipeTypes, IsPtp
<1>4. \A d \in Pipes \ {c} : Untouched(d)
  BY <1>1 DEF Untouched, PipeTypes
<1>5. /\ conn'[c] = "none" /\ inbox'[c] = << >> /\ answer'[c] = None /\ askedAt'[c] = 0
      /\ IsTcp => request'[c] = << >>
      /\ ~IsTcp => request'[c] = request[c]
      /\ \/ ~clientDone /\ pc'[c] = "idle"
         \/ pc'[c] = "exited"
  BY <1>1 DEF PipeTypes
<1>6. PipeInv(c)'
  <2>1. AskedOK(c)'
    <3>1. 0 <= vblank /\ (buffer # << >> => 0 <= LastOf(buffer))
      BY LastIsLatest DEF PrimaryTypes
    <3> QED
      BY <1>1, <1>5, <3>1 DEF AskedOK, primary
  <2>2. ConnOK(c)' /\ ClosedOK(c)'
    BY <1>5 DEF ConnOK, ClosedOK
  <2>3. c \notin mixed' => RequestOK(c)' /\ AnswerOK(c)'
    BY <1>1, <1>5 DEF PipeInv, RequestOK, AnswerOK
  <2> QED
    BY <2>1, <2>2, <2>3 DEF PipeInv
<1> QED
  BY <1>1, <1>3, <1>4, <1>6, OnePipe

-----------------------------------------------------------------------------
(* The steps that concern several pipes.                                   *)

LEMMA SendKilledInv == ASSUME ExchangeInv, NEW c \in Pipes, SendKilled(c) PROVE ExchangeInv'
<1> USE DEF ExchangeInv
<1>1. /\ pc[c] = "send" /\ conn[c] = "reset" /\ PipeInv(c)
      /\ UNCHANGED <<transport, primary, count, clientDone, refused, mixed>>
      /\ killed' = TRUE
      /\ pc' = [d \in Pipes |-> "exited"] /\ conn' = [d \in Pipes |-> "none"]
      /\ request' = [d \in Pipes |-> << >>] /\ inbox' = [d \in Pipes |-> << >>]
      /\ answer' = [d \in Pipes |-> << >>] /\ askedAt' = [d \in Pipes |-> 0]
  BY DEF SendKilled, history, None
<1>2. << >> \in Seq(Chronological) /\ << >> \in Seq(Nat \ {0}) /\ << >> \in Chronological
  BY EmptySeq, EmptyChronological
<1>3. PipeTypes'
  <2>1. /\ inbox' \in [Pipes -> Seq(Chronological)] /\ request' \in [Pipes -> Seq(Nat \ {0})]
        /\ answer' \in [Pipes -> Chronological]
    BY <1>1, <1>2
  <2>2. /\ pc' \in [Pipes -> Places] /\ conn' \in [Pipes -> {"none", "backlog", "open"} \cup Ended]
        /\ askedAt' \in [Pipes -> Int]
    BY <1>1 DEF Places
  <2>3. killed' \in BOOLEAN /\ clientDone' \in BOOLEAN
    BY <1>1 DEF PipeTypes
  <2> QED
    BY <1>1, <2>1, <2>2, <2>3 DEF PipeTypes, IsPtp
<1>4. PrimaryTypes' /\ BufferOK'
  BY <1>1 DEF PrimaryTypes, BufferOK, Collected, primary
<1>5. ASSUME NEW d \in Pipes PROVE PipeInv(d)'
  <2>1. /\ pc'[d] = "exited" /\ conn'[d] = "none" /\ inbox'[d] = << >> /\ answer'[d] = None
        /\ askedAt'[d] = 0
    BY <1>1 DEF None
  <2>2. 0 <= vblank /\ (buffer # << >> => 0 <= LastOf(buffer))
    BY LastIsLatest DEF PrimaryTypes
  <2> QED
    BY <1>1, <2>1, <2>2 DEF PipeInv, AskedOK, ConnOK, RequestOK, AnswerOK, ClosedOK, primary
<1>6. KilledOK'
  <2>1. ~serverUp \/ refused[c]
    BY <1>1 DEF PipeInv, ClosedOK
  <2> QED
    BY <1>1, <2>1 DEF KilledOK, primary
<1> QED
  BY <1>3, <1>4, <1>5, <1>6

\* The answer that the served pipe, and in PTP mode every pipe, finds or not.
LEMMA ServeInboxes ==
  ASSUME ExchangeInv, NEW c \in Pipes, Serve(c), NEW d \in Pipes
  PROVE  /\ inbox'[d] \in Seq(Chronological)
         /\ inbox'[d] # inbox[d] => SocketOpen(d) /\ (d = c \/ IsPtp) /\ inbox'[d] # << >>
         /\ d = c /\ pc[c] = "recv" /\ inbox[c] = << >> =>
              IF Enough(Head(request[c]))
              THEN inbox'[c] = <<LastVsyncs(Head(request[c]))>> /\ UNCHANGED refused
              ELSE inbox'[c] = << >>
<1> DEFINE n == Head(request[c])
           msg == LastVsyncs(n)
<1>0. PrimaryTypes /\ PipeTypes
  BY DEF ExchangeInv
<1>1. n \in Nat \ {0}
  BY <1>0, HeadTailProperties DEF Serve, HasRequest, PipeTypes
<1>2. inbox[d] \in Seq(Chronological) /\ MaxQueue \in Nat \ {0}
  BY <1>0, Counts DEF PipeTypes
<1>3. CASE ~Enough(n)
  BY <1>2, <1>3 DEF Serve
<1>4. CASE Enough(n)
  <2>1. /\ inbox'[d] = IF (d = c \/ IsPtp) /\ SocketOpen(d) /\ Len(inbox[d]) < MaxQueue
                       THEN Append(inbox[d], msg) ELSE inbox[d]
        /\ UNCHANGED refused
    BY <1>4 DEF Serve, Delivered
  <2>2. msg \in Chronological
    BY <1>0, <1>1, <1>4, LastOnes
  <2> HIDE DEF msg
  <2>3. Append(inbox[d], msg) \in Seq(Chronological) /\ Append(inbox[d], msg) # << >>
    BY <1>2, <2>2, AppendProperties
  <2>4. Len(<< >>) < MaxQueue /\ Append(<< >>, msg) = <<msg>>
    BY <1>2
  <2>5. pc[c] = "recv" => SocketOpen(c)
    BY DEF SocketOpen
  <2> QED
    BY <1>2, <1>4, <2>1, <2>3, <2>4, <2>5 DEF msg
<1> QED
  BY <1>3, <1>4

LEMMA ServeInv == ASSUME ExchangeInv, NEW c \in Pipes, Serve(c) PROVE ExchangeInv'
<1> USE DEF ExchangeInv
<1> DEFINE n == Head(request[c])
<1>1. /\ serverUp /\ request[c] # << >> /\ (IsTcp => conn[c] = "open")
      /\ UNCHANGED <<transport, primary, pc, count, answer, askedAt, clientDone, killed>>
      /\ refused' = [refused EXCEPT ![c] = refused'[c]] /\ refused'[c] \in {refused[c], TRUE}
      /\ ~Enough(n) => refused'[c]
      /\ request' = [request EXCEPT ![c] = Tail(@)]
      /\ conn' = [conn EXCEPT ![c] = IF conn[c] = "open" THEN "closed" ELSE conn[c]]
      /\ mixed' = mixed \cup {d \in Pipes \ {c} : inbox'[d] # inbox[d]}
  BY DEF Serve, HasRequest, PipeTypes, client
<1>2. request[c] \in Seq(Nat \ {0}) /\ Tail(request[c]) \in Seq(Nat \ {0})
  BY <1>1, HeadTailProperties DEF PipeTypes
<1>3. PipeTypes'
  <2>1. DOMAIN inbox' = Pipes /\ inbox' = [d \in Pipes |-> inbox'[d]]
    BY DEF Serve, Delivered, PipeTypes
  <2>2. inbox' \in [Pipes -> Seq(Chronological)]
    BY <2>1, ServeInboxes
  <2>3. mixed' # {} => IsPtp
    BY <1>1, ServeInboxes DEF PipeTypes
  <2>4. refused' \in [Pipes -> BOOLEAN]
    BY <1>1 DEF PipeTypes
  <2>5. request' \in [Pipes -> Seq(Nat \ {0})]
    BY <1>1, <1>2 DEF PipeTypes
  <2>6. conn' \in [Pipes -> {"none", "backlog", "open"} \cup Ended]
    BY <1>1 DEF PipeTypes, Ended
  <2>7. mixed' \subseteq Pipes
    BY <1>1 DEF PipeTypes
  <2> QED
    BY <1>1, <2>2, <2>3, <2>4, <2>5, <2>6, <2>7 DEF PipeTypes, IsPtp
<1>4. PrimaryTypes' /\ BufferOK'
  BY <1>1 DEF PrimaryTypes, BufferOK, Collected, primary
<1>5. ASSUME NEW d \in Pipes, d # c PROVE PipeInv(d)'
  <2>1. /\ PipeInv(d)
        /\ pc'[d] = pc[d] /\ count'[d] = count[d] /\ conn'[d] = conn[d]
        /\ request'[d] = request[d] /\ answer'[d] = answer[d]
        /\ askedAt'[d] = askedAt[d] /\ refused'[d] = refused[d]
    BY <1>1, <1>5 DEF PipeTypes
  <2>2. AskedOK(d)' /\ ConnOK(d)'
    BY <1>1, <2>1 DEF PipeInv, AskedOK, ConnOK, primary, IsTcp
  <2>3. CASE inbox'[d] = inbox[d]
    <3>1. Untouched(d) /\ Steady
      BY <1>1, <2>1, <2>3 DEF Untouched, Steady, primary
    <3> QED
      BY <2>1, <2>2, <3>1, UntouchedInv
  <2>4. CASE inbox'[d] # inbox[d]
    <3>1. d \in mixed' /\ IsPtp
      BY <1>1, <1>5, <2>4, ServeInboxes
    <3>2. conn[d] = "none"
      BY <2>1, <3>1 DEF PipeInv, ConnOK, IsPtp, IsTcp
    <3>3. ClosedOK(d)'
      BY <2>1, <3>2 DEF ClosedOK
    <3> QED
      BY <2>2, <3>1, <3>3 DEF PipeInv
  <2> QED
    BY <2>3, <2>4
<1>6. PipeInv(c)'
  <2>1. /\ PipeInv(c) /\ pc'[c] = pc[c] /\ request'[c] = Tail(request[c])
        /\ conn'[c] = IF conn[c] = "open" THEN "closed" ELSE conn[c]
        /\ conn[c] \notin Ended
    BY <1>1 DEF PipeInv, ConnOK, PipeTypes, Ended
  <2>2. AskedOK(c)' /\ ConnOK(c)'
    BY <1>1, <2>1 DEF PipeInv, AskedOK, ConnOK, primary, IsTcp
  <2>3. ASSUME c \notin mixed, pc[c] = "recv"
        PROVE  /\ request'[c] = << >>
               /\ IF Enough(n) THEN inbox'[c] = <<LastVsyncs(n)>> /\ Good(c, LastVsyncs(n))
                               ELSE inbox'[c] = << >>
    <3>1. request[c] = <<count[c]>> /\ inbox[c] = << >>
      BY <1>1, <2>1, <2>3 DEF PipeInv, RequestOK
    <3>2. n = count[c] /\ Tail(request[c]) = << >> /\ n \in Nat \ {0}
      <4>1. Len(request[c]) = 1 /\ request[c][1] = count[c]
        BY <3>1
      <4> QED
        BY <1>1, <1>2, <4>1, HeadOfOne DEF PipeTypes
    <3>3. Enough(n) => Good(c, LastVsyncs(n))
      <4> SUFFICES ASSUME Enough(n) PROVE Good(c, LastVsyncs(n))
        OBVIOUS
      <4> HIDE DEF n
      <4>1. /\ Len(LastVsyncs(n)) = n /\ LastOf(LastVsyncs(n)) = LastOf(buffer)
            /\ buffer # << >>
        BY <3>2, LastOnes
      <4>2. LastOf(buffer) >= askedAt[c]
        BY <2>1, <4>1, LastIsLatest DEF PipeInv, AskedOK, PrimaryTypes, PipeTypes
      <4> QED
        BY <3>2, <4>1, <4>2 DEF Good
    <3> QED
      BY <2>1, <2>3, <3>1, <3>2, <3>3, ServeInboxes
  <2>4. ASSUME c \notin mixed' PROVE RequestOK(c)' /\ AnswerOK(c)'
    <3>1. c \notin mixed /\ RequestOK(c) /\ AnswerOK(c)
      BY <1>1, <2>1, <2>4 DEF PipeInv
    <3>2. pc[c] \in {"recv", "got", "exited"}
      BY <1>1, <2>1, <3>1 DEF RequestOK, PipeTypes, Places
    <3>3. CASE pc[c] = "recv"
      <4>1. answer'[c] = None
        BY <1>1, <3>1, <3>3 DEF AnswerOK
      <4>2. RequestOK(c)'
        BY <2>1, <2>3, <3>1, <3>3 DEF RequestOK
      <4>3. CASE Enough(n)
        <5> HIDE DEF n
        <5>1. inbox'[c] = <<LastVsyncs(n)>> /\ Good(c, LastVsyncs(n))
          BY <2>3, <3>1, <3>3, <4>3
        <5>2. Len(inbox'[c]) = 1 /\ inbox'[c][1] = LastVsyncs(n)
          BY <5>1
        <5>3. Good(c, inbox[c][1])'
          BY <1>1, <5>1, <5>2 DEF Good
        <5> QED
          BY <2>1, <3>3, <4>1, <4>2, <5>2, <5>3 DEF AnswerOK
      <4>4. CASE ~Enough(n)
        BY <2>3, <3>1, <3>3, <4>1, <4>2, <4>4 DEF AnswerOK
      <4> QED
        BY <4>3, <4>4
    <3>4. CASE pc[c] \in {"got", "exited"}
      <4>1. inbox'[c] = inbox[c]
        BY <3>4, ServeInboxes DEF SocketOpen
      <4> QED
        BY <1>1, <2>1, <3>1, <3>4, <4>1 DEF RequestOK, AnswerOK, Good, None, IsTcp
    <3> QED
      BY <3>2, <3>3, <3>4
  <2>5. ClosedOK(c)'
    <3> SUFFICES ASSUME ~refused'[c], conn'[c] = "closed"
                 PROVE  (pc[c] = "recv" /\ inbox'[c] # << >>) \/ pc[c] = "got"
      BY <2>1 DEF ClosedOK, Ended
    <3>1. conn[c] = "open" /\ IsTcp /\ Enough(n) /\ mixed = {}
      BY <1>1, <2>1 DEF PipeInv, ConnOK, Ended, PipeTypes, IsTcp, IsPtp
    <3>2. pc[c] \in {"recv", "got"}
      BY <1>1, <2>1, <3>1 DEF PipeInv, RequestOK, ConnOK, PipeTypes, Places, Ended
    <3>3. pc[c] = "recv" => inbox'[c] = <<LastVsyncs(n)>>
      BY <2>3, <3>1
    <3>4. \A m : <<m>> # << >>
      OBVIOUS
    <3> QED
      BY <3>2, <3>3, <3>4
  <2> QED
    BY <2>2, <2>4, <2>5 DEF PipeInv
<1>7. KilledOK'
  BY <1>1 DEF KilledOK, primary, PipeTypes
<1> QED
  BY <1>3, <1>4, <1>5, <1>6, <1>7

LEMMA StopInv == ASSUME ExchangeInv, StopPrimary PROVE ExchangeInv'
<1> USE DEF ExchangeInv
<1>1. /\ serverUp' = FALSE
      /\ conn' = [c \in Pipes |-> conn'[c]]
      /\ \A c \in Pipes : /\ conn'[c] = conn[c] \/ (conn'[c] \in Ended /\ conn[c] # "none")
                          /\ conn[c] \in Ended => conn'[c] \in Ended
      /\ request' = [c \in Pipes |-> << >>]
      /\ buffer' = << >> /\ collector' = "wait"
      /\ UNCHANGED <<transport, vblank, pc, count, answer, askedAt, inbox, clientDone,
                     killed, refused, mixed>>
  BY DEF StopPrimary, Ended, client, history
<1>2. PrimaryTypes' /\ BufferOK'
  BY <1>1, EmptyChronological DEF PrimaryTypes, BufferOK
<1>3. PipeTypes'
  <2>1. << >> \in Seq(Nat \ {0})
    BY EmptySeq
  <2>2. request' \in [Pipes -> Seq(Nat \ {0})]
    BY <1>1, <2>1
  <2>3. conn' \in [Pipes -> {"none", "backlog", "open"} \cup Ended]
    BY <1>1 DEF PipeTypes
  <2> QED
    BY <1>1, <2>2, <2>3 DEF PipeTypes, IsPtp
<1>4. ASSUME NEW c \in Pipes PROVE PipeInv(c)'
  <2>1. PipeInv(c) /\ request'[c] = << >>
    BY <1>1
  <2>2. AskedOK(c)' /\ ConnOK(c)' /\ ClosedOK(c)'
    BY <1>1, <2>1 DEF PipeInv, AskedOK, ConnOK, ClosedOK, IsTcp
  <2>3. c \notin mixed' => RequestOK(c)' /\ AnswerOK(c)'
    BY <1>1, <2>1 DEF PipeInv, RequestOK, AnswerOK, Good, None
  <2> QED
    BY <2>2, <2>3 DEF PipeInv
<1>5. KilledOK'
  BY <1>1 DEF KilledOK
<1> QED
  BY <1>2, <1>3, <1>4, <1>5

-----------------------------------------------------------------------------
(* The theorems.                                                           *)

LEMMA NextInv == ExchangeInv /\ [Next]_vars => ExchangeInv'
<1> SUFFICES ASSUME ExchangeInv, [Next]_vars PROVE ExchangeInv'
  OBVIOUS
<1>1. CASE CollectorStep \/ CtrlC \/ UNCHANGED vars
  BY <1>1, CollectorInv
<1>2. ASSUME NEW c \in Pipes, Accept(c) \/ Serve(c) \/ PipeStep(c) PROVE ExchangeInv'
  BY <1>2, AcceptInv, ServeInv, ConnectInv, SendInv, SendKilledInv, ReceiveInv,
     ReceiveElseInv, CaptureLocalInv, NextIterationInv DEF PipeStep
<1>3. CASE StopPrimary
  BY <1>3, StopInv
<1> QED
  BY <1>1, <1>2, <1>3 DEF Next

\* Requests, answers and connections stay in step (do_msg, recv_msg and the loop of
\* capture_primary_vsync_network), whatever is lost, refused or stopped.
THEOREM InStep == Spec => []ExchangeInv
  BY InitInv, NextInv, PTL DEF Spec

LEMMA InvFresh == ExchangeInv => FreshAndComplete
<1> SUFFICES ASSUME ExchangeInv, NEW c \in Pipes, answer[c] # None
             PROVE  /\ \A i, j \in 1 .. Len(answer[c]) : i < j => answer[c][i] <= answer[c][j]
                    /\ c \in mixed \/ (UpToDate(c) /\ Len(answer[c]) = count[c])
  BY DEF FreshAndComplete
<1>1. answer[c] \in Chronological /\ count[c] \in Nat \ {0} /\ PipeInv(c)
  BY DEF ExchangeInv, PipeTypes
<1>2. answer[c] \in Seq(Nat) /\ Len(answer[c]) \in Nat
  BY <1>1, EmptyChronological
<1>3. \A i, j \in 1 .. Len(answer[c]) : i < j => answer[c][i] <= answer[c][j]
  BY <1>1, <1>2 DEF Chronological, Sorted
<1>4. ASSUME c \notin mixed PROVE UpToDate(c) /\ Len(answer[c]) = count[c]
  <2>1. Good(c, answer[c])
    BY <1>1, <1>4 DEF PipeInv, AnswerOK
  <2>2. Used(c) = answer[c]
    BY <1>2, <2>1, SubSeqFull DEF Good, Used
  <2> QED
    BY <2>1, <2>2 DEF Good, UpToDate, LastOf
<1> QED
  BY <1>3, <1>4

\* For any number of pipes, size of the buffer and counts, a pipe that works with
\* timestamps (find_avg and the search from the ends, secondary.cpp:60-66) has as
\* many as it asked for, in order, up to the last vblank collected when it asked,
\* unless an answer to another pipe has reached its raw socket.
THEOREM Fresh == Spec => []FreshAndComplete
  BY InStep, InvFresh, PTL

\* An ordinary end of a connection never kills the secondary (secondary.cpp:296-300):
\* SIGPIPE takes a primary that has refused one of its pipes, or is gone.
THEOREM RefusalOnly == Spec => []KilledOnlyByRefusal
<1>1. ExchangeInv => KilledOnlyByRefusal
  BY DEF ExchangeInv, KilledOK, KilledOnlyByRefusal
<1> QED
  BY <1>1, InStep, PTL

=============================================================================
