--------------------------- MODULE FrameSync_proofs ---------------------------
(***************************************************************************)
(* Theorems about FrameSync, for every frame length, skew, time ahead,     *)
(* interval, latency and delay.                                            *)
(*                                                                         *)
(* While both processes run, a step is one of the primary, of the          *)
(* secondary, of the network or of time (Steps).  Separate is what holds   *)
(* of each display by itself; TogetherInv relates the two when the         *)
(* announced times are early enough and clear of the vblanks, LateInv when *)
(* they may be as short as they like but the threads and the network are   *)
(* prompt.  Both compare Due, the ticks to what the secondary waits for,   *)
(* with the primary's place in its frame.                                  *)
(***************************************************************************)
EXTENDS FrameSync, SequenceTheorems, TLAPS

Messages == [seq : Updates, target : Nat, age : 0 .. MaxDelay]
Pending == [seq : Updates, target : Nat]

-----------------------------------------------------------------------------
(* Time.                                                                   *)

LEMMA Constants ==
  /\ Frame \in Nat /\ Frame > 0 /\ Buffer \in Nat /\ Buffer > 0
  /\ Interval \in Nat /\ Latency \in Nat /\ MaxDelay \in Nat /\ MaxUpdates \in Nat
  /\ \A s \in Skews : s \in Int /\ -Frame < s /\ s < Frame
  /\ \A a \in Aheads : a \in Nat /\ a > 0
BY FrameAssumption DEF FrameAssumption

LEMMA Division ==
  \A a \in Int : \A b \in Nat \ {0} :
    \E q \in Int : \E r \in 0 .. b - 1 : a \div b = q /\ a % b = r /\ a = b * q + r
<1> SUFFICES ASSUME NEW a \in Int, NEW b \in Nat \ {0}
             PROVE  /\ a \div b \in Int /\ a % b \in 0 .. b - 1
                    /\ a = b * (a \div b) + (a % b)
  BY Zenon
<1> QED
  OBVIOUS

LEMMA Distributes ==
  \A a \in Nat : \A b \in Int : \A c \in Int : a * (b + c) = a * b + a * c
  OBVIOUS

\* Multiples of a frame that differ by less than a frame are the same.
LEMMA Frames ==
  ASSUME NEW n \in Int, NEW m \in Int
  PROVE  /\ Frame * n \in Int /\ Frame * m \in Int
         /\ n < m => Frame * n + Frame <= Frame * m
<1>1. Frame \in Nat \ {0}
  BY Constants
<1>2. n < m => m = n + 1 + (m - n - 1) /\ m - n - 1 \in Nat
  OBVIOUS
<1>3. \A k \in Nat : Frame * (n + 1 + k) = Frame * n + Frame + Frame * k /\ Frame * k \in Nat
  BY <1>1
<1>4. Frame * n \in Int /\ Frame * m \in Int
  BY <1>1
<1> QED
  BY <1>1, <1>2, <1>3, <1>4

\* Times a frame apart fall on the same place in a frame, and a later time less than
\* a frame away on a later one, unless there is a vblank in between.
LEMMA Remainders ==
  ASSUME NEW x \in Int
  PROVE  /\ x % Frame \in 0 .. Frame - 1
         /\ 0 <= x /\ x < Frame => x % Frame = x
         /\ x % Frame = (x + Frame) % Frame
         /\ \A k \in Nat : (x % Frame) + k < Frame => (x + k) % Frame = (x % Frame) + k
<1>1. Frame \in Nat \ {0}
  BY Constants
<1>2. PICK q \in Int, r \in 0 .. Frame - 1 : x % Frame = r /\ x = Frame * q + r
  BY <1>1, Division, Zenon
<1>3. ASSUME NEW k \in Int, NEW n \in Int, r + k - Frame * n >= 0, r + k - Frame * n < Frame
      PROVE  (x + k) % Frame = r + k - Frame * n
  <2>1. PICK q2 \in Int, r2 \in 0 .. Frame - 1 :
          (x + k) % Frame = r2 /\ x + k = Frame * q2 + r2
    <3>1. x + k \in Int
      OBVIOUS
    <3> QED
      BY <1>1, <3>1, Division, Zenon
  <2>2. Frame * q \in Int /\ Frame * q2 \in Int /\ Frame * n \in Int /\ Frame * (q + n) \in Int
    BY Frames
  <2>3. Frame * (q + n) = Frame * q + Frame * n
    <3>1. Frame \in Nat /\ q \in Int /\ n \in Int
      BY <1>1
    <3> QED
      BY <3>1, Distributes, Zenon
  <2>4. q + n = q2
    <3>1. q + n \in Int
      OBVIOUS
    <3>2. ~(q + n < q2)
      <4>1. Frame * (q + n) + Frame > Frame * q2
        BY <1>1, <1>2, <1>3, <2>1, <2>2, <2>3
      <4> QED
        BY <3>1, <4>1, <1>1, <2>2, Frames
    <3>3. ~(q2 < q + n)
      <4>1. Frame * q2 + Frame > Frame * (q + n)
        BY <1>1, <1>2, <1>3, <2>1, <2>2, <2>3
      <4> QED
        BY <3>1, <4>1, <1>1, <2>2, Frames
    <3> QED
      BY <3>1, <3>2, <3>3
  <2>5. Frame * q2 = Frame * q + Frame * n
    BY <2>3, <2>4
  <2> QED
    BY <1>2, <2>1, <2>2, <2>5
<1>4. Frame * 0 = 0 /\ Frame * 1 = Frame
  BY <1>1
<1>5. ASSUME 0 <= x, x < Frame PROVE x % Frame = x
  <2>1. Frame * q \in Int
    BY Frames
  <2>2. q = 0
    <3>1. ~(q < 0)
      BY <1>1, <1>2, <1>4, <1>5, <2>1, Frames
    <3>2. ~(0 < q)
      BY <1>1, <1>2, <1>4, <1>5, <2>1, Frames
    <3> QED
      BY <3>1, <3>2
  <2> QED
    BY <1>2, <1>4, <2>2
<1>6. (x + Frame) % Frame = r
  BY <1>1, <1>2, <1>3, <1>4
<1>7. ASSUME NEW k \in Nat, r + k < Frame PROVE (x + k) % Frame = r + k
  <2>1. r + k - Frame * 0 = r + k /\ r + k >= 0 /\ k \in Int
    BY <1>1, <1>2, <1>4
  <2> QED
    BY <1>3, <1>7, <2>1
<1> QED
  BY <1>1, <1>2, <1>5, <1>6, <1>7

\* One tick further.
LEMMA NextPhase ==
  ASSUME phase \in 0 .. Frame - 1
  PROVE  (phase + 1) % Frame = IF phase + 1 = Frame THEN 0 ELSE phase + 1
<1>1. phase + 1 \in Int /\ phase \in Int
  BY Constants
<1>2. CASE phase + 1 = Frame
  <2>1. 0 % Frame = (0 + Frame) % Frame /\ 0 % Frame = 0
    BY Constants, Remainders
  <2> QED
    BY <1>2, <2>1, Constants
<1>3. CASE phase + 1 # Frame
  BY <1>1, <1>3, Constants, Remainders
<1> QED
  BY <1>2, <1>3

\* TicksToVblank: at most a frame, to a phase at which the display has its vblank,
\* and to the first one.
LEMMA PrimaryVblank ==
  ASSUME phase \in 0 .. Frame - 1
  PROVE  TicksToVblank("primary") = Frame - phase
<1>1. -phase \in Int /\ phase \in Int /\ 0 - phase = -phase
  BY Constants
<1>2. (-phase) % Frame = (-phase + Frame) % Frame
  BY <1>1, Remainders
<1>3. CASE phase = 0
  <2>1. (-phase) % Frame = 0
    BY <1>1, <1>3, Remainders, Constants
  <2> QED
    BY <1>1, <1>3, <2>1, Constants DEF TicksToVblank, VblankPhase
<1>4. CASE phase > 0
  <2>1. (-phase + Frame) % Frame = Frame - phase
    BY <1>1, <1>4, Remainders, Constants
  <2> QED
    BY <1>1, <1>2, <1>4, <2>1, Constants DEF TicksToVblank, VblankPhase
<1> QED
  BY <1>3, <1>4, Constants

LEMMA SecondaryVblank ==
  ASSUME phase \in 0 .. Frame - 1, skew \in Skews
  PROVE  /\ TicksToVblank("secondary") \in 1 .. Frame
         /\ phase + TicksToVblank("secondary") \in {skew, Frame + skew, 2 * Frame + skew}
<1>1. phase \in Int /\ skew \in Int /\ -Frame < skew /\ skew < Frame /\ Frame \in Nat /\ Frame > 0
  BY Constants
<1>2. skew % Frame = IF skew < 0 THEN skew + Frame ELSE skew
  BY <1>1, Remainders
<1> DEFINE x == (skew % Frame) - phase
<1>3. x \in Int /\ -Frame < x /\ x < Frame
  BY <1>1, <1>2
<1>4. x % Frame = IF x < 0 THEN x + Frame ELSE x
  <2> HIDE DEF x
  <2>1. CASE x < 0
    <3>1. (x + Frame) % Frame = x + Frame
      BY <1>1, <1>3, <2>1, Remainders
    <3> QED
      BY <1>3, <2>1, <3>1, Remainders
  <2>2. CASE 0 <= x
    BY <1>3, <2>2, Remainders
  <2> QED
    BY <1>3, <2>1, <2>2
<1>5. TicksToVblank("secondary") = IF x % Frame = 0 THEN Frame ELSE x % Frame
  BY DEF TicksToVblank, VblankPhase
<1> QED
  BY <1>1, <1>2, <1>3, <1>4, <1>5

-----------------------------------------------------------------------------
(* Types.                                                                  *)

\* The primary looks at its window before it announces another update.
MayGoOn == place["primary"] \in {"vblank", "buffer"} => sent < MaxUpdates

TypeInv == TypeOK /\ MayGoOn

LEMMA TicksType ==
  ASSUME phase \in 0 .. Frame - 1, skew \in Skews, NEW d \in Displays
  PROVE  TicksToVblank(d) \in 1 .. Frame
<1>1. CASE d = "primary"
  BY <1>1, PrimaryVblank, Constants
<1>2. CASE d = "secondary"
  BY <1>2, SecondaryVblank
<1> QED
  BY <1>1, <1>2 DEF Displays

\* What Goto does to each display.
LEMMA GotoIs ==
  ASSUME TypeOK, NEW d \in Displays, NEW where, NEW n, Goto(d, where, n)
  PROVE  /\ place'[d] = where /\ left'[d] = n
         /\ lag'[d] = IF n = 0 THEN lag[d] ELSE 0
         /\ \A e \in Displays : e # d =>
              place'[e] = place[e] /\ left'[e] = left[e] /\ lag'[e] = lag[e]
BY DEF Goto, TypeOK

LEMMA GotoTypes ==
  ASSUME TypeOK, NEW d \in Displays, NEW where \in Places, NEW n \in Nat, Goto(d, where, n),
         d = "secondary" => where # "buffer"
  PROVE  /\ place' \in [Displays -> Places] /\ place'["secondary"] # "buffer"
         /\ left' \in [Displays -> Nat] /\ lag' \in [Displays -> 0 .. Latency]
<1>1. place' \in [Displays -> Places] /\ place'["secondary"] # "buffer"
  BY DEF Goto, TypeOK, Displays
<1>2. left' \in [Displays -> Nat]
  BY DEF Goto, TypeOK
<1>3. lag' \in [Displays -> 0 .. Latency]
  BY Constants DEF Goto, TypeOK
<1> QED
  BY <1>1, <1>2, <1>3

LEMMA InitTypes == Init => TypeInv
<1> SUFFICES ASSUME Init PROVE TypeInv
  OBVIOUS
<1>1. skew \in Skews /\ ahead \in Aheads /\ phase \in 0 .. Frame - 1
  BY Constants DEF Init
<1>2. /\ place \in [Displays -> Places] /\ place["secondary"] # "buffer"
      /\ left \in [Displays -> Nat] /\ lag \in [Displays -> 0 .. Latency]
      /\ update \in [Displays -> Updates] /\ shutdown \in [Displays -> BOOLEAN]
  BY Constants DEF Init, Displays, Places, Updates
<1>3. elapsed \in 0 .. Interval /\ sent \in Updates
  BY Constants DEF Init, Updates
<1>4. /\ net \subseteq Messages /\ receiver \in {"on", "out"}
      /\ queue \in Seq(Pending)
  BY DEF Init
<1>5. /\ color \in [Displays -> Updates] /\ age \in [Displays -> 0 .. MaxAge]
      /\ missed \in [Displays -> SUBSET Updates]
  BY Constants DEF Init, Never, MaxAge, Updates
<1>6. MayGoOn
  BY DEF Init, MayGoOn, Displays
<1> QED
  BY <1>1, <1>2, <1>3, <1>4, <1>5, <1>6 DEF TypeInv, TypeOK, Messages, Pending

LEMMA ForgetTypes ==
  ASSUME Forget
  PROVE  /\ color' \in [Displays -> Updates] /\ age' \in [Displays -> 0 .. MaxAge]
         /\ missed' \in [Displays -> SUBSET Updates]
BY Constants DEF Forget, Never, MaxAge, Updates

LEMMA QuitTypes ==
  ASSUME TypeInv, NEW d \in Displays, Quit(d)
  PROVE  /\ place' \in [Displays -> Places] /\ place'["secondary"] # "buffer"
         /\ left' \in [Displays -> Nat] /\ lag' \in [Displays -> 0 .. Latency]
         /\ shutdown' \in [Displays -> BOOLEAN]
         /\ color' \in [Displays -> Updates] /\ age' \in [Displays -> 0 .. MaxAge]
         /\ missed' \in [Displays -> SUBSET Updates]
         /\ place'["primary"] \in {"cleanup", place["primary"]}
<1>1. Goto(d, "cleanup", 0) /\ Forget /\ TypeOK
  BY DEF Quit, TypeInv
<1>2. shutdown' \in [Displays -> BOOLEAN]
  BY <1>1 DEF Quit, TypeOK
<1>3. "cleanup" \in Places /\ 0 \in Nat
  BY DEF Places
<1>4. place'["primary"] \in {"cleanup", place["primary"]}
  BY <1>1, GotoIs DEF Displays
<1> QED
  BY <1>1, <1>2, <1>3, <1>4, GotoTypes, ForgetTypes

\* The main loops.
LEMMA LoopTypes ==
  ASSUME TypeInv, NEW d \in Displays, AwaitVblank(d) \/ Vblank(d) \/ Awake(d) \/ Leave(d)
  PROVE  TypeInv'
<1>1. TypeOK /\ MayGoOn /\ phase \in 0 .. Frame - 1 /\ skew \in Skews
  BY DEF TypeInv, TypeOK
<1>2. TicksToVblank(d) \in Nat
  BY <1>1, TicksType, Constants
<1>3. CASE AwaitVblank(d)
  <2>1. Goto(d, "vblank", TicksToVblank(d)) /\ "vblank" \in Places
    BY <1>3 DEF AwaitVblank, Places
  <2>2. d = "primary" => sent < MaxUpdates
    BY <1>3 DEF AwaitVblank
  <2>3. MayGoOn'
    BY <1>1, <1>3, <2>1, <2>2, GotoIs DEF AwaitVblank, MayGoOn, Displays
  <2> QED
    BY <1>1, <1>2, <1>3, <2>1, <2>3, GotoTypes DEF AwaitVblank, TypeInv, TypeOK, history
<1>4. CASE Vblank(d)
  <2>1. CASE Quit(d)
    <3>1. MayGoOn'
      BY <1>1, <1>4, <2>1, QuitTypes DEF Vblank, MayGoOn
    <3> QED
      BY <1>1, <1>4, <2>1, <3>1, QuitTypes DEF Vblank, TypeInv, TypeOK
  <2>2. CASE ~Quit(d)
    <3>1. PICK where \in {"buffer", "loop"}, n \in {Buffer, 0} :
            Goto(d, where, n) /\ (d = "secondary" => where = "loop")
      BY <1>4, <2>2 DEF Vblank, Displays
    <3>2. where \in Places /\ n \in Nat /\ UNCHANGED <<shutdown, history>>
      BY <1>4, <2>2, Constants DEF Vblank, Places
    <3>3. MayGoOn'
      BY <1>1, <1>4, <3>1, GotoIs DEF Vblank, At, MayGoOn, Displays
    <3> QED
      BY <1>1, <1>4, <3>1, <3>2, <3>3, GotoTypes DEF Vblank, TypeInv, TypeOK, history
  <2> QED
    BY <2>1, <2>2
<1>5. CASE Awake(d)
  <2>1. Goto(d, "present", TicksToVblank(d)) /\ "present" \in Places
    BY <1>5 DEF Awake, Places
  <2>2. MayGoOn'
    BY <1>1, <1>5, <2>1, GotoIs DEF Awake, MayGoOn, Displays
  <2> QED
    BY <1>1, <1>2, <1>5, <2>1, <2>2, GotoTypes DEF Awake, TypeInv, TypeOK, history
<1>6. CASE Leave(d)
  <2>1. MayGoOn'
    BY <1>1, <1>6, QuitTypes DEF Leave, MayGoOn
  <2> QED
    BY <1>1, <1>6, <2>1, QuitTypes DEF Leave, TypeInv, TypeOK
<1> QED
  BY <1>3, <1>4, <1>5, <1>6

LEMMA PrimaryTypes == TypeInv /\ (TooEarly \/ Schedule) => TypeInv'
<1> SUFFICES ASSUME TypeInv, TooEarly \/ Schedule PROVE TypeInv'
  OBVIOUS
<1>1. TypeOK /\ MayGoOn /\ "primary" \in Displays /\ "loop" \in Places /\ "sleep" \in Places
  BY DEF TypeInv, Displays, Places
<1>2. CASE TooEarly
  <2>1. Goto("primary", "loop", 0)
    BY <1>2 DEF TooEarly
  <2>2. MayGoOn'
    BY <1>1, <2>1, GotoIs DEF MayGoOn
  <2> QED
    BY <1>1, <1>2, <2>1, <2>2, GotoTypes DEF TooEarly, TypeInv, TypeOK, history
<1>3. CASE Schedule
  <2>1. Goto("primary", "sleep", ahead) /\ ahead \in Nat
    BY <1>1, <1>3, Constants DEF Schedule, TypeOK
  <2>2. MayGoOn'
    BY <1>1, <2>1, GotoIs DEF MayGoOn
  <2>3. sent < MaxUpdates
    BY <1>1, <1>3 DEF Schedule, At, MayGoOn
  <2>4. sent' \in Updates
    BY <1>1, <1>3, <2>3, Constants DEF Schedule, TypeOK, Updates
  <2>5. update' \in [Displays -> Updates]
    BY <1>1, <1>3, <2>4 DEF Schedule, TypeOK
  <2>6. net' \subseteq Messages
    <3>1. [seq |-> sent', target |-> ahead, age |-> 0] \in Messages
      BY <2>1, <2>4, Constants DEF Messages
    <3> QED
      BY <1>1, <1>3, <3>1 DEF Schedule, TypeOK, Messages
  <2> QED
    BY <1>1, <1>3, <2>1, <2>2, <2>4, <2>5, <2>6, GotoTypes
       DEF Schedule, TypeInv, TypeOK, history, Messages
<1> QED
  BY <1>2, <1>3

LEMMA TakeTypes == TypeInv /\ TakeUpdate => TypeInv'
<1> SUFFICES ASSUME TypeInv, TakeUpdate PROVE TypeInv'
  OBVIOUS
<1>1. TypeOK /\ MayGoOn /\ "secondary" \in Displays /\ "sleep" \in Places
  BY DEF TypeInv, Displays, Places
<1>2. queue \in Seq(Pending) /\ queue # << >>
  BY <1>1 DEF TypeOK, Pending, TakeUpdate
<1>3. Head(queue) \in Pending /\ Tail(queue) \in Seq(Pending)
  BY <1>2
<1>4. Goto("secondary", "sleep", Head(queue).target)
  BY DEF TakeUpdate
<1>5. MayGoOn'
  BY <1>1, <1>4, GotoIs DEF MayGoOn, Displays, TakeUpdate
<1>6. Head(queue).target \in Nat /\ Head(queue).seq \in Updates
  BY <1>3 DEF Pending
<1>7. update' \in [Displays -> Updates]
  BY <1>1, <1>6 DEF TakeUpdate, TypeOK
<1> QED
  BY <1>1, <1>3, <1>4, <1>5, <1>6, <1>7, GotoTypes
     DEF TakeUpdate, TypeInv, TypeOK, history, Pending

LEMMA PresentTypes ==
  ASSUME TypeInv, NEW d \in Displays, Present(d) \/ End(d)
  PROVE  TypeInv'
<1>1. TypeOK /\ MayGoOn /\ "loop" \in Places /\ "ended" \in Places
  BY DEF TypeInv, Displays, Places
<1>2. CASE Present(d)
  <2>1. Goto(d, "loop", 0)
    BY <1>2 DEF Present
  <2>2. MayGoOn'
    BY <1>1, <1>2, <2>1, GotoIs DEF Present, MayGoOn, Displays
  <2>3. /\ color' \in [Displays -> Updates] /\ age' \in [Displays -> 0 .. MaxAge]
        /\ missed' \in [Displays -> SUBSET Updates]
    <3>1. Running \/ UNCHANGED history
      BY <1>2 DEF Present
    <3>2. /\ color \in [Displays -> Updates] /\ age \in [Displays -> 0 .. MaxAge]
          /\ missed \in [Displays -> SUBSET Updates] /\ update[d] \in Updates
          /\ 0 \in 0 .. MaxAge
      BY <1>1, Constants DEF TypeOK, MaxAge
    <3>3. CASE UNCHANGED history
      BY <3>2, <3>3 DEF history
    <3>4. CASE Running /\ color' = [color EXCEPT ![d] = update[d]]
            /\ age' = [age EXCEPT ![d] = 0] /\ UNCHANGED missed
      BY <3>2, <3>4
    <3>5. CASE Running /\ missed' = [missed EXCEPT ![d] = @ \cup {update[d]}]
            /\ UNCHANGED <<color, age>>
      BY <3>2, <3>5
    <3> QED
      BY <1>2, <3>1, <3>3, <3>4, <3>5 DEF Present
  <2>4. elapsed' \in 0 .. Interval
    BY <1>1, <1>2, Constants DEF Present, TypeOK
  <2> QED
    BY <1>1, <1>2, <2>1, <2>2, <2>3, <2>4, GotoTypes DEF Present, TypeInv, TypeOK
<1>3. CASE End(d)
  <2>1. place' \in [Displays -> Places] /\ place'["secondary"] # "buffer"
    BY <1>1, <1>3 DEF End, TypeOK, Displays
  <2>2. lag' \in [Displays -> 0 .. Latency] /\ update' \in [Displays -> Updates]
    BY <1>1, <1>3, Constants DEF End, TypeOK, Updates
  <2>3. MayGoOn'
    BY <1>1, <1>3 DEF End, MayGoOn, TypeOK, Displays
  <2>4. queue' \in Seq(Pending)
    BY <1>1, <1>3 DEF End, TypeOK, Pending
  <2> QED
    BY <1>1, <1>3, <2>1, <2>2, <2>3, <2>4 DEF End, TypeInv, TypeOK, history, Pending
<1> QED
  BY <1>2, <1>3

LEMMA NetworkTypes ==
  ASSUME TypeInv, NEW m \in net, Receive(m) \/ Lose(m)
  PROVE  TypeInv'
<1>1. TypeOK /\ MayGoOn /\ m \in Messages
  BY DEF TypeInv, TypeOK, Messages
<1>2. MayGoOn'
  BY <1>1 DEF Receive, Lose, MayGoOn, main
<1>3. CASE Receive(m)
  <2>1. [seq |-> m.seq, target |-> m.target] \in Pending
    BY <1>1 DEF Messages, Pending
  <2>2. queue' \in Seq(Pending)
    BY <1>1, <1>3, <2>1 DEF Receive, TypeOK, Pending
  <2> QED
    BY <1>1, <1>2, <1>3, <2>2 DEF Receive, TypeInv, TypeOK, main, history, Pending
<1>4. CASE Lose(m)
  <2>1. missed' \in [Displays -> SUBSET Updates]
    BY <1>1, <1>4 DEF Lose, TypeOK, Messages
  <2> QED
    BY <1>1, <1>2, <1>4, <2>1 DEF Lose, TypeInv, TypeOK, main
<1> QED
  BY <1>3, <1>4

LEMMA SignalTypes ==
  ASSUME TypeInv, NEW d \in Displays, CtrlC(d) \/ SelectTimeOut
  PROVE  TypeInv'
<1>1. TypeOK /\ MayGoOn
  BY DEF TypeInv
<1>2. CASE CtrlC(d)
  <2>1. /\ shutdown' \in [Displays -> BOOLEAN] /\ left' \in [Displays -> Nat]
        /\ lag' \in [Displays -> 0 .. Latency] /\ receiver' \in {"on", "out"}
    <3>1. shutdown' = [shutdown EXCEPT ![d] = TRUE] \/ shutdown' = shutdown
      BY <1>2 DEF CtrlC, Interrupted, Blocked
    <3>2. /\ left \in [Displays -> Nat] /\ receiver \in {"on", "out"}
          /\ shutdown \in [Displays -> BOOLEAN] /\ lag \in [Displays -> 0 .. Latency]
      BY <1>1 DEF TypeOK
    <3>3. left' = [left EXCEPT ![d] = 0] \/ left' = left
      BY <1>2 DEF CtrlC, Interrupted, Blocked
    <3>4. receiver' \in {"out", receiver}
      BY <1>2 DEF CtrlC, Interrupted, Blocked
    <3>5. lag' = [lag EXCEPT ![d] = 0] \/ lag' = lag
      BY <1>2 DEF CtrlC, Interrupted, Blocked
    <3>6. shutdown' \in [Displays -> BOOLEAN]
      BY <3>1, <3>2
    <3>7. left' \in [Displays -> Nat]
      BY <3>2, <3>3
    <3>8. lag' \in [Displays -> 0 .. Latency]
      BY <3>2, <3>5, Constants
    <3> QED
      BY <3>2, <3>4, <3>6, <3>7, <3>8
  <2>2. place' = [place EXCEPT ![d] = "stuck"] \/ place' = place
    BY <1>2 DEF CtrlC, Interrupted, Blocked
  <2>3. /\ place' \in [Displays -> Places]
        /\ \A e \in Displays : place'[e] \in {place[e], "stuck"}
    <3>1. place \in [Displays -> Places] /\ "stuck" \in Places
      BY <1>1 DEF TypeOK, Places
    <3> QED
      BY <2>2, <3>1
  <2>4. place'["secondary"] # "buffer"
    BY <1>1, <2>3 DEF TypeOK, Displays
  <2>5. MayGoOn'
    <3>1. sent' = sent
      BY <1>2 DEF CtrlC
    <3> QED
      BY <1>1, <2>3, <3>1 DEF MayGoOn, Displays
  <2> QED
    BY <1>1, <1>2, <2>1, <2>3, <2>4, <2>5, ForgetTypes DEF CtrlC, TypeInv, TypeOK
<1>3. CASE SelectTimeOut
  BY <1>1, <1>3 DEF SelectTimeOut, TypeInv, TypeOK, MayGoOn, main, history
<1> QED
  BY <1>2, <1>3

\* What a tick does to each display, to what is under way and to what is in the queue.
LEMMA TickIs ==
  ASSUME TypeOK, Tick
  PROVE  /\ phase' = IF phase + 1 = Frame THEN 0 ELSE phase + 1
         /\ \A d \in Displays :
              /\ left'[d] = LessOne(left[d]) /\ lag'[d] \in 0 .. Latency
              /\ IF Busy(d) THEN lag'[d] = lag[d] + 1 ELSE lag'[d] = lag[d]
              /\ age'[d] \in 0 .. MaxAge /\ age'[d] <= age[d] + 1
         /\ DOMAIN left' = Displays /\ DOMAIN lag' = Displays /\ DOMAIN age' = Displays
<1>1. phase' = IF phase + 1 = Frame THEN 0 ELSE phase + 1
  BY NextPhase DEF Tick, TypeOK
<1>2. ASSUME NEW d \in Displays
      PROVE  /\ left'[d] = LessOne(left[d]) /\ lag'[d] \in 0 .. Latency
             /\ IF Busy(d) THEN lag'[d] = lag[d] + 1 ELSE lag'[d] = lag[d]
  <2>1. lag[d] \in 0 .. Latency /\ (Busy(d) => lag[d] < Latency)
    BY DEF TypeOK, Tick
  <2>2. /\ lag'[d] = IF Busy(d) THEN lag[d] + 1 ELSE lag[d]
        /\ left'[d] = LessOne(left[d])
    BY DEF Tick
  <2> QED
    BY <2>1, <2>2, Constants
<1>3. ASSUME NEW d \in Displays
      PROVE  age'[d] \in 0 .. MaxAge /\ age'[d] <= age[d] + 1
  <2>1. age[d] \in 0 .. MaxAge /\ MaxAge \in Nat
    BY Constants DEF TypeOK, MaxAge
  <2>2. age'[d] = 0 \/ age'[d] = AtMost(age[d] + 1, MaxAge)
    BY DEF Tick
  <2> QED
    BY <2>1, <2>2 DEF AtMost
<1>4. DOMAIN left' = Displays /\ DOMAIN lag' = Displays /\ DOMAIN age' = Displays
  BY DEF Tick
<1> QED
  BY <1>1, <1>2, <1>3, <1>4

LEMMA NetTick ==
  ASSUME TypeOK, Tick
  PROVE  /\ net' \subseteq Messages
         /\ (net' = {} <=> net = {})
         /\ \A n \in net' : \E m \in net :
              n.seq = m.seq /\ n.target = LessOne(m.target) /\ n.age = m.age + 1
<1>1. ASSUME NEW n \in net'
      PROVE  n \in Messages /\ \E m \in net :
               n.seq = m.seq /\ n.target = LessOne(m.target) /\ n.age = m.age + 1
  <2>1. PICK m \in net : n = [m EXCEPT !.target = LessOne(@), !.age = @ + 1]
    BY DEF Tick
  <2>2. m \in Messages /\ m.age < MaxDelay
    BY DEF Tick, TypeOK, Messages
  <2>3. n.seq = m.seq /\ n.target = LessOne(m.target) /\ n.age = m.age + 1
    BY <2>1, <2>2 DEF Messages
  <2>4. m.age + 1 \in 0 .. MaxDelay /\ LessOne(m.target) \in Nat /\ m.seq \in Updates
    BY <2>2, Constants DEF Messages, LessOne
  <2>5. n = [seq |-> m.seq, target |-> LessOne(m.target), age |-> m.age + 1]
    BY <2>1, <2>2 DEF Messages
  <2>6. n \in Messages
    BY <2>4, <2>5 DEF Messages
  <2> QED
    BY <2>3, <2>6
<1>2. net' = {} <=> net = {}
  <2>1. net' = {[m EXCEPT !.target = LessOne(@), !.age = @ + 1] : m \in net}
    BY DEF Tick
  <2> QED
    BY <2>1
<1> QED
  BY <1>1, <1>2

LEMMA QueueTick ==
  ASSUME TypeOK, Tick
  PROVE  /\ queue' \in Seq(Pending) /\ Len(queue') = Len(queue)
         /\ \A i \in 1 .. Len(queue) :
              queue'[i].seq = queue[i].seq /\ queue'[i].target = LessOne(queue[i].target)
<1>1. queue \in Seq(Pending) /\ Len(queue) \in Nat /\ DOMAIN queue = 1 .. Len(queue)
  BY DEF TypeOK, Pending
<1>2. queue' = [i \in 1 .. Len(queue) |-> [queue[i] EXCEPT !.target = LessOne(@)]]
  BY <1>1 DEF Tick
<1>3. ASSUME NEW i \in 1 .. Len(queue)
      PROVE  /\ [queue[i] EXCEPT !.target = LessOne(@)] \in Pending
             /\ [queue[i] EXCEPT !.target = LessOne(@)].seq = queue[i].seq
             /\ [queue[i] EXCEPT !.target = LessOne(@)].target = LessOne(queue[i].target)
  <2>1. queue[i] \in Pending
    BY <1>1
  <2>2. LessOne(queue[i].target) \in Nat
    BY <2>1 DEF Pending, LessOne
  <2> QED
    BY <2>1, <2>2 DEF Pending
<1>4. queue' \in Seq(Pending) /\ Len(queue') = Len(queue)
  BY <1>1, <1>2, <1>3
<1> QED
  BY <1>2, <1>3, <1>4

LEMMA TickTypes == TypeInv /\ Tick => TypeInv'
<1> SUFFICES ASSUME TypeInv, Tick PROVE TypeInv'
  OBVIOUS
<1>1. TypeOK /\ MayGoOn
  BY DEF TypeInv
<1>2. phase' \in 0 .. Frame - 1
  BY <1>1, TickIs, Constants DEF TypeOK
<1>3. left' \in [Displays -> Nat]
  <2>1. \A d \in Displays : LessOne(left[d]) \in Nat
    BY <1>1 DEF TypeOK, LessOne
  <2> QED
    BY <2>1 DEF Tick
<1>4. lag' \in [Displays -> 0 .. Latency] /\ age' \in [Displays -> 0 .. MaxAge]
  <2>1. \A d \in Displays : lag'[d] \in 0 .. Latency /\ age'[d] \in 0 .. MaxAge
    BY <1>1, TickIs
  <2>2. lag' = [d \in Displays |-> lag'[d]] /\ age' = [d \in Displays |-> age'[d]]
    BY <1>1, TickIs DEF Tick
  <2> QED
    BY <2>1, <2>2
<1>5. elapsed' \in 0 .. Interval
  <2>1. elapsed \in 0 .. Interval /\ elapsed' = AtMost(elapsed + 1, Interval)
    BY <1>1 DEF Tick, TypeOK
  <2> QED
    BY <2>1, Constants DEF AtMost
<1>6. MayGoOn'
  BY <1>1 DEF Tick, MayGoOn
<1>7. net' \subseteq Messages /\ queue' \in Seq(Pending)
  BY <1>1, NetTick, QueueTick
<1>8. UNCHANGED <<skew, ahead, place, update, shutdown, sent, receiver, color, missed>>
  BY DEF Tick
<1> QED
  BY <1>1, <1>2, <1>3, <1>4, <1>5, <1>6, <1>7, <1>8 DEF TypeInv, TypeOK, Messages, Pending

LEMMA NextTypes == TypeInv /\ [Next]_vars => TypeInv'
<1> SUFFICES ASSUME TypeInv, [Next]_vars PROVE TypeInv'
  OBVIOUS
<1>1. CASE UNCHANGED vars
  BY <1>1 DEF vars, main, history, TypeInv, TypeOK, MayGoOn
<1> QED
  BY <1>1, LoopTypes, PrimaryTypes, TakeTypes, PresentTypes, NetworkTypes, SignalTypes, TickTypes
     DEF Next, Main, Network, Displays

LEMMA TypesHold == Spec => []TypeInv
  BY InitTypes, NextTypes, PTL DEF Spec

\* Every thread of framesync is where its loop can be, none is later than the timing
\* allows, and no sequence number exceeds the updates the primary may send.
THEOREM TypeCorrect == Spec => []TypeOK
<1>1. TypeInv => TypeOK
  BY DEF TypeInv
<1> QED
  BY <1>1, TypesHold, PTL

-----------------------------------------------------------------------------
(* What a step is while both processes run.                                *)

Kept(d) ==
  place'[d] = place[d] /\ left'[d] = left[d] /\ lag'[d] = lag[d] /\ update'[d] = update[d]

Moved(d, from, to, n) ==
  /\ place[d] = from /\ left[d] = 0
  /\ place'[d] = to /\ left'[d] = n /\ lag'[d] = IF n = 0 THEN lag[d] ELSE 0

NoTime == phase' = phase /\ skew' = skew /\ ahead' = ahead
NoMail == sent' = sent /\ net' = net /\ queue' = queue
NoShow == color' = color /\ age' = age /\ missed' = missed

\* n ticks from now, at most a frame, the secondary has a vblank.
AtVblank(n) == n \in 1 .. Frame /\ phase + n \in {skew, Frame + skew, 2 * Frame + skew}

Shows(d) ==
  /\ update'[d] = update[d]
  /\ \A e \in Displays : e # d =>
       color'[e] = color[e] /\ age'[e] = age[e] /\ missed'[e] = missed[e]
  /\ \/ color'[d] = update[d] /\ age'[d] = 0 /\ missed'[d] = missed[d]
     \/ color'[d] = color[d] /\ age'[d] = age[d] /\ missed'[d] = missed[d] \cup {update[d]}

\* The steps of the primary.
PrimaryStep ==
  /\ Kept("secondary") /\ NoTime
  /\ \/ /\ \/ Moved("primary", "loop", "vblank", Frame - phase)
           \/ Moved("primary", "vblank", "buffer", Buffer)
           \/ Moved("primary", "buffer", "loop", 0)
           \/ Moved("primary", "sleep", "present", Frame - phase)
        /\ update'["primary"] = update["primary"] /\ NoMail /\ NoShow
     \/ /\ Moved("primary", "present", "loop", 0)
        /\ Shows("primary") /\ NoMail
     \/ /\ Moved("primary", "buffer", "sleep", ahead)
        /\ sent' = sent + 1 /\ update'["primary"] = sent' /\ queue' = queue /\ NoShow
        /\ net' = net \cup {[seq |-> sent', target |-> ahead, age |-> 0]}

\* Those of the secondary.
SecondaryStep ==
  /\ Kept("primary") /\ NoTime
  /\ \/ /\ \/ queue = << >> /\ \E n : AtVblank(n) /\ Moved("secondary", "loop", "vblank", n)
           \/ Moved("secondary", "vblank", "loop", 0)
           \/ \E n : AtVblank(n) /\ Moved("secondary", "sleep", "present", n)
        /\ update'["secondary"] = update["secondary"] /\ NoMail /\ NoShow
     \/ /\ Moved("secondary", "present", "loop", 0)
        /\ Shows("secondary") /\ NoMail
     \/ /\ queue # << >> /\ Moved("secondary", "loop", "sleep", queue[1].target)
        /\ update'["secondary"] = queue[1].seq
        /\ sent' = sent /\ net' = net /\ queue' = Tail(queue) /\ NoShow

\* Those of the network.
NetworkStep ==
  /\ Kept("primary") /\ Kept("secondary") /\ NoTime /\ sent' = sent
  /\ color' = color /\ age' = age /\ missed'["primary"] = missed["primary"]
  /\ \E m \in net :
       /\ net' = net \ {m}
       /\ \/ /\ queue' = Append(queue, [seq |-> m.seq, target |-> m.target])
             /\ missed' = missed
          \/ /\ queue' = queue
             /\ missed'["secondary"] = missed["secondary"] \cup {m.seq}

Waited(d) ==
  /\ place'[d] = place[d] /\ update'[d] = update[d]
  /\ IF left[d] = 0 THEN lag[d] < Latency /\ left'[d] = 0 /\ lag'[d] = lag[d] + 1
     ELSE left'[d] = left[d] - 1 /\ lag'[d] = lag[d]

\* And those of time.
TimeStep ==
  /\ Waited("primary") /\ Waited("secondary")
  /\ phase' = IF phase + 1 = Frame THEN 0 ELSE phase + 1
  /\ skew' = skew /\ ahead' = ahead /\ sent' = sent
  /\ color' = color /\ missed' = missed
  /\ \A d \in Displays : age'[d] \in Nat /\ age'[d] <= age[d] + 1
  /\ \A n \in net' : \E m \in net :
       n.seq = m.seq /\ n.target = LessOne(m.target) /\ n.age = m.age + 1
  /\ (net' = {} <=> net = {})
  /\ Len(queue') = Len(queue) /\ (queue' = << >> <=> queue = << >>)
  /\ \A i \in 1 .. Len(queue) :
       queue'[i].seq = queue[i].seq /\ queue'[i].target = LessOne(queue[i].target)

\* Whoever has left its loop or has seen g_shutdown does not go on.
LEMMA StillRunning ==
  ASSUME TypeOK, Next, Running'
  PROVE  /\ Running
         /\ \A d \in Displays : ~CtrlC(d) /\ ~Leave(d) /\ ~Quit(d) /\ ~End(d)
         /\ ~SelectTimeOut
<1>1. ASSUME NEW d \in Displays PROVE ~CtrlC(d)
  BY DEF CtrlC, Interrupted, Blocked, Running, Out, TypeOK
<1>2. ASSUME NEW d \in Displays PROVE ~Quit(d)
  BY GotoIs DEF Quit, Running, Out
<1>3. ASSUME NEW d \in Displays PROVE ~Leave(d)
  BY <1>2 DEF Leave
<1>4. ASSUME NEW d \in Displays PROVE ~End(d)
  BY DEF End, Running, Out, TypeOK
<1>5. shutdown' = shutdown
  BY <1>1, <1>2, <1>3, <1>4 DEF Next, Main, AwaitVblank, Vblank, Awake, Present, TooEarly, Schedule,
     TakeUpdate, Network, Receive, Lose, SelectTimeOut, Tick, main
<1>6. ASSUME NEW d \in Displays, place[d] \in Out
      PROVE  place'[d] = place[d]
  <2>1. CASE \E e \in Displays : AwaitVblank(e) \/ Vblank(e) \/ Awake(e) \/ Present(e)
    <3>1. PICK e \in Displays : AwaitVblank(e) \/ Vblank(e) \/ Awake(e) \/ Present(e)
      BY <2>1
    <3>2. \E where, n : Goto(e, where, n)
      BY <1>2, <3>1 DEF AwaitVblank, Vblank, Awake, Present
    <3>3. place[e] \in {"loop", "vblank", "sleep", "present"}
      BY <3>1 DEF AwaitVblank, Vblank, Awake, Present, At
    <3> QED
      BY <1>6, <3>2, <3>3, GotoIs DEF Out
  <2>2. CASE TooEarly \/ Schedule
    BY <1>6, <2>2, GotoIs DEF Out, TooEarly, Schedule, At, Displays
  <2>3. CASE TakeUpdate
    BY <1>6, <2>3, GotoIs DEF Out, TakeUpdate, At, Displays
  <2>4. CASE Network \/ SelectTimeOut \/ Tick
    BY <2>4 DEF Network, Receive, Lose, SelectTimeOut, Tick, main
  <2> QED
    BY <1>1, <1>3, <1>4, <2>1, <2>2, <2>3, <2>4 DEF Next, Main
<1>7. Running
  BY <1>5, <1>6 DEF Running
<1>8. ~SelectTimeOut
  BY <1>7 DEF SelectTimeOut, Running, Displays
<1> QED
  BY <1>1, <1>2, <1>3, <1>4, <1>7, <1>8

LEMMA GotoPrimary ==
  ASSUME TypeOK, NEW where, NEW n, At("primary", place["primary"]), Goto("primary", where, n)
  PROVE  /\ Moved("primary", place["primary"], where, n)
         /\ place'["secondary"] = place["secondary"] /\ left'["secondary"] = left["secondary"]
         /\ lag'["secondary"] = lag["secondary"]
BY GotoIs DEF Moved, Displays, At

LEMMA GotoSecondary ==
  ASSUME TypeOK, NEW where, NEW n, At("secondary", place["secondary"]), Goto("secondary", where, n)
  PROVE  /\ Moved("secondary", place["secondary"], where, n)
         /\ place'["primary"] = place["primary"] /\ left'["primary"] = left["primary"]
         /\ lag'["primary"] = lag["primary"]
BY GotoIs DEF Moved, Displays, At

LEMMA PresentShows ==
  ASSUME TypeOK, Running, NEW d \in Displays, Present(d)
  PROVE  Shows(d)
<1>1. update' = update
  BY DEF Present
<1>2. \/ /\ color' = [color EXCEPT ![d] = update[d]] /\ age' = [age EXCEPT ![d] = 0]
         /\ missed' = missed
      \/ missed' = [missed EXCEPT ![d] = @ \cup {update[d]}] /\ color' = color /\ age' = age
  BY DEF Present
<1>3. d \in DOMAIN color /\ d \in DOMAIN age /\ d \in DOMAIN missed
      /\ \A e \in Displays : e \in DOMAIN color /\ e \in DOMAIN age /\ e \in DOMAIN missed
  BY DEF TypeOK
<1> QED
  BY <1>1, <1>2, <1>3 DEF Shows

LEMMA PrimarySteps ==
  ASSUME TypeOK, Running, ~Quit("primary"),
         \/ AwaitVblank("primary") \/ Vblank("primary") \/ Awake("primary") \/ Present("primary")
         \/ TooEarly \/ Schedule
  PROVE  PrimaryStep
<1>1. TicksToVblank("primary") = Frame - phase
  BY PrimaryVblank DEF TypeOK
<1>2. CASE AwaitVblank("primary")
  <2>1. /\ Moved("primary", "loop", "vblank", Frame - phase) /\ place["primary"] = "loop"
        /\ place'["secondary"] = place["secondary"] /\ left'["secondary"] = left["secondary"]
        /\ lag'["secondary"] = lag["secondary"]
    BY <1>1, <1>2, GotoPrimary DEF AwaitVblank, At
  <2> QED
    BY <1>2, <2>1 DEF AwaitVblank, PrimaryStep, Kept, NoTime, NoMail, NoShow, history
<1>3. CASE Vblank("primary")
  <2>1. Goto("primary", "buffer", Buffer) /\ UNCHANGED <<shutdown, history>>
    BY <1>3 DEF Vblank
  <2>2. /\ Moved("primary", "vblank", "buffer", Buffer)
        /\ place'["secondary"] = place["secondary"] /\ left'["secondary"] = left["secondary"]
        /\ lag'["secondary"] = lag["secondary"]
    BY <1>3, <2>1, GotoPrimary DEF Vblank, At
  <2> QED
    BY <1>3, <2>1, <2>2 DEF Vblank, PrimaryStep, Kept, NoTime, NoMail, NoShow, history
<1>4. CASE Awake("primary")
  <2>1. /\ Moved("primary", "sleep", "present", Frame - phase)
        /\ place'["secondary"] = place["secondary"] /\ left'["secondary"] = left["secondary"]
        /\ lag'["secondary"] = lag["secondary"]
    BY <1>1, <1>4, GotoPrimary DEF Awake, At
  <2> QED
    BY <1>4, <2>1 DEF Awake, PrimaryStep, Kept, NoTime, NoMail, NoShow, history
<1>5. CASE Present("primary")
  <2>1. /\ Moved("primary", "present", "loop", 0)
        /\ place'["secondary"] = place["secondary"] /\ left'["secondary"] = left["secondary"]
        /\ lag'["secondary"] = lag["secondary"]
    BY <1>5, GotoPrimary DEF Present, At
  <2>2. Shows("primary")
    BY <1>5, PresentShows DEF Displays
  <2> QED
    BY <1>5, <2>1, <2>2 DEF Present, PrimaryStep, Kept, NoTime, NoMail
<1>6. CASE TooEarly
  <2>1. /\ Moved("primary", "buffer", "loop", 0)
        /\ place'["secondary"] = place["secondary"] /\ left'["secondary"] = left["secondary"]
        /\ lag'["secondary"] = lag["secondary"]
    BY <1>6, GotoPrimary DEF TooEarly, At
  <2> QED
    BY <1>6, <2>1 DEF TooEarly, PrimaryStep, Kept, NoTime, NoMail, NoShow, history
<1>7. CASE Schedule
  <2>1. /\ Moved("primary", "buffer", "sleep", ahead)
        /\ place'["secondary"] = place["secondary"] /\ left'["secondary"] = left["secondary"]
        /\ lag'["secondary"] = lag["secondary"]
    BY <1>7, GotoPrimary DEF Schedule, At
  <2>2. update'["primary"] = sent' /\ update'["secondary"] = update["secondary"]
    BY <1>7 DEF Schedule, TypeOK, Displays
  <2> QED
    BY <1>7, <2>1, <2>2 DEF Schedule, PrimaryStep, Kept, NoTime, NoMail, NoShow, history
<1> QED
  BY <1>2, <1>3, <1>4, <1>5, <1>6, <1>7

LEMMA SecondarySteps ==
  ASSUME TypeOK, Running, ~Quit("secondary"),
         \/ AwaitVblank("secondary") \/ Vblank("secondary") \/ Awake("secondary")
         \/ Present("secondary") \/ TakeUpdate
  PROVE  SecondaryStep
<1>1. PICK n : n = TicksToVblank("secondary")
  OBVIOUS
<1>2. AtVblank(n)
  BY <1>1, SecondaryVblank DEF AtVblank, TypeOK
<1>3. CASE AwaitVblank("secondary")
  <2>1. /\ Moved("secondary", "loop", "vblank", n)
        /\ place'["primary"] = place["primary"] /\ left'["primary"] = left["primary"]
        /\ lag'["primary"] = lag["primary"] /\ queue = << >>
    BY <1>1, <1>3, GotoSecondary DEF AwaitVblank, At
  <2> QED
    BY <1>2, <1>3, <2>1 DEF AwaitVblank, SecondaryStep, Kept, NoTime, NoMail, NoShow, history
<1>4. CASE Vblank("secondary")
  <2>1. Goto("secondary", "loop", 0) /\ UNCHANGED <<shutdown, history>>
    BY <1>4 DEF Vblank
  <2>2. /\ Moved("secondary", "vblank", "loop", 0)
        /\ place'["primary"] = place["primary"] /\ left'["primary"] = left["primary"]
        /\ lag'["primary"] = lag["primary"]
    BY <1>4, <2>1, GotoSecondary DEF Vblank, At
  <2> QED
    BY <1>4, <2>1, <2>2 DEF Vblank, SecondaryStep, Kept, NoTime, NoMail, NoShow, history
<1>5. CASE Awake("secondary")
  <2>1. /\ Moved("secondary", "sleep", "present", n)
        /\ place'["primary"] = place["primary"] /\ left'["primary"] = left["primary"]
        /\ lag'["primary"] = lag["primary"]
    BY <1>1, <1>5, GotoSecondary DEF Awake, At
  <2> QED
    BY <1>2, <1>5, <2>1 DEF Awake, SecondaryStep, Kept, NoTime, NoMail, NoShow, history
<1>6. CASE Present("secondary")
  <2>1. /\ Moved("secondary", "present", "loop", 0)
        /\ place'["primary"] = place["primary"] /\ left'["primary"] = left["primary"]
        /\ lag'["primary"] = lag["primary"]
    BY <1>6, GotoSecondary DEF Present, At
  <2>2. Shows("secondary")
    BY <1>6, PresentShows DEF Displays
  <2> QED
    BY <1>6, <2>1, <2>2 DEF Present, SecondaryStep, Kept, NoTime, NoMail
<1>7. CASE TakeUpdate
  <2>1. queue \in Seq(Pending) /\ queue # << >> /\ Head(queue) = queue[1]
    BY <1>7 DEF TypeOK, TakeUpdate, Pending
  <2>2. /\ Moved("secondary", "loop", "sleep", queue[1].target)
        /\ place'["primary"] = place["primary"] /\ left'["primary"] = left["primary"]
        /\ lag'["primary"] = lag["primary"]
    BY <1>7, <2>1, GotoSecondary DEF TakeUpdate, At
  <2>3. update'["secondary"] = queue[1].seq /\ update'["primary"] = update["primary"]
    BY <1>7, <2>1 DEF TakeUpdate, TypeOK, Displays
  <2> QED
    BY <1>7, <2>1, <2>2, <2>3 DEF TakeUpdate, SecondaryStep, Kept, NoTime, NoShow, history
<1> QED
  BY <1>3, <1>4, <1>5, <1>6, <1>7

LEMMA OtherSteps ==
  ASSUME TypeOK, Running, Network \/ Tick
  PROVE  NetworkStep \/ TimeStep
<1>1. CASE Network
  <2>1. PICK m \in net : Receive(m) \/ Lose(m)
    BY <1>1 DEF Network
  <2>2. CASE Receive(m)
    BY <2>2 DEF Receive, NetworkStep, Kept, NoTime, main, history
  <2>3. CASE Lose(m)
    <3>1. /\ missed'["secondary"] = missed["secondary"] \cup {m.seq}
          /\ missed'["primary"] = missed["primary"]
      BY <2>3 DEF Lose, TypeOK, Displays
    <3> QED
      BY <2>3, <3>1 DEF Lose, NetworkStep, Kept, NoTime, main
  <2> QED
    BY <2>1, <2>2, <2>3
<1>2. CASE Tick
  <2>1. ASSUME NEW d \in Displays PROVE Waited(d)
    <3>1. left[d] \in Nat /\ (Busy(d) <=> left[d] = 0)
      BY <2>1 DEF TypeOK, Busy, Running
    <3>2. place'[d] = place[d] /\ update'[d] = update[d] /\ (Busy(d) => lag[d] < Latency)
      BY <1>2 DEF Tick
    <3>3. /\ left'[d] = LessOne(left[d])
          /\ IF Busy(d) THEN lag'[d] = lag[d] + 1 ELSE lag'[d] = lag[d]
      BY <1>2, TickIs
    <3>4. CASE left[d] = 0
      BY <3>1, <3>2, <3>3, <3>4 DEF Waited, LessOne
    <3>5. CASE left[d] # 0
      BY <3>1, <3>2, <3>3, <3>5 DEF Waited, LessOne
    <3> QED
      BY <3>4, <3>5
  <2>2. queue' = << >> <=> queue = << >>
    <3>1. queue \in Seq(Pending) /\ queue' \in Seq(Pending) /\ Len(queue') = Len(queue)
      BY <1>2, QueueTick DEF TypeOK, Pending
    <3> QED
      BY <3>1
  <2>3. ASSUME NEW d \in Displays PROVE age'[d] \in Nat /\ age'[d] <= age[d] + 1
    <3>1. age'[d] \in 0 .. MaxAge /\ age'[d] <= age[d] + 1
      BY <1>2, TickIs
    <3> QED
      BY <3>1, Constants DEF MaxAge
  <2> QED
    BY <1>2, <2>1, <2>2, <2>3, TickIs, NetTick, QueueTick DEF Tick, TimeStep, Displays
<1> QED
  BY <1>1, <1>2

LEMMA Steps ==
  ASSUME TypeOK, Next, Running'
  PROVE  Running /\ (PrimaryStep \/ SecondaryStep \/ NetworkStep \/ TimeStep)
<1>1. /\ Running /\ ~SelectTimeOut
      /\ \A d \in Displays : ~CtrlC(d) /\ ~Leave(d) /\ ~Quit(d) /\ ~End(d)
  BY StillRunning
<1> QED
  BY <1>1, PrimarySteps, SecondarySteps, OtherSteps DEF Next, Main, Displays

-----------------------------------------------------------------------------
(* What holds of each display by itself.                                   *)

Done(d) == color[d] = sent \/ sent \in missed[d]

\* A thread that waits is not late, and one that waits for a vblank waits for that of
\* its own display: the primary's is at phase 0.
ClockOK ==
  /\ left["primary"] > 0 => lag["primary"] = 0
  /\ left["secondary"] > 0 => lag["secondary"] = 0
  /\ place["primary"] = "loop" => left["primary"] = 0
  /\ place["secondary"] = "loop" => left["secondary"] = 0
  /\ place["primary"] \in {"vblank", "present"} =>
       IF left["primary"] > 0 THEN phase + left["primary"] = Frame
       ELSE phase = lag["primary"]
  /\ place["secondary"] \in {"vblank", "present"} /\ left["secondary"] > 0 =>
       AtVblank(left["secondary"])

\* The primary works on the update it has sent last, until it shows it or has failed to.
WorkOK ==
  /\ color["primary"] <= sent
  /\ place["primary"] \in {"sleep", "present"} =>
       update["primary"] = sent /\ color["primary"] < sent
  /\ place["primary"] \in {"loop", "vblank", "buffer"} => Done("primary")

Separate == ClockOK /\ WorkOK

LEMMA Scalars ==
  ASSUME TypeOK
  PROVE  /\ phase \in Int /\ 0 <= phase /\ phase < Frame
         /\ skew \in Int /\ -Frame < skew /\ skew < Frame /\ ahead \in Nat /\ ahead > 0
         /\ sent \in Nat
         /\ left["primary"] \in Nat /\ left["secondary"] \in Nat
         /\ lag["primary"] \in Int /\ 0 <= lag["primary"] /\ lag["primary"] <= Latency
         /\ lag["secondary"] \in Int /\ 0 <= lag["secondary"] /\ lag["secondary"] <= Latency
         /\ color["primary"] \in Nat /\ color["secondary"] \in Nat
         /\ update["primary"] \in Nat /\ update["secondary"] \in Nat
         /\ age["primary"] \in Nat /\ age["secondary"] \in Nat
<1>1. phase \in Int /\ 0 <= phase /\ phase < Frame
  BY Constants DEF TypeOK
<1>2. skew \in Int /\ -Frame < skew /\ skew < Frame /\ ahead \in Nat /\ ahead > 0
  BY Constants DEF TypeOK
<1>3. Updates \subseteq Nat /\ MaxAge \in Nat
  BY Constants DEF Updates, MaxAge
<1>4. ASSUME NEW d \in Displays
      PROVE  /\ left[d] \in Nat /\ lag[d] \in Int /\ 0 <= lag[d] /\ lag[d] <= Latency
             /\ color[d] \in Nat /\ update[d] \in Nat /\ age[d] \in Nat
  <2>1. /\ left[d] \in Nat /\ lag[d] \in 0 .. Latency /\ color[d] \in Updates
        /\ update[d] \in Updates /\ age[d] \in 0 .. MaxAge
    BY DEF TypeOK
  <2>2. color[d] \in Nat /\ update[d] \in Nat
    BY <1>3, <2>1
  <2>3. age[d] \in Nat
    BY <1>3, <2>1
  <2> QED
    BY <2>1, <2>2, <2>3, Constants
<1>5. sent \in Nat
  BY <1>3 DEF TypeOK
<1> QED
  BY <1>1, <1>2, <1>4, <1>5 DEF Displays

LEMMA InitSeparate == Init => Separate
<1> SUFFICES ASSUME Init PROVE Separate
  OBVIOUS
<1>1. /\ place["primary"] = "loop" /\ place["secondary"] = "loop"
      /\ left["primary"] = 0 /\ left["secondary"] = 0
      /\ color["primary"] = 0 /\ sent = 0
  BY DEF Init, Displays, Never
<1> QED
  BY <1>1 DEF Separate, ClockOK, WorkOK, Done

LEMMA PrimarySeparate ==
  ASSUME TypeOK, Separate, PrimaryStep, Latency < Frame
  PROVE  Separate'
<1>1. ClockOK'
  <2>1. /\ left["secondary"]' = left["secondary"] /\ lag["secondary"]' = lag["secondary"]
        /\ place["secondary"]' = place["secondary"] /\ phase' = phase /\ skew' = skew
    BY DEF PrimaryStep, Kept, NoTime
  <2>2. PICK where, n :
          /\ Moved("primary", place["primary"], where, n) /\ n \in Nat
          /\ where = "loop" => n = 0
          /\ where \in {"vblank", "present"} => n > 0 /\ phase + n = Frame
    <3>1. /\ Frame - phase \in Nat /\ Frame - phase > 0 /\ phase + (Frame - phase) = Frame
          /\ Buffer \in Nat /\ 0 \in Nat /\ ahead \in Nat
      BY Scalars, Constants
    <3>2. \/ Moved("primary", "loop", "vblank", Frame - phase)
          \/ Moved("primary", "vblank", "buffer", Buffer)
          \/ Moved("primary", "buffer", "loop", 0)
          \/ Moved("primary", "sleep", "present", Frame - phase)
          \/ Moved("primary", "present", "loop", 0)
          \/ Moved("primary", "buffer", "sleep", ahead)
      BY DEF PrimaryStep
    <3>3. \A from, where, n : Moved("primary", from, where, n) => from = place["primary"]
      BY DEF Moved
    <3> QED
      BY <3>1, <3>2, <3>3
  <2> QED
    BY <2>1, <2>2, Scalars, Constants DEF Separate, ClockOK, AtVblank, Moved
<1>2. WorkOK'
  <2>1. CASE /\ \/ Moved("primary", "loop", "vblank", Frame - phase)
                \/ Moved("primary", "vblank", "buffer", Buffer)
                \/ Moved("primary", "buffer", "loop", 0)
                \/ Moved("primary", "sleep", "present", Frame - phase)
             /\ update'["primary"] = update["primary"] /\ NoMail /\ NoShow
    BY <2>1 DEF Moved, Separate, WorkOK, Done, NoShow, NoMail
  <2>2. CASE Moved("primary", "present", "loop", 0) /\ Shows("primary") /\ NoMail
    BY <2>2, Scalars, Constants DEF Moved, Shows, Separate, WorkOK, Done, NoMail
  <2>3. CASE Moved("primary", "buffer", "sleep", ahead) /\ sent' = sent + 1
               /\ update'["primary"] = sent' /\ NoShow
    BY <2>3, Scalars, Constants DEF Moved, Separate, WorkOK, NoShow
  <2> QED
    BY <2>1, <2>2, <2>3 DEF PrimaryStep
<1> QED
  BY <1>1, <1>2 DEF Separate

LEMMA SecondarySeparate ==
  ASSUME TypeOK, Separate, SecondaryStep
  PROVE  Separate'
<1>1. ClockOK'
  <2>1. /\ left["primary"]' = left["primary"] /\ lag["primary"]' = lag["primary"]
        /\ place["primary"]' = place["primary"] /\ phase' = phase /\ skew' = skew
    BY DEF SecondaryStep, Kept, NoTime
  <2>2. PICK where, n :
          /\ Moved("secondary", place["secondary"], where, n)
          /\ where = "loop" => n = 0
          /\ where \in {"vblank", "present"} => AtVblank(n)
    BY DEF SecondaryStep, Moved
  <2> QED
    BY <2>1, <2>2, Scalars, Constants DEF Separate, ClockOK, AtVblank, Moved
<1>2. /\ color'["primary"] = color["primary"] /\ missed'["primary"] = missed["primary"]
      /\ sent' = sent
  BY DEF SecondaryStep, NoShow, Shows, NoMail, Displays
<1>3. place'["primary"] = place["primary"] /\ update'["primary"] = update["primary"]
  BY DEF SecondaryStep, Kept
<1>4. WorkOK'
  BY <1>2, <1>3 DEF Separate, WorkOK, Done
<1> QED
  BY <1>1, <1>4 DEF Separate

LEMMA OtherSeparate ==
  ASSUME TypeOK, Separate, NetworkStep \/ TimeStep, Latency < Frame
  PROVE  Separate'
<1>1. CASE NetworkStep
  BY <1>1 DEF NetworkStep, Kept, NoTime, Separate, ClockOK, WorkOK, Done, AtVblank
<1>2. CASE TimeStep
  <2>1. WorkOK'
    BY <1>2 DEF TimeStep, Waited, Separate, WorkOK, Done
  <2>2. Waited("primary") /\ Waited("secondary") /\ skew' = skew
        /\ phase' = IF phase + 1 = Frame THEN 0 ELSE phase + 1
    BY <1>2 DEF TimeStep
  <2>3. ClockOK'
    <3>1. /\ left["primary"]' > 0 => lag["primary"]' = 0
          /\ left["secondary"]' > 0 => lag["secondary"]' = 0
          /\ place["primary"]' = "loop" => left["primary"]' = 0
          /\ place["secondary"]' = "loop" => left["secondary"]' = 0
      BY <2>2, Scalars, Constants DEF Waited, Separate, ClockOK
    <3>2. place["primary"]' \in {"vblank", "present"} =>
            IF left["primary"]' > 0 THEN phase' + left["primary"]' = Frame
            ELSE phase' = lag["primary"]'
      BY <2>2, Scalars, Constants DEF Waited, Separate, ClockOK
    <3>3. place["secondary"]' \in {"vblank", "present"} /\ left["secondary"]' > 0 =>
            AtVblank(left["secondary"])'
      BY <2>2, Scalars, Constants DEF Waited, Separate, ClockOK, AtVblank
    <3> QED
      BY <3>1, <3>2, <3>3 DEF ClockOK
  <2> QED
    BY <2>1, <2>3 DEF Separate
<1> QED
  BY <1>1, <1>2

LEMMA StepSeparate ==
  ASSUME TypeOK, Next, Running', Latency < Frame, Separate
  PROVE  Separate'
BY Steps, PrimarySeparate, SecondarySeparate, OtherSeparate

-----------------------------------------------------------------------------
(* Both displays change at the same vblank.                                *)

\* Where in the primary's frame the announced time falls, if no thread is late.
From == (ahead + Buffer) % Frame

\* The secondary is n ticks from what it waits for, or has been late for -n.
Due == left["secondary"] - lag["secondary"]

\* The primary is in the frame after the vblank at which it presented, or would have.
SameFrame ==
  place["primary"] = "loop" \/ (place["primary"] = "vblank" /\ left["primary"] > 0)

BeforeVblank == place["primary"] = "present" /\ left["primary"] > 0

\* The primary announces a time, and wakes up at one, that is clear of the vblanks.
WakeOK ==
  /\ place["primary"] = "buffer" =>
       (phase + left["primary"] - lag["primary"] + ahead) % Frame \in From .. From + Latency
  /\ place["primary"] = "sleep" =>
       (phase + left["primary"] - lag["primary"]) % Frame \in From .. From + 2 * Latency

\* An update is under way only while the primary still sleeps for most of the time.
FlightOK ==
  /\ \A m \in net : m.seq = sent /\ m.target = left["primary"] /\ left["primary"] + m.age = ahead
  /\ net # {} => /\ place["primary"] = "sleep" /\ queue = << >>
                 /\ place["secondary"] \in {"loop", "vblank"}

\* One that is in the queue is taken at the announced time at the latest.
QueueOK ==
  queue # << >> =>
    /\ Len(queue) = 1 /\ net = {} /\ queue[1].seq = sent
    /\ place["secondary"] \in {"loop", "vblank"}
    /\ \/ /\ place["primary"] = "sleep" /\ queue[1].target = left["primary"]
          /\ lag["primary"] = 0 /\ Due + Latency <= left["primary"]
       \/ /\ BeforeVblank /\ queue[1].target = 0
          /\ Due = -Latency /\ left["secondary"] = 0
          /\ From <= phase /\ phase <= From + 2 * Latency

\* From then on both are on the way to vblanks that are skew ticks apart.
PaceOK ==
  place["secondary"] \in {"sleep", "present"} =>
    /\ update["secondary"] = sent /\ net = {} /\ queue = << >>
    /\ \/ /\ place["secondary"] = "sleep" /\ place["primary"] = "sleep"
          /\ left["secondary"] = left["primary"] /\ lag["primary"] <= lag["secondary"]
       \/ /\ place["secondary"] = "sleep" /\ BeforeVblank /\ left["secondary"] = 0
          /\ From <= phase /\ phase <= From + 2 * Latency + lag["secondary"]
       \/ /\ place["secondary"] = "present" /\ place["primary"] = "sleep"
          /\ left["primary"] = 0 /\ left["secondary"] + phase = Frame + skew
       \/ /\ place["secondary"] = "present" /\ place["primary"] = "present"
          /\ Due = left["primary"] - lag["primary"] + skew
       \/ /\ place["secondary"] = "present" /\ SameFrame
          /\ Due = skew - phase

\* An update that nobody has before him has been shown or missed.
DoneOK ==
  /\ color["secondary"] <= sent
  /\ place["secondary"] \in {"loop", "vblank"} /\ net = {} /\ queue = << >> => Done("secondary")

\* d shows an update that the other display has yet to show.
InFront(d, other) == color[d] > color[other] /\ color[d] \notin missed[other]

\* Whoever is first is not alone for longer than the other is late.
FrontOK ==
  /\ InFront("primary", "secondary") =>
       /\ color["primary"] = sent /\ place["secondary"] = "present"
       /\ SameFrame /\ age["primary"] <= phase
  /\ InFront("secondary", "primary") =>
       /\ color["secondary"] = sent /\ place["primary"] = "present"
       /\ age["secondary"] + left["primary"] - lag["primary"] + skew <= 0

TogetherInv == WakeOK /\ FlightOK /\ QueueOK /\ PaceOK /\ DoneOK /\ FrontOK

LEMMA Timing ==
  ASSUME TypeOK, InTime, BetweenVblanks
  PROVE  /\ From \in Int /\ 0 < From /\ skew < From
         /\ From + 3 * Latency < Frame /\ From + 3 * Latency < Frame + skew
         /\ ahead >= Frame + MaxDelay + Latency /\ Latency < Frame
<1>1. ahead + Buffer \in Int
  BY Scalars, Constants
<1>2. From \in 0 .. Frame - 1
  BY <1>1, Remainders DEF From
<1>3. 0 < From /\ skew < From /\ From + 3 * Latency < Frame /\ From + 3 * Latency < Frame + skew
  BY DEF BetweenVblanks, From
<1> QED
  BY <1>2, <1>3, Scalars, Constants DEF InTime

\* From one step to the next.
LEMMA TimingKept ==
  ASSUME skew' = skew, ahead' = ahead
  PROVE  From' = From /\ (InTime' <=> InTime) /\ (BetweenVblanks' <=> BetweenVblanks)
BY DEF From, InTime, BetweenVblanks

\* The phase at which the primary is awake.
LEMMA WakePhase ==
  ASSUME TypeOK, InTime, BetweenVblanks, WakeOK, place["primary"] = "sleep", left["primary"] = 0
  PROVE  From <= phase - lag["primary"] /\ phase - lag["primary"] <= From + 2 * Latency
<1>1. (phase - lag["primary"]) % Frame \in From .. From + 2 * Latency
  <2>1. phase + left["primary"] - lag["primary"] = phase - lag["primary"]
    BY Scalars
  <2> QED
    BY <2>1 DEF WakeOK
<1>2. phase - lag["primary"] \in Int /\ phase - lag["primary"] < Frame
  BY Scalars, Constants
<1>3. CASE phase - lag["primary"] >= 0
  BY <1>1, <1>2, <1>3, Remainders, Timing
<1>4. CASE phase - lag["primary"] < 0
  <2>1. (phase - lag["primary"]) % Frame = phase - lag["primary"] + Frame
    <3>1. phase - lag["primary"] + Frame >= 0 /\ phase - lag["primary"] + Frame \in Int
      BY Scalars, Constants, Timing
    <3>2. (phase - lag["primary"] + Frame) % Frame = phase - lag["primary"] + Frame
      <4>1. phase - lag["primary"] + Frame < Frame
        BY <1>2, <1>4, Constants
      <4> QED
        BY <3>1, <4>1, Remainders
    <3> QED
      BY <1>2, <3>2, Remainders
  <2> QED
    BY <1>1, <2>1, Scalars, Constants, Timing
<1> QED
  BY <1>2, <1>3, <1>4

LEMMA OnlyMessage ==
  ASSUME TypeOK, FlightOK, NEW m \in net
  PROVE  net \ {m} = {}
<1>1. ASSUME NEW n \in net PROVE n = m
  <2>1. n \in Messages /\ m \in Messages
    BY DEF TypeOK, Messages
  <2>2. n.seq = m.seq /\ n.target = m.target
    BY DEF FlightOK
  <2>3. n.age = m.age
    <3>1. n.age \in Int /\ m.age \in Int /\ left["primary"] \in Int
      BY <2>1, Scalars, Constants DEF Messages
    <3>2. left["primary"] + n.age = left["primary"] + m.age
      BY DEF FlightOK
    <3>3. \A a \in Int : \A b \in Int : \A c \in Int : c + a = c + b => a = b
      OBVIOUS
    <3> QED
      BY <3>1, <3>2, <3>3, Zenon
  <2> QED
    BY <2>1, <2>2, <2>3 DEF Messages
<1> QED
  BY <1>1

LEMMA QueueTail ==
  ASSUME TypeOK, Len(queue) = 1
  PROVE  Tail(queue) = << >>
<1>1. queue \in Seq(Pending)
  BY DEF TypeOK, Pending
<1>2. queue # << >>
  BY <1>1, EmptySeq
<1>3. Tail(queue) \in Seq(Pending) /\ Len(Tail(queue)) = 0
  BY <1>1, <1>2, HeadTailProperties
<1> QED
  BY <1>3, EmptySeq

LEMMA QueueAppend ==
  ASSUME NEW x
  PROVE  /\ Append(<< >>, x) # << >> /\ Len(Append(<< >>, x)) = 1
         /\ Append(<< >>, x)[1] = x
OBVIOUS

LEMMA InitTogether == Init => TogetherInv
<1> SUFFICES ASSUME Init PROVE TogetherInv
  OBVIOUS
<1>1. /\ place["primary"] = "loop" /\ place["secondary"] = "loop" /\ net = {} /\ queue = << >>
      /\ color["primary"] = 0 /\ color["secondary"] = 0 /\ sent = 0
  BY DEF Init, Displays, Never
<1> QED
  BY <1>1 DEF TogetherInv, WakeOK, FlightOK, QueueOK, PaceOK, DoneOK, Done, FrontOK, InFront

LEMMA PrimaryWake ==
  ASSUME TypeOK, InTime, BetweenVblanks, Separate, WakeOK, PrimaryStep
  PROVE  WakeOK'
<1>1. From' = From /\ phase' = phase /\ ahead' = ahead
  BY TimingKept DEF PrimaryStep, NoTime
<1>2. CASE place'["primary"] \notin {"buffer", "sleep"}
  BY <1>2 DEF WakeOK
<1>3. CASE place'["primary"] = "buffer"
  <2>1. Moved("primary", "vblank", "buffer", Buffer)
    BY <1>3 DEF PrimaryStep, Moved
  <2>2. phase = lag["primary"] /\ left'["primary"] = Buffer /\ lag'["primary"] = 0
    BY <2>1, Constants DEF Moved, Separate, ClockOK
  <2>3. phase' + left'["primary"] - lag'["primary"] + ahead' = (ahead + Buffer) + phase
    BY <1>1, <2>2, Scalars, Constants
  <2>4. ahead + Buffer \in Int /\ phase \in Nat /\ From + phase < Frame
    BY <2>2, Scalars, Constants, Timing
  <2>5. ((ahead + Buffer) + phase) % Frame = From + phase
    BY <2>4, Remainders DEF From
  <2> QED
    BY <1>1, <1>3, <2>2, <2>3, <2>5, Scalars, Constants, Timing DEF WakeOK
<1>4. CASE place'["primary"] = "sleep"
  <2>1. Moved("primary", "buffer", "sleep", ahead)
    BY <1>4 DEF PrimaryStep, Moved
  <2>2. place["primary"] = "buffer" /\ left["primary"] = 0 /\ left'["primary"] = ahead
        /\ lag'["primary"] = 0
    BY <2>1, Scalars DEF Moved
  <2>3. PICK x \in Int : x = phase + left["primary"] - lag["primary"] + ahead
    BY Scalars
  <2>4. PICK r : r = x % Frame
    OBVIOUS
  <2>5. r \in From .. From + Latency
    BY <2>2, <2>3, <2>4 DEF WakeOK
  <2>6. phase' + left'["primary"] - lag'["primary"] = x + lag["primary"]
    BY <1>1, <2>2, <2>3, Scalars
  <2>7. (x + lag["primary"]) % Frame = r + lag["primary"]
    <3>1. lag["primary"] \in Nat /\ r + lag["primary"] < Frame
      BY <2>5, Scalars, Constants, Timing
    <3> QED
      BY <2>4, <3>1, Remainders
  <2> QED
    BY <1>1, <1>4, <2>5, <2>6, <2>7, Scalars, Constants, Timing DEF WakeOK
<1> QED
  BY <1>2, <1>3, <1>4

\* While both run.
LEMMA Somewhere ==
  ASSUME TypeOK, Running
  PROVE  /\ place["primary"] \in {"loop", "vblank", "buffer", "sleep", "present"}
         /\ place["secondary"] \in {"loop", "vblank", "sleep", "present"}
BY DEF Running, Out, Displays, TypeOK, Places

\* An update is received long before the primary wakes up.
LEMMA LongBefore ==
  ASSUME TypeOK, FlightOK, InTime, BetweenVblanks, net # {}
  PROVE  left["primary"] >= Frame + Latency
<1>1. PICK m \in net : TRUE
  OBVIOUS
<1>2. m.age \in Int /\ m.age <= MaxDelay
  BY Constants DEF TypeOK
<1>3. left["primary"] + m.age = ahead
  BY DEF FlightOK
<1> QED
  BY <1>2, <1>3, Scalars, Constants, Timing

LEMMA PrimaryTogether ==
  ASSUME TypeOK, Running, InTime, BetweenVblanks, Separate, TogetherInv, PrimaryStep
  PROVE  TogetherInv'
<1>1. /\ From' = From /\ phase' = phase /\ skew' = skew /\ ahead' = ahead
      /\ place'["secondary"] = place["secondary"] /\ left'["secondary"] = left["secondary"]
      /\ lag'["secondary"] = lag["secondary"] /\ update'["secondary"] = update["secondary"]
  BY TimingKept DEF PrimaryStep, NoTime, Kept
<1>2. Due' = Due /\ Due \in Int
  BY <1>1, Scalars DEF Due
<1>3. WakeOK'
  BY PrimaryWake DEF TogetherInv
<1>4. CASE /\ \/ Moved("primary", "loop", "vblank", Frame - phase)
              \/ Moved("primary", "vblank", "buffer", Buffer)
              \/ Moved("primary", "buffer", "loop", 0)
              \/ Moved("primary", "sleep", "present", Frame - phase)
           /\ NoMail /\ NoShow
  <2>1. net' = net /\ queue' = queue /\ sent' = sent
    BY <1>4 DEF NoMail
  <2>2. net = {}
    <3>1. left["primary"] = 0
      BY <1>4 DEF Moved
    <3>2. ~(left["primary"] >= Frame + Latency)
      BY <3>1, Constants
    <3> QED
      BY <3>2, LongBefore DEF TogetherInv
  <2>3. FlightOK'
    BY <2>1, <2>2 DEF FlightOK
  <2>4. place["primary"] = "sleep" => From <= phase - lag["primary"]
           /\ phase - lag["primary"] <= From + 2 * Latency
    BY <1>4, WakePhase DEF TogetherInv, Moved
  <2>5. QueueOK'
    <3> SUFFICES ASSUME queue # << >> PROVE QueueOK'
      BY <2>1 DEF QueueOK
    <3>1. /\ Len(queue) = 1 /\ queue[1].seq = sent /\ left["primary"] = 0
          /\ place["secondary"] \in {"loop", "vblank"}
      BY <1>4 DEF TogetherInv, QueueOK, Moved
    <3>2. /\ place["primary"] = "sleep" /\ queue[1].target = 0
          /\ lag["primary"] = 0 /\ Due + Latency <= 0
      BY <1>4, Scalars DEF TogetherInv, QueueOK, Moved, BeforeVblank
    <3>3. place'["primary"] = "present" /\ left'["primary"] = Frame - phase
      BY <1>4, <3>2 DEF Moved
    <3>4. Due = -Latency /\ left["secondary"] = 0
      <4>1. /\ left["secondary"] \in Nat /\ lag["secondary"] \in Int
            /\ lag["secondary"] <= Latency /\ Latency \in Int
        BY Scalars, Constants
      <4>2. left["secondary"] - lag["secondary"] + Latency <= 0
        BY <3>2 DEF Due
      <4> QED
        BY <4>1, <4>2 DEF Due
    <3>5. BeforeVblank' /\ From <= phase /\ phase <= From + 2 * Latency
      BY <2>4, <3>2, <3>3, Scalars, Constants DEF BeforeVblank
    <3> QED
      BY <1>1, <1>2, <2>1, <2>2, <3>1, <3>2, <3>4, <3>5 DEF QueueOK
  <2>6. PaceOK'
    <3> SUFFICES ASSUME place["secondary"] \in {"sleep", "present"} PROVE PaceOK'
      BY <1>1 DEF PaceOK
    <3>1. update["secondary"] = sent /\ queue = << >>
      BY DEF TogetherInv, PaceOK
    <3>2. CASE place["primary"] = "sleep"
      <4>1. /\ place'["primary"] = "present" /\ left'["primary"] = Frame - phase
            /\ lag'["primary"] = 0 /\ left["primary"] = 0
        BY <1>4, <3>2, Scalars, Constants DEF Moved
      <4>2. CASE place["secondary"] = "sleep"
        <5>1. left["secondary"] = 0 /\ lag["primary"] <= lag["secondary"]
          BY <3>2, <4>1, <4>2 DEF TogetherInv, PaceOK, BeforeVblank
        <5>2. BeforeVblank' /\ From <= phase /\ phase <= From + 2 * Latency + lag["secondary"]
          BY <2>4, <3>2, <4>1, <5>1, Scalars, Constants, Timing DEF BeforeVblank
        <5> QED
          BY <1>1, <2>1, <2>2, <3>1, <4>2, <5>1, <5>2 DEF PaceOK
      <4>3. CASE place["secondary"] = "present"
        <5>1. left["secondary"] + phase = Frame + skew
          BY <3>2, <4>1, <4>3 DEF TogetherInv, PaceOK, SameFrame
        <5>2. left["secondary"] > 0
          BY <2>4, <3>2, <5>1, Scalars, Constants, Timing
        <5>3. Due = (Frame - phase) - 0 + skew
          BY <5>1, <5>2, Scalars, Constants DEF Due, Separate, ClockOK
        <5> QED
          BY <1>1, <1>2, <2>1, <2>2, <3>1, <4>1, <4>3, <5>3 DEF PaceOK
      <4> QED
        BY <4>2, <4>3
    <3>3. CASE place["primary"] # "sleep"
      <4>1. place["primary"] = "loop" /\ place["secondary"] = "present" /\ Due = skew - phase
        <5>1. left["primary"] = 0 /\ place["primary"] # "present"
          BY <1>4 DEF Moved
        <5>2. place["secondary"] = "present" /\ SameFrame /\ Due = skew - phase
          BY <3>3, <5>1, Scalars DEF TogetherInv, PaceOK, BeforeVblank
        <5> QED
          BY <5>1, <5>2 DEF SameFrame
      <4>2. SameFrame'
        BY <1>4, <4>1, Scalars, Constants DEF SameFrame, Moved
      <4> QED
        BY <1>1, <1>2, <2>1, <2>2, <3>1, <4>1, <4>2 DEF PaceOK
    <3> QED
      BY <3>2, <3>3
  <2>7. DoneOK'
    BY <1>1, <1>4, <2>1 DEF TogetherInv, DoneOK, Done, NoShow
  <2>8. FrontOK'
    <3>1. /\ (InFront("primary", "secondary")' <=> InFront("primary", "secondary"))
          /\ (InFront("secondary", "primary")' <=> InFront("secondary", "primary"))
          /\ age' = age /\ color' = color
      BY <1>4 DEF InFront, NoShow
    <3>2. ~InFront("secondary", "primary")
      BY <1>4 DEF TogetherInv, FrontOK, Moved
    <3>3. ASSUME InFront("primary", "secondary") PROVE SameFrame'
      <4>1. place["secondary"] = "present" /\ SameFrame
        BY <3>3 DEF TogetherInv, FrontOK
      <4>2. place["primary"] = "loop"
        BY <1>4, <4>1, Scalars DEF Moved, SameFrame
      <4> QED
        BY <1>4, <4>2, Scalars, Constants DEF SameFrame, Moved
    <3> QED
      BY <1>1, <2>1, <3>1, <3>2, <3>3 DEF TogetherInv, FrontOK
  <2> QED
    BY <1>3, <2>3, <2>5, <2>6, <2>7, <2>8 DEF TogetherInv
<1>5. CASE Moved("primary", "present", "loop", 0) /\ Shows("primary") /\ NoMail
  <2>1. /\ place["primary"] = "present" /\ left["primary"] = 0 /\ phase = lag["primary"]
        /\ place'["primary"] = "loop" /\ left'["primary"] = 0 /\ ~BeforeVblank /\ ~SameFrame
        /\ SameFrame'
    BY <1>5 DEF Moved, Separate, ClockOK, BeforeVblank, SameFrame
  <2>2. net' = net /\ queue' = queue /\ sent' = sent /\ net = {} /\ queue = << >>
    BY <1>5, <2>1 DEF NoMail, TogetherInv, FlightOK, QueueOK
  <2>3. /\ update["primary"] = sent /\ color'["secondary"] = color["secondary"]
        /\ missed'["secondary"] = missed["secondary"] /\ age'["secondary"] = age["secondary"]
    BY <1>5, <2>1 DEF Shows, Separate, WorkOK, Displays
  <2>4. FlightOK' /\ QueueOK'
    BY <2>2 DEF FlightOK, QueueOK
  <2>5. PaceOK'
    <3> SUFFICES ASSUME place["secondary"] \in {"sleep", "present"} PROVE PaceOK'
      BY <1>1 DEF PaceOK
    <3>1. /\ place["secondary"] = "present" /\ Due = left["primary"] - lag["primary"] + skew
          /\ update["secondary"] = sent
      BY <2>1 DEF TogetherInv, PaceOK
    <3>2. Due = skew - phase
      BY <2>1, <3>1, Scalars
    <3> QED
      BY <1>1, <1>2, <2>1, <2>2, <3>1, <3>2 DEF PaceOK
  <2>6. DoneOK'
    BY <1>1, <2>2, <2>3 DEF TogetherInv, DoneOK, Done
  <2>7. ASSUME color'["primary"] = sent, age'["primary"] = 0
        PROVE  FrontOK'
    <3>1. ~InFront("secondary", "primary")'
      BY <2>3, <2>7, Scalars DEF InFront, TogetherInv, DoneOK
    <3>2. ASSUME InFront("primary", "secondary")' PROVE place["secondary"] = "present"
      <4>1. ~Done("secondary")
        BY <2>3, <2>7, <3>2, Scalars DEF InFront, Done
      <4>2. place["secondary"] \in {"sleep", "present"}
        BY <4>1, <2>2, Somewhere DEF TogetherInv, DoneOK
      <4> QED
        BY <4>2, <2>1 DEF TogetherInv, PaceOK
    <3> QED
      BY <1>1, <2>1, <2>2, <2>7, <3>1, <3>2, Scalars DEF FrontOK
  <2>8. ASSUME color'["primary"] = color["primary"],
               missed'["primary"] = missed["primary"] \cup {sent}
        PROVE  FrontOK'
    <3>1. ~InFront("primary", "secondary")'
      BY <2>1, <2>3, <2>8 DEF TogetherInv, FrontOK, InFront
    <3>2. ~InFront("secondary", "primary")'
      BY <2>3, <2>8 DEF TogetherInv, FrontOK, InFront
    <3> QED
      BY <3>1, <3>2 DEF FrontOK
  <2>9. FrontOK'
    BY <1>5, <2>3, <2>7, <2>8 DEF Shows
  <2> QED
    BY <1>3, <2>4, <2>5, <2>6, <2>9 DEF TogetherInv
<1>6. CASE /\ Moved("primary", "buffer", "sleep", ahead) /\ sent' = sent + 1
           /\ queue' = queue /\ NoShow
           /\ net' = net \cup {[seq |-> sent', target |-> ahead, age |-> 0]}
  <2>1. /\ place["primary"] = "buffer" /\ place'["primary"] = "sleep" /\ left'["primary"] = ahead
        /\ ~SameFrame /\ ~BeforeVblank
    BY <1>6 DEF Moved, SameFrame, BeforeVblank
  <2>2. net = {} /\ queue = << >> /\ place["secondary"] \in {"loop", "vblank"}
    <3>1. net = {} /\ queue = << >>
      BY <2>1 DEF TogetherInv, FlightOK, QueueOK
    <3> QED
      BY <2>1, <3>1, Somewhere DEF TogetherInv, PaceOK
  <2>3. ~InFront("primary", "secondary") /\ ~InFront("secondary", "primary")
    BY <2>1, <2>2 DEF TogetherInv, FrontOK
  <2>4. FlightOK'
    BY <1>1, <1>6, <2>1, <2>2, Scalars DEF FlightOK
  <2>5. QueueOK' /\ PaceOK'
    BY <1>1, <1>6, <2>2 DEF QueueOK, PaceOK
  <2>6. DoneOK'
    <3>1. color' = color /\ net' # {}
      BY <1>6 DEF NoShow
    <3>2. color["secondary"] <= sent'
      BY <1>6, Scalars DEF TogetherInv, DoneOK
    <3> QED
      BY <3>1, <3>2 DEF DoneOK
  <2>7. FrontOK'
    BY <1>6, <2>3 DEF FrontOK, InFront, NoShow
  <2> QED
    BY <1>3, <2>4, <2>5, <2>6, <2>7 DEF TogetherInv
<1> QED
  BY <1>4, <1>5, <1>6 DEF PrimaryStep

\* From the announced time on, the secondary's next vblank is the one that follows the
\* primary's next.
LEMMA NextVblank ==
  ASSUME TypeOK, InTime, BetweenVblanks, From <= phase, phase <= From + 3 * Latency,
         NEW n, AtVblank(n)
  PROVE  n = Frame + skew - phase
<1>1. n \in Int /\ 1 <= n /\ n <= Frame /\ phase + n \in {skew, Frame + skew, 2 * Frame + skew}
  BY Constants DEF AtVblank
<1>2. phase + n # skew
  BY <1>1, Scalars, Timing
<1>3. phase + n # 2 * Frame + skew
  BY <1>1, Scalars, Constants, Timing
<1> QED
  BY <1>1, <1>2, <1>3, Scalars, Constants

LEMMA SecondaryTogether ==
  ASSUME TypeOK, Running, InTime, BetweenVblanks, Separate, TogetherInv, SecondaryStep
  PROVE  TogetherInv'
<1>1. /\ From' = From /\ phase' = phase /\ skew' = skew /\ ahead' = ahead
      /\ place'["primary"] = place["primary"] /\ left'["primary"] = left["primary"]
      /\ lag'["primary"] = lag["primary"] /\ update'["primary"] = update["primary"]
  BY TimingKept DEF SecondaryStep, NoTime, Kept
<1>2. (SameFrame' <=> SameFrame) /\ (BeforeVblank' <=> BeforeVblank)
  BY <1>1 DEF SameFrame, BeforeVblank
<1>3. WakeOK'
  BY <1>1 DEF TogetherInv, WakeOK
<1>4. ASSUME place["secondary"] # "present", NoShow
      PROVE  FrontOK'
  <2>1. ~InFront("primary", "secondary")
    BY <1>4 DEF TogetherInv, FrontOK
  <2>2. ~InFront("primary", "secondary")'
    BY <1>4, <2>1 DEF InFront, NoShow
  <2>3. sent' = sent
    BY DEF SecondaryStep, NoMail
  <2> QED
    BY <1>1, <1>4, <2>2, <2>3 DEF TogetherInv, FrontOK, InFront, NoShow
<1>5. CASE /\ \/ queue = << >> /\ \E n : AtVblank(n) /\ Moved("secondary", "loop", "vblank", n)
              \/ Moved("secondary", "vblank", "loop", 0)
           /\ NoMail /\ NoShow
  <2>1. net' = net /\ queue' = queue /\ sent' = sent /\ color' = color /\ missed' = missed
    BY <1>5 DEF NoMail, NoShow
  <2>2. place["secondary"] \in {"loop", "vblank"} /\ place'["secondary"] \in {"loop", "vblank"}
    BY <1>5 DEF Moved
  <2>3. FlightOK' /\ PaceOK' /\ DoneOK'
    BY <1>1, <2>1, <2>2 DEF TogetherInv, FlightOK, PaceOK, DoneOK, Done
  <2>4. QueueOK'
    <3> SUFFICES ASSUME queue # << >> PROVE QueueOK'
      BY <2>1 DEF QueueOK
    <3>1. left'["secondary"] = left["secondary"] /\ Due' = Due
      BY <1>5 DEF Moved, Due
    <3> QED
      BY <1>1, <1>2, <2>1, <2>2, <3>1 DEF TogetherInv, QueueOK
  <2> QED
    BY <1>3, <1>4, <1>5, <2>2, <2>3, <2>4 DEF TogetherInv
<1>6. CASE (\E n : AtVblank(n) /\ Moved("secondary", "sleep", "present", n)) /\ NoMail /\ NoShow
           /\ update'["secondary"] = update["secondary"]
  <2>1. PICK n : AtVblank(n) /\ Moved("secondary", "sleep", "present", n)
    BY <1>6
  <2>2. /\ place["secondary"] = "sleep" /\ left["secondary"] = 0 /\ n \in Int /\ n > 0
        /\ place'["secondary"] = "present" /\ left'["secondary"] = n /\ lag'["secondary"] = 0
    BY <2>1, Constants DEF Moved, AtVblank
  <2>3. /\ net' = net /\ queue' = queue /\ sent' = sent /\ net = {} /\ queue = << >>
        /\ update["secondary"] = sent
    BY <1>6, <2>2 DEF NoMail, TogetherInv, PaceOK
  <2>4. FlightOK' /\ QueueOK' /\ DoneOK'
    BY <1>6, <2>2, <2>3 DEF TogetherInv, FlightOK, QueueOK, DoneOK, NoShow
  <2>5. CASE place["primary"] = "sleep"
    <3>1. left["primary"] = 0
      BY <2>2, <2>5 DEF TogetherInv, PaceOK, BeforeVblank
    <3>2. From <= phase /\ phase <= From + 3 * Latency
      BY <2>5, <3>1, WakePhase, Scalars, Constants, Timing DEF TogetherInv
    <3>3. left'["secondary"] + phase = Frame + skew
      BY <2>1, <2>2, <3>2, NextVblank, Scalars, Constants
    <3>4. PaceOK'
      BY <1>1, <1>6, <2>2, <2>3, <2>5, <3>1, <3>3 DEF PaceOK
    <3> QED
      BY <1>3, <1>4, <1>6, <2>2, <2>4, <3>4 DEF TogetherInv
  <2>6. CASE place["primary"] # "sleep"
    <3>1. BeforeVblank /\ From <= phase /\ phase <= From + 2 * Latency + lag["secondary"]
      BY <2>2, <2>6 DEF TogetherInv, PaceOK
    <3>2. From <= phase /\ phase <= From + 3 * Latency
      BY <3>1, Scalars, Constants, Timing
    <3>3. n = Frame + skew - phase
      BY <2>1, <3>2, NextVblank
    <3>4. phase + left["primary"] = Frame /\ lag["primary"] = 0 /\ place["primary"] = "present"
      BY <3>1 DEF BeforeVblank, Separate, ClockOK
    <3>5. Due' = left["primary"] - lag["primary"] + skew
      BY <2>2, <3>3, <3>4, Scalars, Constants DEF Due
    <3>6. PaceOK'
      BY <1>1, <1>6, <2>2, <2>3, <3>4, <3>5 DEF PaceOK
    <3> QED
      BY <1>3, <1>4, <1>6, <2>2, <2>4, <3>6 DEF TogetherInv
  <2> QED
    BY <2>5, <2>6
<1>7. CASE Moved("secondary", "present", "loop", 0) /\ Shows("secondary") /\ NoMail
  <2>1. /\ place["secondary"] = "present" /\ place'["secondary"] = "loop"
        /\ left["secondary"] = 0 /\ update["secondary"] = sent /\ net = {} /\ queue = << >>
        /\ net' = net /\ queue' = queue /\ sent' = sent
    BY <1>7 DEF Moved, NoMail, TogetherInv, PaceOK
  <2>2. /\ color'["primary"] = color["primary"] /\ missed'["primary"] = missed["primary"]
        /\ age'["primary"] = age["primary"]
        /\ \/ color'["secondary"] = sent /\ age'["secondary"] = 0
           \/ /\ color'["secondary"] = color["secondary"] /\ age'["secondary"] = age["secondary"]
              /\ missed'["secondary"] = missed["secondary"] \cup {sent}
    BY <1>7, <2>1 DEF Shows, Displays
  <2>3. FlightOK' /\ QueueOK' /\ PaceOK'
    BY <2>1 DEF FlightOK, QueueOK, PaceOK
  <2>4. DoneOK'
    <3>1. Done("secondary")'
      BY <2>1, <2>2 DEF Done
    <3>2. color'["secondary"] <= sent'
      <4>1. color["secondary"] <= sent
        BY DEF TogetherInv, DoneOK
      <4>2. sent \in Nat /\ sent <= sent
        BY Scalars
      <4>3. color'["secondary"] \in {sent, color["secondary"]}
        BY <2>2
      <4> QED
        BY <2>1, <4>1, <4>2, <4>3
    <3> QED
      BY <3>1, <3>2 DEF DoneOK
  <2>5. ~InFront("primary", "secondary")'
    <3>1. CASE color'["secondary"] = sent
      BY <2>2, <3>1, Scalars DEF InFront, Separate, WorkOK
    <3>2. CASE /\ color'["secondary"] = color["secondary"]
               /\ missed'["secondary"] = missed["secondary"] \cup {sent}
      BY <2>2, <3>2 DEF TogetherInv, FrontOK, InFront
    <3> QED
      BY <2>2, <3>1, <3>2
  <2>6. ASSUME InFront("secondary", "primary")'
        PROVE  /\ color'["secondary"] = sent /\ place["primary"] = "present"
               /\ age'["secondary"] + left["primary"] - lag["primary"] + skew <= 0
    <3>1. CASE color'["secondary"] = sent /\ age'["secondary"] = 0
      <4>1. ~Done("primary")
        BY <2>2, <2>6, <3>1, Scalars DEF InFront, Done
      <4>2. place["primary"] \in {"sleep", "present"}
        <5>1. place["primary"] \notin {"loop", "vblank", "buffer"}
          BY <4>1 DEF Separate, WorkOK
        <5> QED
          BY <5>1, Somewhere
      <4>3. place["primary"] # "sleep"
        <5> SUFFICES ASSUME place["primary"] = "sleep" PROVE FALSE
          OBVIOUS
        <5>1. left["primary"] = 0 /\ left["secondary"] + phase = Frame + skew
          BY <2>1 DEF TogetherInv, PaceOK, SameFrame
        <5>2. phase <= From + 3 * Latency
          BY <5>1, WakePhase, Scalars, Constants, Timing DEF TogetherInv
        <5> QED
          BY <2>1, <5>1, <5>2, Scalars, Constants, Timing
      <4>4. Due = left["primary"] - lag["primary"] + skew
        BY <2>1, <4>2, <4>3 DEF TogetherInv, PaceOK, SameFrame
      <4>5. 0 + left["primary"] - lag["primary"] + skew <= 0
        <5>1. Due <= 0
          BY <2>1, Scalars DEF Due
        <5> QED
          BY <4>4, <5>1, Scalars
      <4> QED
        BY <3>1, <4>2, <4>3, <4>5
    <3>2. CASE color'["secondary"] = color["secondary"] /\ age'["secondary"] = age["secondary"]
      BY <2>2, <2>6, <3>2 DEF TogetherInv, FrontOK, InFront
    <3> QED
      BY <2>2, <3>1, <3>2
  <2>7. FrontOK'
    BY <1>1, <2>1, <2>5, <2>6 DEF FrontOK
  <2> QED
    BY <1>3, <2>3, <2>4, <2>7 DEF TogetherInv
<1>8. CASE /\ queue # << >> /\ Moved("secondary", "loop", "sleep", queue[1].target)
           /\ update'["secondary"] = queue[1].seq
           /\ sent' = sent /\ net' = net /\ queue' = Tail(queue) /\ NoShow
  <2>1. /\ place["secondary"] = "loop" /\ place'["secondary"] = "sleep"
        /\ left'["secondary"] = queue[1].target /\ lag'["secondary"] \in {lag["secondary"], 0}
        /\ net = {} /\ update'["secondary"] = sent
    BY <1>8 DEF Moved, TogetherInv, QueueOK
  <2>2. queue' = << >>
    BY <1>8, QueueTail DEF TogetherInv, QueueOK
  <2>3. FlightOK' /\ QueueOK' /\ DoneOK'
    BY <1>8, <2>1, <2>2 DEF TogetherInv, FlightOK, QueueOK, DoneOK, NoShow
  <2>4. PaceOK'
    <3>1. CASE place["primary"] = "sleep"
      <4>1. left'["secondary"] = left["primary"] /\ lag["primary"] <= lag'["secondary"]
        BY <1>8, <2>1, <3>1, Scalars DEF TogetherInv, QueueOK, BeforeVblank
      <4> QED
        BY <1>1, <1>8, <2>1, <2>2, <3>1, <4>1 DEF PaceOK
    <3>2. CASE place["primary"] # "sleep"
      <4>1. /\ BeforeVblank /\ From <= phase /\ phase <= From + 2 * Latency
            /\ left'["secondary"] = 0
        BY <1>8, <2>1, <3>2 DEF TogetherInv, QueueOK
      <4>2. phase <= From + 2 * Latency + lag'["secondary"]
        BY <2>1, <4>1, Scalars, Constants, Timing
      <4> QED
        BY <1>1, <1>2, <1>8, <2>1, <2>2, <4>1, <4>2 DEF PaceOK
    <3> QED
      BY <3>1, <3>2
  <2> QED
    BY <1>3, <1>4, <1>8, <2>1, <2>3, <2>4 DEF TogetherInv
<1> QED
  BY <1>5, <1>6, <1>7, <1>8 DEF SecondaryStep

LEMMA NetworkTogether ==
  ASSUME TypeOK, Running, InTime, BetweenVblanks, Separate, TogetherInv, NetworkStep
  PROVE  TogetherInv'
<1>1. /\ From' = From /\ phase' = phase /\ skew' = skew /\ ahead' = ahead /\ sent' = sent
      /\ color' = color /\ age' = age /\ missed'["primary"] = missed["primary"]
      /\ \A d \in Displays :
           place'[d] = place[d] /\ left'[d] = left[d] /\ lag'[d] = lag[d] /\ update'[d] = update[d]
  BY TimingKept DEF NetworkStep, NoTime, Kept, Displays
<1>2. PICK m \in net :
        /\ net' = net \ {m}
        /\ \/ /\ queue' = Append(queue, [seq |-> m.seq, target |-> m.target])
              /\ missed' = missed
           \/ /\ queue' = queue
              /\ missed'["secondary"] = missed["secondary"] \cup {m.seq}
  BY DEF NetworkStep
<1>3. /\ net' = {} /\ queue = << >> /\ place["primary"] = "sleep"
      /\ place["secondary"] \in {"loop", "vblank"} /\ m.seq = sent /\ m.target = left["primary"]
  BY <1>2, OnlyMessage DEF TogetherInv, FlightOK
<1>4. WakeOK' /\ FlightOK' /\ PaceOK'
  BY <1>1, <1>3 DEF TogetherInv, WakeOK, FlightOK, PaceOK, Displays
<1>5. FrontOK'
  <2>1. ~InFront("primary", "secondary") /\ ~InFront("secondary", "primary")
    BY <1>3 DEF TogetherInv, FrontOK
  <2>2. missed["secondary"] \subseteq missed'["secondary"]
    BY <1>2
  <2> QED
    BY <1>1, <2>1, <2>2 DEF FrontOK, InFront
<1>6. CASE queue' = Append(<< >>, [seq |-> m.seq, target |-> m.target])
  <2>1. queue' # << >> /\ Len(queue') = 1 /\ queue'[1] = [seq |-> m.seq, target |-> m.target]
    BY <1>6, QueueAppend
  <2>2. left["primary"] >= Frame + Latency /\ lag["primary"] = 0
    <3>1. left["primary"] >= Frame + Latency
      BY <1>2, LongBefore DEF TogetherInv
    <3> QED
      BY <3>1, Scalars, Constants DEF Separate, ClockOK
  <2>3. Due <= Frame
    <3>1. left["secondary"] <= Frame
      <4>1. place["secondary"] = "loop" => left["secondary"] = 0
        BY DEF Separate, ClockOK
      <4>2. left["secondary"] > 0 => place["secondary"] = "vblank"
        BY <1>3, <4>1
      <4>3. left["secondary"] > 0 => AtVblank(left["secondary"])
        BY <4>2 DEF Separate, ClockOK
      <4> QED
        BY <4>3, Scalars, Constants DEF AtVblank
    <3> QED
      BY <3>1, Scalars, Constants DEF Due
  <2>4. Due' = Due /\ Due \in Int
    BY <1>1, Scalars DEF Due, Displays
  <2>5. Due' + Latency <= left'["primary"]
    BY <1>1, <2>2, <2>3, <2>4, Scalars, Constants DEF Displays
  <2>6. QueueOK'
    BY <1>1, <1>3, <2>1, <2>2, <2>5 DEF QueueOK, Displays
  <2>7. DoneOK'
    BY <1>1, <2>1 DEF TogetherInv, DoneOK
  <2> QED
    BY <1>4, <1>5, <2>6, <2>7 DEF TogetherInv
<1>7. CASE /\ queue' = queue
           /\ missed'["secondary"] = missed["secondary"] \cup {m.seq}
  <2>1. QueueOK'
    BY <1>3, <1>7 DEF QueueOK
  <2>2. DoneOK'
    BY <1>1, <1>3, <1>7 DEF TogetherInv, DoneOK, Done
  <2> QED
    BY <1>4, <1>5, <2>1, <2>2 DEF TogetherInv
<1> QED
  BY <1>2, <1>3, <1>6, <1>7

\* A tick brings every thread one tick closer to what it waits for, or makes it later.
LEMMA Closer ==
  ASSUME TypeOK, Separate, TimeStep
  PROVE  /\ left'["primary"] - lag'["primary"] = left["primary"] - lag["primary"] - 1
         /\ Due \in Int /\ Due' = Due - 1 /\ Due > -Latency
         /\ left["primary"] - lag["primary"] > -Latency
         /\ left["primary"] = 0 => left'["primary"] = 0 /\ lag'["primary"] = lag["primary"] + 1
         /\ left["primary"] > 0 =>
              left'["primary"] = left["primary"] - 1 /\ lag'["primary"] = lag["primary"]
         /\ left["secondary"] = 0 =>
              left'["secondary"] = 0 /\ lag'["secondary"] = lag["secondary"] + 1
         /\ left["secondary"] > 0 =>
              left'["secondary"] = left["secondary"] - 1 /\ lag'["secondary"] = lag["secondary"]
<1>1. Waited("primary") /\ Waited("secondary")
  BY DEF TimeStep
<1>2. /\ left["primary"] = 0 => left'["primary"] = 0 /\ lag'["primary"] = lag["primary"] + 1
                                /\ lag["primary"] < Latency
      /\ left["secondary"] = 0 => left'["secondary"] = 0 /\ lag'["secondary"] = lag["secondary"] + 1
                                  /\ lag["secondary"] < Latency
  BY <1>1 DEF Waited
<1>3. /\ left["primary"] > 0 =>
           left'["primary"] = left["primary"] - 1 /\ lag'["primary"] = lag["primary"]
      /\ left["secondary"] > 0 =>
           left'["secondary"] = left["secondary"] - 1 /\ lag'["secondary"] = lag["secondary"]
  BY <1>1, Scalars DEF Waited
<1>4. /\ left["primary"] > 0 => lag["primary"] = 0
      /\ left["secondary"] > 0 => lag["secondary"] = 0
  BY DEF Separate, ClockOK
<1> QED
  BY <1>2, <1>3, <1>4, Scalars, Constants DEF Due

\* What lies ahead of the vblank keeps its place in the frame.
LEMMA SamePlace ==
  ASSUME TypeOK, TimeStep, NEW n \in Int, NEW n2 \in Int, n2 = n - 1
  PROVE  (phase' + n2) % Frame = (phase + n) % Frame
<1>1. phase' = IF phase + 1 = Frame THEN 0 ELSE phase + 1
  BY DEF TimeStep
<1>2. CASE phase + 1 = Frame
  <2>1. phase' + n2 \in Int /\ phase' + n2 + Frame = phase + n
    BY <1>1, <1>2, Scalars, Constants
  <2> QED
    BY <2>1, Remainders
<1>3. CASE phase + 1 # Frame
  <2>1. phase' + n2 = phase + n
    BY <1>1, <1>3, Scalars
  <2> QED
    BY <2>1
<1> QED
  BY <1>2, <1>3

LEMMA TimeTogether ==
  ASSUME TypeOK, Running, InTime, BetweenVblanks, Separate, TogetherInv, TimeStep
  PROVE  TogetherInv'
<1>1. /\ From' = From /\ skew' = skew /\ ahead' = ahead /\ sent' = sent
      /\ color' = color /\ missed' = missed /\ (net' = {} <=> net = {})
      /\ place'["primary"] = place["primary"] /\ place'["secondary"] = place["secondary"]
      /\ update'["primary"] = update["primary"] /\ update'["secondary"] = update["secondary"]
      /\ (queue' = << >> <=> queue = << >>)
  BY TimingKept DEF TimeStep, Waited
<1>2. WakeOK'
  <2>1. PICK n \in Int, n2 \in Int : /\ n = left["primary"] - lag["primary"] /\ n2 = n - 1
                                     /\ n2 = left'["primary"] - lag'["primary"]
    BY Closer, Scalars
  <2>2. (phase' + n2) % Frame = (phase + n) % Frame
    BY <2>1, SamePlace
  <2>3. (phase' + (n2 + ahead)) % Frame = (phase + (n + ahead)) % Frame
    <3>1. PICK k \in Int, k2 \in Int : k = n + ahead /\ k2 = n2 + ahead /\ k2 = k - 1
      BY <2>1, Scalars
    <3> QED
      BY <3>1, SamePlace
  <2>4. phase' \in Int /\ left'["primary"] \in Int /\ lag'["primary"] \in Int
    <3>1. phase' \in Int
      BY Scalars DEF TimeStep
    <3> QED
      BY <3>1, Closer, Scalars
  <2>5. /\ phase' + n2 = phase' + left'["primary"] - lag'["primary"]
        /\ phase + n = phase + left["primary"] - lag["primary"]
        /\ phase' + (n2 + ahead) = phase' + left'["primary"] - lag'["primary"] + ahead
        /\ phase + (n + ahead) = phase + left["primary"] - lag["primary"] + ahead
    BY <2>1, <2>4, Scalars
  <2> QED
    BY <1>1, <2>2, <2>3, <2>5 DEF TogetherInv, WakeOK
<1>3. FlightOK'
  <2>1. ASSUME NEW n \in net'
        PROVE  n.seq = sent /\ n.target = left'["primary"] /\ left'["primary"] + n.age = ahead
    <3>1. PICK m \in net : n.seq = m.seq /\ n.target = LessOne(m.target) /\ n.age = m.age + 1
      BY DEF TimeStep
    <3>2. m.seq = sent /\ m.target = left["primary"] /\ left["primary"] + m.age = ahead
      BY DEF TogetherInv, FlightOK
    <3>3. left["primary"] > 0
      BY <3>1, LongBefore, Scalars, Constants DEF TogetherInv
    <3>4. m.age \in Int
      BY Constants DEF TypeOK
    <3> QED
      BY <3>1, <3>2, <3>3, <3>4, Closer, Scalars DEF LessOne
  <2> QED
    BY <1>1, <2>1 DEF TogetherInv, FlightOK
<1>4. QueueOK'
  <2> SUFFICES ASSUME queue # << >> PROVE QueueOK'
    BY <1>1 DEF QueueOK
  <2>1. /\ Len(queue) = 1 /\ net = {} /\ queue[1].seq = sent
        /\ place["secondary"] \in {"loop", "vblank"}
    BY DEF TogetherInv, QueueOK
  <2>2. Len(queue') = 1 /\ queue'[1].seq = sent /\ queue'[1].target = LessOne(queue[1].target)
    BY <2>1 DEF TimeStep
  <2>3. /\ place["primary"] = "sleep" /\ queue[1].target = left["primary"]
        /\ lag["primary"] = 0 /\ Due + Latency <= left["primary"]
    <3>1. Due # -Latency
      BY Closer, Constants
    <3> QED
      BY <3>1 DEF TogetherInv, QueueOK
  <2>4. left["primary"] > 0
    <3>1. Due + Latency \in Int /\ Due + Latency > 0
      BY Closer, Constants
    <3>2. Due + Latency <= left["primary"]
      BY <2>3
    <3>3. left["primary"] \in Int
      BY Scalars
    <3> QED
      BY <3>1, <3>2, <3>3
  <2>5. /\ left'["primary"] = left["primary"] - 1 /\ lag'["primary"] = 0
        /\ LessOne(left["primary"]) = left["primary"] - 1
    BY <2>3, <2>4, Closer DEF LessOne
  <2>6. Due' + Latency <= left'["primary"]
    <3>1. /\ Due \in Int /\ Due' = Due - 1 /\ Latency \in Int /\ left["primary"] \in Int
          /\ Due + Latency <= left["primary"]
      <4>1. Due \in Int /\ Due' = Due - 1
        BY Closer
      <4>2. Due + Latency <= left["primary"]
        BY <2>3
      <4>3. Latency \in Int /\ left["primary"] \in Int
        BY Scalars, Constants
      <4> QED
        BY <4>1, <4>2, <4>3
    <3>2. \A a \in Int : \A b \in Int : \A c \in Int : a + b <= c => a - 1 + b <= c - 1
      OBVIOUS
    <3> QED
      BY <2>5, <3>1, <3>2
  <2> QED
    BY <1>1, <2>1, <2>2, <2>3, <2>5, <2>6 DEF QueueOK
<1>5. ASSUME place["secondary"] = "present", SameFrame
      PROVE  SameFrame' /\ phase' = phase + 1
  <2>1. Due = skew - phase
    BY <1>5 DEF TogetherInv, PaceOK, SameFrame
  <2>2. phase + 1 < Frame
    BY <2>1, Closer, Timing, Scalars, Constants DEF Due
  <2>3. phase' = phase + 1
    BY <2>2, Scalars, Constants DEF TimeStep
  <2>4. CASE place["primary"] = "vblank" /\ left["primary"] > 0
    <3>1. phase + left["primary"] = Frame
      BY <2>4 DEF Separate, ClockOK
    <3>2. left'["primary"] > 0
      BY <2>2, <2>4, <3>1, Closer, Scalars, Constants
    <3> QED
      BY <1>1, <2>3, <2>4, <3>2 DEF SameFrame
  <2> QED
    BY <1>1, <1>5, <2>3, <2>4 DEF SameFrame
<1>6. PaceOK'
  <2> SUFFICES ASSUME place["secondary"] \in {"sleep", "present"} PROVE PaceOK'
    BY <1>1 DEF PaceOK
  <2>1. update["secondary"] = sent /\ net = {} /\ queue = << >>
    BY DEF TogetherInv, PaceOK
  <2>2. CASE /\ place["secondary"] = "sleep" /\ place["primary"] = "sleep"
             /\ left["secondary"] = left["primary"] /\ lag["primary"] <= lag["secondary"]
    <3>1. left'["secondary"] = left'["primary"] /\ lag'["primary"] <= lag'["secondary"]
      BY <2>2, Closer, Scalars
    <3> QED
      BY <1>1, <2>1, <2>2, <3>1 DEF PaceOK
  <2>3. CASE /\ place["secondary"] = "sleep" /\ BeforeVblank /\ left["secondary"] = 0
             /\ From <= phase /\ phase <= From + 2 * Latency + lag["secondary"]
    <3>1. phase + left["primary"] = Frame
      BY <2>3 DEF Separate, ClockOK, BeforeVblank
    <3>2. lag["secondary"] < Latency /\ lag'["secondary"] = lag["secondary"] + 1
          /\ left'["secondary"] = 0
      BY <2>3, Closer, Scalars, Constants DEF Due
    <3>3. phase + 1 < Frame
      BY <2>3, <3>2, Scalars, Constants, Timing
    <3>4. phase' = phase + 1
      BY <3>3, Scalars, Constants DEF TimeStep
    <3>5. BeforeVblank'
      <4>1. left'["primary"] = left["primary"] - 1 /\ place["primary"] = "present"
        BY <2>3, Closer DEF BeforeVblank
      <4>2. left'["primary"] > 0
        BY <3>1, <3>3, <4>1, Scalars, Constants
      <4> QED
        BY <1>1, <4>1, <4>2 DEF BeforeVblank
    <3>6. From <= phase' /\ phase' <= From + 2 * Latency + lag'["secondary"]
      BY <2>3, <3>2, <3>4, Scalars, Constants, Timing
    <3> QED
      BY <1>1, <2>1, <2>3, <3>2, <3>5, <3>6 DEF PaceOK
  <2>4. CASE /\ place["secondary"] = "present" /\ place["primary"] = "sleep"
             /\ left["primary"] = 0 /\ left["secondary"] + phase = Frame + skew
    <3>1. phase <= From + 2 * Latency + lag["primary"]
      BY <2>4, WakePhase, Scalars, Constants, Timing DEF TogetherInv
    <3>2. lag["primary"] < Latency /\ left'["primary"] = 0
      BY <2>4, Closer, Scalars, Constants
    <3>3. phase + 1 < Frame /\ phase < Frame + skew
      BY <3>1, <3>2, Scalars, Constants, Timing
    <3>4. phase' = phase + 1
      BY <3>3, Scalars, Constants DEF TimeStep
    <3>5. left'["secondary"] + phase' = Frame + skew
      BY <2>4, <3>3, <3>4, Closer, Scalars, Constants
    <3> QED
      BY <1>1, <2>1, <2>4, <3>2, <3>5 DEF PaceOK
  <2>5. CASE /\ place["secondary"] = "present" /\ place["primary"] = "present"
             /\ Due = left["primary"] - lag["primary"] + skew
    <3>1. Due' = left'["primary"] - lag'["primary"] + skew
      BY <2>5, Closer, Scalars
    <3> QED
      BY <1>1, <2>1, <2>5, <3>1 DEF PaceOK
  <2>6. CASE place["secondary"] = "present" /\ SameFrame /\ Due = skew - phase
    <3>1. Due' = skew - phase'
      BY <1>5, <2>6, Closer, Scalars
    <3> QED
      BY <1>1, <1>5, <2>1, <2>6, <3>1 DEF PaceOK
  <2> QED
    BY <2>2, <2>3, <2>4, <2>5, <2>6 DEF TogetherInv, PaceOK
<1>7. DoneOK'
  BY <1>1 DEF TogetherInv, DoneOK, Done
<1>8. FrontOK'
  <2>1. /\ (InFront("primary", "secondary")' <=> InFront("primary", "secondary"))
        /\ (InFront("secondary", "primary")' <=> InFront("secondary", "primary"))
    BY <1>1 DEF InFront
  <2>2. /\ age'["primary"] <= age["primary"] + 1 /\ age'["secondary"] <= age["secondary"] + 1
        /\ age'["primary"] \in Int /\ age'["secondary"] \in Int
    BY DEF TimeStep, Displays
  <2>3. ASSUME InFront("primary", "secondary")
        PROVE  /\ color["primary"] = sent /\ place["secondary"] = "present"
               /\ SameFrame' /\ age'["primary"] <= phase'
    BY <1>5, <2>2, <2>3, Scalars DEF TogetherInv, FrontOK
  <2>4. ASSUME InFront("secondary", "primary")
        PROVE  /\ color["secondary"] = sent /\ place["primary"] = "present"
               /\ age'["secondary"] + left'["primary"] - lag'["primary"] + skew <= 0
    <3>1. left'["primary"] \in Int /\ lag'["primary"] \in Int
      BY Closer, Scalars
    <3> QED
      BY <2>2, <2>4, <3>1, Closer, Scalars DEF TogetherInv, FrontOK
  <2> QED
    BY <1>1, <2>1, <2>3, <2>4 DEF FrontOK
<1> QED
  BY <1>2, <1>3, <1>4, <1>6, <1>7, <1>8 DEF TogetherInv

\* While both processes run, and the primary announces times that are far enough ahead
\* and clear of the vblanks.
WhenTimed == Running /\ InTime /\ BetweenVblanks => Separate /\ TogetherInv

LEMMA WhenTimedHolds == Spec => []WhenTimed
<1>1. Init => WhenTimed
  BY InitSeparate, InitTogether DEF WhenTimed
<1>2. ASSUME TypeOK, WhenTimed, [Next]_vars PROVE WhenTimed'
  <2>1. CASE UNCHANGED vars
    BY <1>2, <2>1 DEF vars, main, history, WhenTimed, Running, InTime, BetweenVblanks, Separate,
       ClockOK, WorkOK, Done, AtVblank, TogetherInv, WakeOK, FlightOK, QueueOK, PaceOK, DoneOK,
       FrontOK, InFront, SameFrame, BeforeVblank, From, Due
  <2>2. CASE Next
    <3> SUFFICES ASSUME Running', InTime', BetweenVblanks' PROVE Separate' /\ TogetherInv'
      BY DEF WhenTimed
    <3>1. Running /\ (PrimaryStep \/ SecondaryStep \/ NetworkStep \/ TimeStep)
      BY <1>2, <2>2, Steps
    <3>2. skew' = skew /\ ahead' = ahead
      BY <3>1 DEF PrimaryStep, SecondaryStep, NetworkStep, TimeStep, NoTime
    <3>3. InTime /\ BetweenVblanks
      BY <3>2, TimingKept
    <3>4. Separate /\ TogetherInv /\ Latency < Frame
      BY <1>2, <3>1, <3>3, Timing DEF WhenTimed
    <3>5. Separate'
      BY <1>2, <2>2, <3>4, StepSeparate
    <3> QED
      BY <1>2, <3>1, <3>3, <3>4, <3>5, PrimaryTogether, SecondaryTogether, NetworkTogether,
         TimeTogether
  <2> QED
    BY <1>2, <2>1, <2>2
<1> QED
  BY <1>1, <1>2, TypesHold, PTL DEF Spec, TypeInv

\* All displays change their colour at the same vblank, up to the skew of their vblanks and
\* the delay of a thread (docs/framesync.md:11, primary.cpp:189, secondary.cpp:260).
THEOREM ShownTogether == Spec => []Simultaneous
<1>1. ASSUME TypeOK, WhenTimed PROVE Simultaneous
  <2> SUFFICES ASSUME Running, InTime, BetweenVblanks
               PROVE  /\ ~Alone("primary", "secondary", Distance + Latency)
                      /\ ~Alone("secondary", "primary", Distance + Latency)
    BY DEF Simultaneous
  <2>1. Separate /\ TogetherInv
    BY <1>1 DEF WhenTimed
  <2>2. Distance \in Nat /\ -skew <= Distance /\ skew <= Distance
    BY <1>1, Scalars DEF Distance
  <2>3. ASSUME InFront("primary", "secondary") PROVE age["primary"] <= Distance + Latency
    <3>1. place["secondary"] = "present" /\ SameFrame /\ age["primary"] <= phase
      BY <2>1, <2>3 DEF TogetherInv, FrontOK
    <3>2. Due = skew - phase
      BY <2>1, <3>1 DEF TogetherInv, PaceOK, SameFrame
    <3>3. Due >= -Latency
      BY <1>1, Scalars, Constants DEF Due
    <3> QED
      BY <1>1, <2>2, <3>1, <3>2, <3>3, Scalars, Constants
  <2>4. ASSUME InFront("secondary", "primary") PROVE age["secondary"] <= Distance + Latency
    <3>1. age["secondary"] + left["primary"] - lag["primary"] + skew <= 0
      BY <2>1, <2>4 DEF TogetherInv, FrontOK
    <3> QED
      BY <1>1, <2>2, <3>1, Scalars, Constants
  <2>5. ASSUME NEW d \in Displays, NEW e \in Displays, Alone(d, e, Distance + Latency)
        PROVE  InFront(d, e) /\ age[d] > Distance + Latency
    BY <2>5 DEF Alone, InFront
  <2>6. Distance + Latency \in Nat
    BY <2>2, Constants
  <2> QED
    BY <1>1, <2>3, <2>4, <2>5, <2>6, Scalars DEF Displays
<1> QED
  BY <1>1, TypesHold, WhenTimedHolds, PTL DEF TypeInv

\* Then the queue of pending updates stays empty while the secondary works on one
\* (secondary.cpp:226): its pace is that of the primary.
THEOREM NothingPiles == Spec => []NoBacklog
<1>1. WhenTimed => NoBacklog
  BY DEF WhenTimed, NoBacklog, TogetherInv, PaceOK
<1> QED
  BY <1>1, WhenTimedHolds, PTL

-----------------------------------------------------------------------------
(* However short the time ahead, the secondary is at most a frame late.    *)

\* The pause, two runs of the primary and the network together take less of a frame than
\* the displays' vblanks leave.
Prompt == Distance + Buffer + 2 * Latency + MaxDelay < Frame

Lead == IF skew < 0 THEN 0 ELSE skew

\* The primary has sent an update and waits for the time to show it.
Waiting == place["primary"] = "sleep" \/ BeforeVblank

\* The ticks to the vblank at which the primary shows the update, or since then.
Until == IF Waiting THEN Frame - phase ELSE -phase

\* It has the update in hand, or has shown it in this frame.
Near == place["primary"] \in {"sleep", "present"} \/ SameFrame

Announced == IF place["primary"] = "sleep" THEN left["primary"] ELSE 0

\* The primary sends early in a frame.
PauseOK ==
  place["primary"] = "buffer" =>
    /\ phase + left["primary"] - lag["primary"] >= Buffer
    /\ phase + left["primary"] - lag["primary"] <= Buffer + Latency

\* An update arrives in the frame it was sent in.
SentOK ==
  /\ \A m, n \in net : m = n
  /\ \A m \in net :
       m.seq = sent /\ m.target = Announced /\ phase <= Buffer + 2 * Latency + m.age
  /\ net # {} => /\ Waiting /\ queue = << >>
                 /\ \/ place["secondary"] \in {"loop", "vblank"}
                    \/ place["secondary"] = "present" /\ update["secondary"] # sent

\* It is taken before the secondary's next vblank, unless an earlier one is still to be
\* presented then.
TakenOK ==
  queue # << >> =>
    /\ net = {} /\ Len(queue) = 1 /\ queue[1].seq = sent /\ queue[1].target = Announced
    /\ \/ place["secondary"] \in {"loop", "vblank"} /\ Near /\ Due <= Until + Lead
       \/ place["secondary"] = "present" /\ update["secondary"] # sent

AsleepOK ==
  place["secondary"] = "sleep" =>
    /\ update["secondary"] = sent /\ net = {} /\ queue = << >>
    /\ \/ place["primary"] = "sleep" /\ left["secondary"] = left["primary"]
       \/ /\ place["primary"] = "present" \/ SameFrame
          /\ left["secondary"] = 0 /\ Due <= Until + Lead

\* It is presented a frame after the primary's at the latest, and the secondary is done with
\* it before the primary presents the next.
ShowOK ==
  place["secondary"] = "present" =>
    \/ /\ update["secondary"] = sent /\ net = {} /\ queue = << >>
       /\ \/ Near /\ Due <= Until + Frame + skew
          \/ place["primary"] \in {"loop", "vblank", "buffer"} /\ Due <= skew - phase
    \/ /\ update["secondary"] = sent - 1 /\ color["secondary"] < sent
       /\ Waiting /\ Due <= skew - phase

\* An update that nobody has before him has been shown or missed.
IdleOK ==
  /\ color["secondary"] <= sent
  /\ \/ net # {} \/ queue # << >>
     \/ place["secondary"] \in {"sleep", "present"} /\ update["secondary"] = sent
     \/ Done("secondary")

\* The secondary has the update that only the primary shows.
BehindOK ==
  InFront("primary", "secondary") =>
    \/ /\ SameFrame /\ color["primary"] = sent /\ age["primary"] <= phase
       /\ \/ queue # << >> /\ place["secondary"] \in {"loop", "vblank"}
          \/ place["secondary"] = "sleep"
    \/ /\ place["secondary"] = "present" /\ update["secondary"] = color["primary"]
       /\ age["primary"] + Due <= Frame + skew

LateInv == PauseOK /\ SentOK /\ TakenOK /\ AsleepOK /\ ShowOK /\ IdleOK /\ BehindOK

LEMMA Margins ==
  ASSUME TypeOK, Prompt
  PROVE  /\ Distance \in Nat /\ -skew <= Distance /\ skew <= Distance
         /\ Lead \in Nat /\ skew <= Lead /\ Lead <= Distance /\ (skew < 0 => Lead = 0)
         /\ Distance + Buffer + 2 * Latency + MaxDelay < Frame
         /\ Due \in Int /\ Due >= -Latency
         /\ Until \in Int /\ -phase <= Until /\ (Until = Frame - phase \/ Until = -phase)
<1>1. /\ Distance \in Nat /\ -skew <= Distance /\ skew <= Distance
      /\ Lead \in Nat /\ skew <= Lead /\ Lead <= Distance /\ (skew < 0 => Lead = 0)
  BY Scalars DEF Distance, Lead
<1>2. Due \in Int /\ Due >= -Latency
  BY Scalars, Constants DEF Due
<1>3. Until \in Int /\ -phase <= Until /\ (Until = Frame - phase \/ Until = -phase)
  BY Scalars, Constants DEF Until
<1> QED
  BY <1>1, <1>2, <1>3 DEF Prompt

LEMMA MarginsKept ==
  ASSUME skew' = skew
  PROVE  (Prompt' <=> Prompt) /\ Lead' = Lead
BY DEF Prompt, Distance, Lead

LEMMA InitLate == Init => LateInv
<1> SUFFICES ASSUME Init PROVE LateInv
  OBVIOUS
<1>1. /\ place["primary"] = "loop" /\ place["secondary"] = "loop" /\ net = {} /\ queue = << >>
      /\ color["primary"] = 0 /\ color["secondary"] = 0 /\ sent = 0
  BY DEF Init, Displays, Never
<1> QED
  BY <1>1 DEF LateInv, PauseOK, SentOK, TakenOK, AsleepOK, ShowOK, IdleOK, Done, BehindOK, InFront

LEMMA PrimaryPause ==
  ASSUME TypeOK, Prompt, Separate, PauseOK, PrimaryStep
  PROVE  PauseOK'
<1> SUFFICES ASSUME place'["primary"] = "buffer" PROVE PauseOK'
  BY DEF PauseOK
<1>1. Moved("primary", "vblank", "buffer", Buffer) /\ phase' = phase
  BY DEF PrimaryStep, Moved, NoTime
<1>2. phase = lag["primary"] /\ left'["primary"] = Buffer /\ lag'["primary"] = 0
  BY <1>1, Constants DEF Moved, Separate, ClockOK
<1> QED
  BY <1>1, <1>2, Scalars, Constants DEF PauseOK

LEMMA PrimaryLate ==
  ASSUME TypeOK, Running, Prompt, Separate, LateInv, PrimaryStep
  PROVE  LateInv'
<1>1. /\ phase' = phase /\ skew' = skew /\ ahead' = ahead
      /\ place'["secondary"] = place["secondary"] /\ left'["secondary"] = left["secondary"]
      /\ lag'["secondary"] = lag["secondary"] /\ update'["secondary"] = update["secondary"]
      /\ Lead' = Lead
  BY MarginsKept DEF PrimaryStep, NoTime, Kept
<1>2. Due' = Due
  BY <1>1 DEF Due
<1>3. PauseOK'
  BY PrimaryPause DEF LateInv
<1>4. CASE /\ \/ Moved("primary", "loop", "vblank", Frame - phase)
              \/ Moved("primary", "vblank", "buffer", Buffer)
              \/ Moved("primary", "buffer", "loop", 0)
              \/ Moved("primary", "sleep", "present", Frame - phase)
           /\ NoMail /\ NoShow
  <2>1. net' = net /\ queue' = queue /\ sent' = sent /\ left["primary"] = 0
        /\ color' = color /\ age' = age /\ missed' = missed
    BY <1>4 DEF NoMail, NoShow, Moved
  <2>2. Frame - phase \in Nat /\ Frame - phase > 0 /\ Buffer > 0
    BY Scalars, Constants
  <2>3. (Waiting' <=> Waiting) /\ (Near => Near') /\ (SameFrame => SameFrame')
    BY <1>4, <2>2 DEF Moved, Waiting, BeforeVblank, Near, SameFrame
  <2>4. Until' = Until /\ Announced' = Announced
    BY <1>1, <1>4, <2>1, <2>3 DEF Until, Announced, Moved
  <2>5. /\ place["primary"] = "sleep" => place'["primary"] = "present"
        /\ place["primary"] \in {"loop", "vblank", "buffer"} =>
             place'["primary"] \in {"loop", "vblank", "buffer"}
        /\ place["primary"] # "present"
    BY <1>4 DEF Moved
  <2>6. SentOK'
    BY <1>1, <2>1, <2>3, <2>4 DEF LateInv, SentOK
  <2>7. TakenOK'
    BY <1>1, <1>2, <2>1, <2>3, <2>4 DEF LateInv, TakenOK
  <2>8. AsleepOK'
    <3> SUFFICES ASSUME place["secondary"] = "sleep" PROVE AsleepOK'
      BY <1>1 DEF AsleepOK
    <3>1. update["secondary"] = sent /\ net = {} /\ queue = << >>
      BY DEF LateInv, AsleepOK
    <3>2. CASE place["primary"] = "sleep"
      <4>1. left["secondary"] = 0
        BY <2>1, <3>2 DEF LateInv, AsleepOK, SameFrame
      <4>2. Due <= 0 /\ Until = Frame - phase
        BY <3>2, <4>1, Scalars DEF Due, Until, Waiting
      <4>3. Due <= Until + Lead
        BY <2>2, <4>2, Margins
      <4> QED
        BY <1>1, <1>2, <2>1, <2>4, <2>5, <3>1, <3>2, <4>1, <4>3 DEF AsleepOK
    <3>3. CASE place["primary"] # "sleep"
      <4>1. SameFrame /\ left["secondary"] = 0 /\ Due <= Until + Lead
        BY <2>5, <3>3 DEF LateInv, AsleepOK
      <4> QED
        BY <1>1, <1>2, <2>1, <2>3, <2>4, <3>1, <4>1 DEF AsleepOK
    <3> QED
      BY <3>2, <3>3
  <2>9. ShowOK'
    BY <1>1, <1>2, <2>1, <2>3, <2>4, <2>5 DEF LateInv, ShowOK
  <2>10. IdleOK'
    BY <1>1, <2>1 DEF LateInv, IdleOK, Done
  <2>11. BehindOK'
    BY <1>1, <1>2, <2>1, <2>3 DEF LateInv, BehindOK, InFront
  <2> QED
    BY <1>3, <2>6, <2>7, <2>8, <2>9, <2>10, <2>11 DEF LateInv
<1>5. CASE Moved("primary", "present", "loop", 0) /\ Shows("primary") /\ NoMail
  <2>1. /\ place["primary"] = "present" /\ left["primary"] = 0
        /\ place'["primary"] = "loop" /\ left'["primary"] = 0
        /\ net' = net /\ queue' = queue /\ sent' = sent
    BY <1>5 DEF Moved, NoMail
  <2>2. ~Waiting /\ ~Waiting' /\ Near /\ Near' /\ SameFrame' /\ ~SameFrame
    BY <2>1 DEF Waiting, BeforeVblank, Near, SameFrame
  <2>3. Until' = Until /\ Until = -phase /\ Announced' = Announced /\ net = {}
    BY <1>1, <2>1, <2>2 DEF Until, Announced, LateInv, SentOK
  <2>4. /\ update["primary"] = sent /\ color'["secondary"] = color["secondary"]
        /\ missed'["secondary"] = missed["secondary"]
    BY <1>5, <2>1 DEF Shows, Separate, WorkOK, Displays
  <2>5. SentOK' /\ TakenOK' /\ AsleepOK'
    BY <1>1, <1>2, <2>1, <2>2, <2>3 DEF LateInv, SentOK, TakenOK, AsleepOK
  <2>6. ShowOK'
    BY <1>1, <1>2, <2>1, <2>2, <2>3 DEF LateInv, ShowOK
  <2>7. IdleOK'
    BY <1>1, <2>1, <2>4 DEF LateInv, IdleOK, Done
  <2>8. ASSUME color'["primary"] = sent, age'["primary"] = 0
        PROVE  BehindOK'
    <3> SUFFICES ASSUME InFront("primary", "secondary")' PROVE BehindOK'
      BY DEF BehindOK
    <3>1. ~Done("secondary")
      BY <2>4, <2>8, Scalars DEF InFront, Done
    <3>2. queue # << >> \/ (place["secondary"] \in {"sleep", "present"} /\ update["secondary"] = sent)
      BY <2>3, <3>1 DEF LateInv, IdleOK
    <3>3. CASE place["secondary"] = "present"
      <4>1. update["secondary"] = sent /\ Due <= Until + Frame + skew
        BY <2>1, <2>2, <3>3 DEF LateInv, ShowOK
      <4>2. age'["primary"] + Due <= Frame + skew
        BY <2>3, <2>8, <4>1, Margins, Scalars, Constants
      <4> QED
        BY <1>1, <1>2, <2>8, <3>3, <4>1, <4>2 DEF BehindOK
    <3>4. CASE place["secondary"] = "sleep"
      BY <1>1, <2>1, <2>2, <2>8, <3>4, Scalars DEF BehindOK
    <3>5. CASE place["secondary"] \in {"loop", "vblank"}
      BY <1>1, <2>1, <2>2, <2>8, <3>2, <3>5, Scalars DEF BehindOK
    <3> QED
      BY <3>3, <3>4, <3>5, Somewhere
  <2>9. ASSUME color'["primary"] = color["primary"], age'["primary"] = age["primary"],
               missed'["primary"] = missed["primary"] \cup {sent}
        PROVE  BehindOK'
    BY <1>1, <1>2, <2>2, <2>4, <2>9 DEF LateInv, BehindOK, InFront
  <2>10. BehindOK'
    BY <1>5, <2>4, <2>8, <2>9 DEF Shows
  <2> QED
    BY <1>3, <2>5, <2>6, <2>7, <2>10 DEF LateInv
<1>6. CASE /\ Moved("primary", "buffer", "sleep", ahead) /\ sent' = sent + 1
           /\ queue' = queue /\ NoShow
           /\ net' = net \cup {[seq |-> sent', target |-> ahead, age |-> 0]}
  <2>1. /\ place["primary"] = "buffer" /\ place'["primary"] = "sleep" /\ left["primary"] = 0
        /\ left'["primary"] = ahead /\ color' = color /\ age' = age /\ missed' = missed
    BY <1>6 DEF Moved, NoShow
  <2>2. ~Waiting /\ ~Near /\ ~SameFrame /\ Waiting' /\ Announced' = ahead
    BY <1>1, <2>1 DEF Waiting, BeforeVblank, Near, SameFrame, Announced
  <2>3. net = {} /\ queue = << >>
    BY <2>1, <2>2 DEF LateInv, SentOK, TakenOK, ShowOK
  <2>4. place["secondary"] \in {"loop", "vblank", "present"}
    BY <2>1, <2>2, Somewhere DEF LateInv, AsleepOK
  <2>5. place["secondary"] = "present" => update["secondary"] = sent /\ Due <= skew - phase
    BY <2>2 DEF LateInv, ShowOK
  <2>6. SentOK'
    <3>1. phase <= Buffer + 2 * Latency + 0
      BY <2>1, Scalars, Constants DEF LateInv, PauseOK
    <3>2. place["secondary"] = "present" => update["secondary"] # sent'
      BY <1>6, <2>5, Scalars
    <3>3. \A m \in net' : m = [seq |-> sent', target |-> ahead, age |-> 0]
      BY <1>6, <2>3
    <3> QED
      BY <1>1, <1>6, <2>2, <2>3, <2>4, <3>1, <3>2, <3>3 DEF SentOK
  <2>7. TakenOK' /\ AsleepOK'
    BY <1>1, <1>6, <2>3, <2>4 DEF TakenOK, AsleepOK
  <2>8. ShowOK'
    <3> SUFFICES ASSUME place["secondary"] = "present" PROVE ShowOK'
      BY <1>1 DEF ShowOK
    <3>1. update["secondary"] = sent' - 1 /\ color["secondary"] < sent'
      <4>1. color["secondary"] <= sent
        BY DEF LateInv, IdleOK
      <4>2. sent' = sent + 1 /\ update["secondary"] = sent
        BY <1>6, <2>5
      <4> QED
        BY <4>1, <4>2, Scalars
    <3> QED
      BY <1>1, <1>2, <2>1, <2>2, <2>5, <3>1 DEF ShowOK
  <2>9. IdleOK'
    <3>1. net' # {}
      BY <1>6
    <3>2. color["secondary"] <= sent /\ sent' = sent + 1
      BY <1>6 DEF LateInv, IdleOK
    <3>3. color'["secondary"] <= sent'
      BY <2>1, <3>2, Scalars
    <3> QED
      BY <3>1, <3>3 DEF IdleOK
  <2>10. BehindOK'
    BY <1>1, <1>2, <2>1, <2>2 DEF LateInv, BehindOK, InFront
  <2> QED
    BY <1>3, <2>6, <2>7, <2>8, <2>9, <2>10 DEF LateInv
<1> QED
  BY <1>4, <1>5, <1>6 DEF PrimaryStep

\* Awake, the secondary presents the update before the end of the frame that follows the
\* primary's vblank.
LEMMA NextFrame ==
  ASSUME TypeOK, Prompt, NEW n, AtVblank(n), Due <= Until + Lead
  PROVE  n <= Until + Frame + skew
<1>1. n \in Int /\ 1 <= n /\ n <= Frame /\ phase + n \in {skew, Frame + skew, 2 * Frame + skew}
  BY Constants DEF AtVblank
<1>2. CASE Until = Frame - phase
  BY <1>1, <1>2, Scalars, Constants
<1>3. CASE Until = -phase
  <2>1. phase <= Lead + Latency
    BY <1>3, Margins, Scalars, Constants
  <2>2. phase < Frame + skew
    <3>1. CASE skew < 0
      BY <2>1, <3>1, Margins, Scalars, Constants
    <3>2. CASE skew >= 0
      BY <3>2, Scalars, Constants
    <3> QED
      BY <3>1, <3>2, Scalars
  <2>3. phase + n # 2 * Frame + skew
    BY <1>1, <2>2, Scalars, Constants
  <2> QED
    BY <1>1, <1>3, <2>3, Scalars, Constants
<1> QED
  BY <1>2, <1>3, Margins

LEMMA SecondaryLate ==
  ASSUME TypeOK, Running, Prompt, Separate, LateInv, SecondaryStep
  PROVE  LateInv'
<1>1. /\ phase' = phase /\ skew' = skew /\ sent' = sent /\ Lead' = Lead
      /\ place'["primary"] = place["primary"] /\ left'["primary"] = left["primary"]
      /\ lag'["primary"] = lag["primary"] /\ update'["primary"] = update["primary"]
  BY MarginsKept DEF SecondaryStep, NoTime, Kept, NoMail
<1>2. /\ (SameFrame' <=> SameFrame) /\ (Waiting' <=> Waiting) /\ (Near' <=> Near)
      /\ Until' = Until /\ Announced' = Announced
  BY <1>1 DEF SameFrame, Waiting, BeforeVblank, Near, Until, Announced
<1>3. PauseOK'
  BY <1>1 DEF LateInv, PauseOK
<1>4. CASE /\ \/ queue = << >> /\ \E n : AtVblank(n) /\ Moved("secondary", "loop", "vblank", n)
              \/ Moved("secondary", "vblank", "loop", 0)
           /\ update'["secondary"] = update["secondary"] /\ NoMail /\ NoShow
  <2>1. /\ net' = net /\ queue' = queue /\ color' = color /\ age' = age /\ missed' = missed
        /\ place["secondary"] \in {"loop", "vblank"} /\ place'["secondary"] \in {"loop", "vblank"}
    BY <1>4 DEF NoMail, NoShow, Moved
  <2>2. queue # << >> => Due' = Due
    BY <1>4 DEF Moved, Due
  <2>3. SentOK' /\ TakenOK' /\ AsleepOK' /\ ShowOK' /\ IdleOK'
    BY <1>1, <1>2, <2>1, <2>2 DEF LateInv, SentOK, TakenOK, AsleepOK, ShowOK, IdleOK, Done
  <2>4. BehindOK'
    BY <1>1, <1>2, <2>1 DEF LateInv, BehindOK, InFront
  <2> QED
    BY <1>3, <2>3, <2>4 DEF LateInv
<1>5. CASE (\E n : AtVblank(n) /\ Moved("secondary", "sleep", "present", n)) /\ NoMail /\ NoShow
           /\ update'["secondary"] = update["secondary"]
  <2>1. PICK n : AtVblank(n) /\ Moved("secondary", "sleep", "present", n)
    BY <1>5
  <2>2. /\ place["secondary"] = "sleep" /\ left["secondary"] = 0 /\ n \in Int /\ n > 0
        /\ place'["secondary"] = "present" /\ left'["secondary"] = n /\ lag'["secondary"] = 0
    BY <2>1, Constants DEF Moved, AtVblank
  <2>3. /\ net' = net /\ queue' = queue /\ net = {} /\ queue = << >>
        /\ update["secondary"] = sent /\ color' = color /\ age' = age /\ missed' = missed
    BY <1>5, <2>2 DEF NoMail, NoShow, LateInv, AsleepOK
  <2>4. Due' = n
    BY <2>2 DEF Due
  <2>5. Near /\ Due <= Until + Lead
    <3>1. CASE place["primary"] = "sleep"
      <4>1. Until = Frame - phase
        BY <3>1 DEF Until, Waiting
      <4>2. Due <= 0
        BY <2>2, Scalars DEF Due
      <4> QED
        BY <3>1, <4>1, <4>2, Margins, Scalars, Constants DEF Near
    <3>2. CASE place["primary"] # "sleep"
      BY <2>2, <3>2 DEF LateInv, AsleepOK, Near
    <3> QED
      BY <3>1, <3>2
  <2>6. n <= Until + Frame + skew
    BY <2>1, <2>5, NextFrame
  <2>7. ShowOK'
    BY <1>1, <1>2, <1>5, <2>3, <2>4, <2>5, <2>6 DEF ShowOK
  <2>8. SentOK' /\ TakenOK' /\ AsleepOK' /\ IdleOK'
    BY <1>1, <1>5, <2>2, <2>3 DEF LateInv, SentOK, TakenOK, AsleepOK, IdleOK, Done
  <2>9. BehindOK'
    <3> SUFFICES ASSUME InFront("primary", "secondary")' PROVE BehindOK'
      BY DEF BehindOK
    <3>1. SameFrame /\ color["primary"] = sent /\ age["primary"] <= phase
      BY <2>2, <2>3 DEF LateInv, BehindOK, InFront
    <3>2. Until = -phase
      BY <3>1 DEF SameFrame, Until, Waiting, BeforeVblank
    <3>3. age["primary"] + n <= Frame + skew
      BY <2>2, <2>6, <3>1, <3>2, Scalars, Constants
    <3> QED
      BY <1>1, <1>5, <2>2, <2>3, <2>4, <3>1, <3>3 DEF BehindOK
  <2> QED
    BY <1>3, <2>7, <2>8, <2>9 DEF LateInv
<1>6. CASE Moved("secondary", "present", "loop", 0) /\ Shows("secondary") /\ NoMail
  <2>1. /\ place["secondary"] = "present" /\ place'["secondary"] = "loop"
        /\ left["secondary"] = 0 /\ net' = net /\ queue' = queue /\ Due' = Due
    BY <1>6 DEF Moved, NoMail, Due
  <2>2. /\ color'["primary"] = color["primary"] /\ missed'["primary"] = missed["primary"]
        /\ age'["primary"] = age["primary"]
        /\ \/ color'["secondary"] = update["secondary"]
              /\ missed'["secondary"] = missed["secondary"]
           \/ /\ color'["secondary"] = color["secondary"]
              /\ missed'["secondary"] = missed["secondary"] \cup {update["secondary"]}
    BY <1>6 DEF Shows, Displays
  <2>3. SentOK' /\ AsleepOK' /\ ShowOK'
    BY <1>1, <1>2, <2>1 DEF LateInv, SentOK, AsleepOK, ShowOK
  <2>4. TakenOK'
    <3> SUFFICES ASSUME queue # << >> PROVE TakenOK'
      BY <2>1 DEF TakenOK
    <3>1. Waiting
      BY <2>1 DEF LateInv, TakenOK, ShowOK
    <3>2. Near /\ Until = Frame - phase
      BY <3>1 DEF Waiting, Near, BeforeVblank, Until
    <3>3. Due <= 0
      BY <2>1, Scalars DEF Due
    <3>4. Due <= Until + Lead
      <4>1. Due \in Int /\ Lead \in Nat /\ Until \in Int
        BY Margins
      <4>2. Until > 0
        BY <3>2, Scalars, Constants
      <4> QED
        BY <3>3, <4>1, <4>2
    <3> QED
      <4>1. net = {} /\ Len(queue) = 1 /\ queue[1].seq = sent /\ queue[1].target = Announced
        BY DEF LateInv, TakenOK
      <4> QED
        BY <1>1, <1>2, <2>1, <3>2, <3>4, <4>1 DEF TakenOK
  <2>5. CASE update["secondary"] = sent
    <3>1. Done("secondary")'
      BY <1>1, <2>2, <2>5 DEF Done
    <3>2. color'["secondary"] <= sent
      <4>1. color["secondary"] <= sent /\ sent <= sent
        BY Scalars DEF LateInv, IdleOK
      <4> QED
        BY <2>2, <2>5, <4>1
    <3>3. IdleOK'
      BY <1>1, <3>1, <3>2 DEF IdleOK
    <3>4. ~InFront("primary", "secondary")'
      <4>1. CASE color'["secondary"] = sent
        BY <2>2, <4>1, Scalars DEF InFront, Separate, WorkOK
      <4>2. CASE /\ color'["secondary"] = color["secondary"]
                 /\ missed'["secondary"] = missed["secondary"] \cup {update["secondary"]}
        BY <2>1, <2>2, <4>2 DEF LateInv, BehindOK, InFront
      <4> QED
        BY <2>2, <2>5, <4>1, <4>2
    <3> QED
      BY <1>3, <2>3, <2>4, <3>3, <3>4 DEF LateInv, BehindOK
  <2>6. CASE update["secondary"] # sent
    <3>1. update["secondary"] = sent - 1 /\ color["secondary"] < sent /\ Waiting
      BY <2>1, <2>6 DEF LateInv, ShowOK
    <3>2. color'["secondary"] < sent
      BY <2>2, <3>1, Scalars
    <3>3. net # {} \/ queue # << >> \/ sent \in missed'["secondary"]
      <4>1. color["secondary"] # sent
        BY <3>1, Scalars
      <4>2. net # {} \/ queue # << >> \/ sent \in missed["secondary"]
        BY <2>6, <4>1 DEF LateInv, IdleOK, Done
      <4> QED
        BY <2>2, <4>2
    <3>4. color'["secondary"] <= sent
      <4>1. color'["secondary"] \in Int
        BY <2>2, Scalars
      <4> QED
        BY <3>2, <4>1, Scalars
    <3>5. IdleOK'
      BY <1>1, <2>1, <3>3, <3>4 DEF IdleOK, Done
    <3>6. color["primary"] < sent
      BY <3>1 DEF Waiting, BeforeVblank, Separate, WorkOK
    <3>7. ~InFront("primary", "secondary")'
      <4>1. CASE color'["secondary"] = update["secondary"]
        BY <2>2, <3>1, <3>6, <4>1, Scalars DEF InFront
      <4>2. CASE /\ color'["secondary"] = color["secondary"]
                 /\ missed'["secondary"] = missed["secondary"] \cup {update["secondary"]}
        BY <2>1, <2>2, <4>2 DEF LateInv, BehindOK, InFront
      <4> QED
        BY <2>2, <4>1, <4>2
    <3> QED
      BY <1>3, <2>3, <2>4, <3>5, <3>7 DEF LateInv, BehindOK
  <2> QED
    BY <2>5, <2>6
<1>7. CASE /\ queue # << >> /\ Moved("secondary", "loop", "sleep", queue[1].target)
           /\ update'["secondary"] = queue[1].seq
           /\ sent' = sent /\ net' = net /\ queue' = Tail(queue) /\ NoShow
  <2>1. /\ place["secondary"] = "loop" /\ place'["secondary"] = "sleep"
        /\ left["secondary"] = 0 /\ left'["secondary"] = Announced
        /\ lag'["secondary"] = IF Announced = 0 THEN lag["secondary"] ELSE 0
        /\ net = {} /\ update'["secondary"] = sent /\ color' = color /\ age' = age
        /\ missed' = missed /\ Near /\ Due <= Until + Lead
    BY <1>7 DEF Moved, LateInv, TakenOK, NoShow
  <2>2. queue' = << >>
    BY <1>7, QueueTail DEF LateInv, TakenOK
  <2>3. SentOK' /\ TakenOK' /\ ShowOK' /\ IdleOK'
    BY <1>1, <1>7, <2>1, <2>2 DEF LateInv, SentOK, TakenOK, ShowOK, IdleOK
  <2>4. AsleepOK'
    <3>1. CASE place["primary"] = "sleep"
      BY <1>1, <1>7, <2>1, <2>2, <3>1 DEF AsleepOK, Announced
    <3>2. CASE place["primary"] # "sleep"
      <4>1. left'["secondary"] = 0 /\ lag'["secondary"] = lag["secondary"]
        BY <2>1, <3>2 DEF Announced
      <4>2. Due' = Due
        BY <2>1, <4>1 DEF Due
      <4>3. place["primary"] = "present" \/ SameFrame
        BY <2>1, <3>2 DEF Near
      <4> QED
        BY <1>1, <1>2, <1>7, <2>1, <2>2, <4>1, <4>2, <4>3 DEF AsleepOK
    <3> QED
      BY <3>1, <3>2
  <2>5. BehindOK'
    BY <1>1, <1>2, <1>7, <2>1 DEF LateInv, BehindOK, InFront
  <2> QED
    BY <1>3, <2>3, <2>4, <2>5 DEF LateInv
<1> QED
  BY <1>4, <1>5, <1>6, <1>7 DEF SecondaryStep

LEMMA NetworkLate ==
  ASSUME TypeOK, Running, Prompt, Separate, LateInv, NetworkStep
  PROVE  LateInv'
<1>1. /\ phase' = phase /\ skew' = skew /\ sent' = sent /\ Lead' = Lead
      /\ color' = color /\ age' = age /\ missed'["primary"] = missed["primary"]
      /\ place'["primary"] = place["primary"] /\ left'["primary"] = left["primary"]
      /\ lag'["primary"] = lag["primary"] /\ update'["primary"] = update["primary"]
      /\ place'["secondary"] = place["secondary"] /\ left'["secondary"] = left["secondary"]
      /\ lag'["secondary"] = lag["secondary"] /\ update'["secondary"] = update["secondary"]
  BY MarginsKept DEF NetworkStep, NoTime, Kept
<1>2. /\ (SameFrame' <=> SameFrame) /\ (Waiting' <=> Waiting) /\ (Near' <=> Near)
      /\ Until' = Until /\ Announced' = Announced /\ Due' = Due
  BY <1>1 DEF SameFrame, Waiting, BeforeVblank, Near, Until, Announced, Due
<1>3. PICK m \in net :
        /\ net' = net \ {m}
        /\ \/ /\ queue' = Append(queue, [seq |-> m.seq, target |-> m.target])
              /\ missed' = missed
           \/ /\ queue' = queue
              /\ missed'["secondary"] = missed["secondary"] \cup {m.seq}
  BY DEF NetworkStep
<1>4. /\ net' = {} /\ queue = << >> /\ Waiting /\ m.seq = sent /\ m.target = Announced
      /\ phase <= Buffer + 2 * Latency + m.age
      /\ \/ place["secondary"] \in {"loop", "vblank"}
         \/ place["secondary"] = "present" /\ update["secondary"] # sent
  BY <1>3 DEF LateInv, SentOK
<1>5. PauseOK' /\ SentOK' /\ AsleepOK'
  BY <1>1, <1>4 DEF LateInv, PauseOK, SentOK, AsleepOK
<1>6. ShowOK'
  BY <1>1, <1>2, <1>4 DEF LateInv, ShowOK
<1>7. BehindOK'
  <2>1. ~SameFrame
    BY <1>4 DEF Waiting, BeforeVblank, SameFrame
  <2>2. missed["secondary"] \subseteq missed'["secondary"]
    BY <1>3
  <2> QED
    BY <1>1, <1>2, <2>1, <2>2 DEF LateInv, BehindOK, InFront
<1>8. CASE queue' = Append(<< >>, [seq |-> m.seq, target |-> m.target])
  <2>1. queue' # << >> /\ Len(queue') = 1 /\ queue'[1] = [seq |-> m.seq, target |-> m.target]
    BY <1>8, QueueAppend
  <2>2. IdleOK'
    BY <1>1, <2>1 DEF LateInv, IdleOK
  <2>3. Near
    BY <1>4 DEF Near, Waiting, BeforeVblank
  <2>4. ASSUME place["secondary"] \in {"loop", "vblank"} PROVE Due <= Until + Lead
    <3>1. Until = Frame - phase
      BY <1>4 DEF Until
    <3>2. phase < Frame + skew
      <4>1. m.age \in Int /\ m.age <= MaxDelay
        BY <1>3, Constants DEF TypeOK
      <4>2. phase <= Buffer + 2 * Latency + MaxDelay
        <5>1. phase <= Buffer + 2 * Latency + m.age
          BY <1>4
        <5> QED
          BY <4>1, <5>1, Scalars, Constants
      <4>3. Buffer + 2 * Latency + MaxDelay < Frame + skew
        BY Margins, Scalars, Constants
      <4> QED
        BY <4>2, <4>3, Scalars, Constants
    <3>3. left["secondary"] = 0 \/ AtVblank(left["secondary"])
      <4>1. place["secondary"] = "loop" => left["secondary"] = 0
        BY DEF Separate, ClockOK
      <4>2. place["secondary"] = "vblank" /\ left["secondary"] > 0 => AtVblank(left["secondary"])
        BY DEF Separate, ClockOK
      <4> QED
        BY <2>4, <4>1, <4>2, Scalars
    <3>4. Due <= left["secondary"]
      BY Scalars DEF Due
    <3>5. CASE left["secondary"] = 0
      BY <3>1, <3>4, <3>5, Margins, Scalars, Constants
    <3>6. CASE AtVblank(left["secondary"])
      <4>1. /\ left["secondary"] <= Frame
            /\ phase + left["secondary"] \in {skew, Frame + skew, 2 * Frame + skew}
        BY <3>6, Constants DEF AtVblank
      <4>2. phase + left["secondary"] # 2 * Frame + skew
        BY <3>2, <4>1, Scalars, Constants
      <4>3. phase + left["secondary"] <= Frame + skew
        BY <4>1, <4>2, Scalars, Constants
      <4> QED
        BY <3>1, <3>4, <4>3, Margins, Scalars, Constants
    <3> QED
      BY <3>3, <3>5, <3>6
  <2>5. TakenOK'
    BY <1>1, <1>2, <1>4, <2>1, <2>3, <2>4 DEF TakenOK
  <2> QED
    BY <1>5, <1>6, <1>7, <2>2, <2>5 DEF LateInv
<1>9. CASE queue' = queue /\ missed'["secondary"] = missed["secondary"] \cup {m.seq}
  <2>1. TakenOK'
    BY <1>4, <1>9 DEF TakenOK
  <2>2. IdleOK'
    BY <1>1, <1>4, <1>9 DEF LateInv, IdleOK, Done
  <2> QED
    BY <1>5, <1>6, <1>7, <2>1, <2>2 DEF LateInv
<1> QED
  BY <1>3, <1>4, <1>8, <1>9

LEMMA TimeLate ==
  ASSUME TypeOK, TypeOK', Running, Prompt, Separate, LateInv, TimeStep
  PROVE  LateInv'
<1>1. /\ skew' = skew /\ sent' = sent /\ color' = color /\ missed' = missed /\ Lead' = Lead
      /\ (net' = {} <=> net = {}) /\ (queue' = << >> <=> queue = << >>)
      /\ place'["primary"] = place["primary"] /\ place'["secondary"] = place["secondary"]
      /\ update'["primary"] = update["primary"] /\ update'["secondary"] = update["secondary"]
      /\ phase' = IF phase + 1 = Frame THEN 0 ELSE phase + 1
  BY MarginsKept DEF TimeStep, Waited
<1>2. Due \in Int /\ Due > -Latency /\ Due' = Due - 1
  BY Closer
<1>3. Announced' = LessOne(Announced) /\ Announced \in Nat
  <2>1. CASE place["primary"] = "sleep"
    <3>1. Announced = left["primary"] /\ Announced' = left'["primary"]
      BY <1>1, <2>1 DEF Announced
    <3>2. left'["primary"] = LessOne(left["primary"])
      <4>1. CASE left["primary"] = 0
        BY <4>1, Closer DEF LessOne
      <4>2. CASE left["primary"] > 0
        BY <4>2, Closer, Scalars DEF LessOne
      <4> QED
        BY <4>1, <4>2, Scalars
    <3> QED
      BY <3>1, <3>2, Scalars
  <2>2. CASE place["primary"] # "sleep"
    BY <1>1, <2>2 DEF Announced, LessOne
  <2> QED
    BY <2>1, <2>2
<1>4. ASSUME phase + 1 # Frame
      PROVE  /\ phase' = phase + 1 /\ (SameFrame => SameFrame') /\ (Waiting' <=> Waiting)
             /\ (Near => Near') /\ Until' = Until - 1
  <2>1. phase' = phase + 1
    BY <1>1, <1>4
  <2>2. (SameFrame => SameFrame') /\ (BeforeVblank' <=> BeforeVblank)
    <3>1. ASSUME place["primary"] \in {"vblank", "present"}
          PROVE  left'["primary"] > 0 <=> left["primary"] > 0
      <4>1. CASE left["primary"] > 0
        <5>1. phase + left["primary"] = Frame
          BY <3>1, <4>1 DEF Separate, ClockOK
        <5> QED
          BY <1>4, <4>1, <5>1, Closer, Scalars, Constants
      <4>2. CASE left["primary"] = 0
        BY <4>2, Closer
      <4> QED
        BY <4>1, <4>2, Scalars
    <3> QED
      BY <1>1, <3>1 DEF SameFrame, BeforeVblank
  <2>3. (Waiting' <=> Waiting) /\ (Near => Near')
    BY <1>1, <2>2 DEF Waiting, Near
  <2>4. Until' = Until - 1
    BY <2>1, <2>3, Scalars, Constants DEF Until
  <2> QED
    BY <2>1, <2>2, <2>3, <2>4
<1>5. Until' >= Until - 1 \/ (SameFrame /\ phase + 1 = Frame)
  <2> SUFFICES ASSUME phase + 1 = Frame, ~SameFrame PROVE Until' >= Until - 1
    BY <1>4, Margins
  <2>1. phase' = 0
    BY <1>1
  <2>2. Until' >= 0
    BY <2>1, Constants DEF Until
  <2>3. CASE Waiting
    <3>1. Until = 1
      BY <2>3, Scalars, Constants DEF Until
    <3> QED
      BY <2>1, <2>2, <3>1, Constants DEF Until
  <2>4. CASE ~Waiting
    <3>1. Until = -phase
      BY <2>4 DEF Until
    <3> QED
      BY <2>1, <2>2, <3>1, Scalars, Constants DEF Until
  <2> QED
    BY <2>3, <2>4
<1>6. PauseOK'
  <2> SUFFICES ASSUME place["primary"] = "buffer" PROVE PauseOK'
    BY <1>1 DEF PauseOK
  <2>1. /\ phase + left["primary"] - lag["primary"] >= Buffer
        /\ phase + left["primary"] - lag["primary"] <= Buffer + Latency
    BY DEF LateInv, PauseOK
  <2>2. left["primary"] > 0 => lag["primary"] = 0
    BY DEF Separate, ClockOK
  <2>3. left["primary"] = 0 => lag["primary"] < Latency
    BY Closer, Scalars, Constants
  <2>4. phase + 1 # Frame
    <3>1. Buffer + 2 * Latency < Frame
      BY Margins, Constants
    <3> QED
      BY <2>1, <2>2, <2>3, <3>1, Scalars, Constants
  <2>5. phase' = phase + 1
    BY <1>4, <2>4
  <2>6. left'["primary"] \in Int /\ lag'["primary"] \in Int
    BY Closer, Scalars
  <2>7. phase' + left'["primary"] - lag'["primary"] = phase + left["primary"] - lag["primary"]
    BY <2>5, <2>6, Closer, Scalars
  <2> QED
    BY <2>1, <2>7 DEF PauseOK
<1>7. SentOK'
  <2> SUFFICES ASSUME net # {} PROVE SentOK'
    BY <1>1 DEF SentOK
  <2>1. PICK m \in net : TRUE
    OBVIOUS
  <2>2. /\ m.seq = sent /\ m.target = Announced /\ phase <= Buffer + 2 * Latency + m.age
        /\ Waiting /\ queue = << >> /\ \A n \in net : n = m
        /\ \/ place["secondary"] \in {"loop", "vblank"}
           \/ place["secondary"] = "present" /\ update["secondary"] # sent
    BY <2>1 DEF LateInv, SentOK
  <2>3. m.age \in Int
    BY Constants DEF TypeOK
  <2>4. ASSUME NEW n \in net'
        PROVE  n.seq = sent /\ n.target = Announced' /\ n.age = m.age + 1 /\ n \in Messages
    <3>1. n.seq = m.seq /\ n.target = LessOne(m.target) /\ n.age = m.age + 1
      BY <2>2 DEF TimeStep
    <3>2. n \in Messages
      BY DEF TypeOK, Messages
    <3> QED
      BY <1>3, <2>2, <3>1, <3>2
  <2>5. \A n, n2 \in net' : n = n2
    <3> SUFFICES ASSUME NEW n \in net', NEW n2 \in net' PROVE n = n2
      OBVIOUS
    <3>1. n.seq = n2.seq /\ n.target = n2.target /\ n.age = n2.age
      BY <2>4
    <3> QED
      BY <2>4, <3>1 DEF Messages
  <2>6. m.age + 1 <= MaxDelay
    <3>1. PICK n \in net' : TRUE
      BY <1>1, <2>1
    <3>2. n.age = m.age + 1 /\ n \in Messages
      BY <2>4
    <3>3. n.age <= MaxDelay
      BY <3>2, Constants DEF Messages
    <3> QED
      BY <3>2, <3>3
  <2>7. phase + 1 # Frame
    <3>1. Buffer + 2 * Latency + MaxDelay < Frame
      BY Margins, Constants
    <3>2. phase <= Buffer + 2 * Latency + m.age
      BY <2>2
    <3> QED
      BY <2>3, <2>6, <3>1, <3>2, Scalars, Constants
  <2>8. phase' <= Buffer + 2 * Latency + (m.age + 1)
    <3>1. phase <= Buffer + 2 * Latency + m.age /\ phase' = phase + 1
      BY <1>4, <2>2, <2>7
    <3> QED
      BY <2>3, <3>1, Scalars, Constants
  <2>9. Waiting'
    BY <1>4, <2>2, <2>7
  <2> QED
    BY <1>1, <2>2, <2>4, <2>5, <2>8, <2>9 DEF SentOK
\* As long as the secondary is not late, the primary does not get to its next vblank.
<1>8. ASSUME SameFrame, Due <= Until + Lead
      PROVE  phase + 1 # Frame
  <2>1. Until = -phase
    BY <1>8 DEF SameFrame, Until, Waiting, BeforeVblank
  <2>2. Lead + Latency < Frame /\ Lead \in Int
    BY Margins, Constants
  <2>3. phase < Lead + Latency
    BY <1>2, <1>8, <2>1, <2>2, Scalars, Constants
  <2> QED
    BY <2>2, <2>3, Scalars, Constants
<1>9. ASSUME Near, Due <= Until + Lead
      PROVE  Near' /\ Due' <= Until' + Lead
  <2>1. Until' >= Until - 1
    BY <1>5, <1>8, <1>9
  <2>2. Near'
    <3>1. CASE SameFrame
      BY <1>4, <1>8, <1>9, <3>1
    <3>2. CASE ~SameFrame
      BY <1>1, <1>9, <3>2 DEF Near
    <3> QED
      BY <3>1, <3>2
  <2>3. Until \in Int /\ Until' \in Int /\ Lead \in Int
    <3>1. Until \in Int /\ Lead \in Int
      BY Margins
    <3>2. phase' \in Int
      BY <1>1, Scalars
    <3> QED
      BY <3>1, <3>2, Constants DEF Until
  <2>4. Due' <= Until' + Lead
    <3>1. Due <= Until + Lead
      BY <1>9
    <3>2. Due \in Int /\ Due' = Due - 1
      BY <1>2
    <3>3. \A a, b, c, d \in Int : b >= c - 1 /\ a <= c + d => a - 1 <= b + d
      OBVIOUS
    <3> QED
      BY <2>1, <2>3, <3>1, <3>2, <3>3
  <2> QED
    BY <2>2, <2>4
<1>10. TakenOK'
  <2> SUFFICES ASSUME queue # << >> PROVE TakenOK'
    BY <1>1 DEF TakenOK
  <2>1. /\ net = {} /\ Len(queue) = 1 /\ queue[1].seq = sent /\ queue[1].target = Announced
        /\ \/ place["secondary"] \in {"loop", "vblank"} /\ Near /\ Due <= Until + Lead
           \/ place["secondary"] = "present" /\ update["secondary"] # sent
    BY DEF LateInv, TakenOK
  <2>2. /\ net' = {} /\ Len(queue') = 1 /\ queue'[1].seq = sent
        /\ queue'[1].target = Announced'
    BY <1>1, <1>3, <2>1 DEF TimeStep
  <2> QED
    BY <1>1, <1>9, <2>1, <2>2 DEF TakenOK
<1>11. AsleepOK'
  <2> SUFFICES ASSUME place["secondary"] = "sleep" PROVE AsleepOK'
    BY <1>1 DEF AsleepOK
  <2>1. update["secondary"] = sent /\ net = {} /\ queue = << >>
    BY DEF LateInv, AsleepOK
  <2>2. CASE place["primary"] = "sleep" /\ left["secondary"] = left["primary"]
    <3>1. left'["secondary"] = left'["primary"]
      BY <2>2, Closer, Scalars
    <3> QED
      BY <1>1, <2>1, <2>2, <3>1 DEF AsleepOK
  <2>3. CASE /\ place["primary"] = "present" \/ SameFrame
             /\ left["secondary"] = 0 /\ Due <= Until + Lead
    <3>1. Near
      BY <2>3 DEF Near
    <3>2. Due' <= Until' + Lead
      BY <1>9, <2>3, <3>1
    <3>3. left'["secondary"] = 0
      BY <2>3, Closer
    <3>4. place'["primary"] = "present" \/ SameFrame'
      BY <1>1, <1>4, <1>8, <2>3
    <3> QED
      BY <1>1, <2>1, <3>2, <3>3, <3>4 DEF AsleepOK
  <2> QED
    BY <2>2, <2>3 DEF LateInv, AsleepOK
\* Late for the vblank before, the secondary does not get to that of the next frame.
<1>12. ASSUME Due <= skew - phase
       PROVE  phase + 1 # Frame /\ Due' <= skew - (phase + 1)
  <2>1. skew + Latency < Frame
    BY Margins, Scalars, Constants
  <2> QED
    BY <1>2, <1>12, <2>1, Scalars, Constants
<1>13. ShowOK'
  <2> SUFFICES ASSUME place["secondary"] = "present" PROVE ShowOK'
    BY <1>1 DEF ShowOK
  <2>1. CASE /\ update["secondary"] = sent - 1 /\ color["secondary"] < sent
             /\ Waiting /\ Due <= skew - phase
    <3>1. Waiting' /\ Due' <= skew - phase'
      BY <1>4, <1>12, <2>1
    <3> QED
      BY <1>1, <2>1, <3>1 DEF ShowOK
  <2>2. CASE /\ update["secondary"] = sent /\ net = {} /\ queue = << >>
             /\ place["primary"] \in {"loop", "vblank", "buffer"} /\ Due <= skew - phase
    <3>1. Due' <= skew - phase'
      BY <1>4, <1>12, <2>2
    <3> QED
      BY <1>1, <2>2, <3>1 DEF ShowOK
  <2>3. CASE /\ update["secondary"] = sent /\ net = {} /\ queue = << >>
             /\ Near /\ Due <= Until + Frame + skew
    <3>1. CASE SameFrame /\ phase + 1 = Frame
      <4>1. Until = -phase /\ phase' = 0
        BY <1>1, <3>1 DEF SameFrame, Until, Waiting, BeforeVblank
      <4>2. Due' <= skew - phase'
        BY <1>2, <2>3, <3>1, <4>1, Scalars, Constants
      <4>3. place["primary"] \in {"loop", "vblank", "buffer"}
        BY <3>1 DEF SameFrame
      <4> QED
        BY <1>1, <2>3, <4>2, <4>3 DEF ShowOK
    <3>2. CASE ~(SameFrame /\ phase + 1 = Frame)
      <4>1. Until' >= Until - 1
        BY <1>5, <3>2
      <4>2. Near'
        BY <1>1, <1>4, <2>3, <3>2 DEF Near
      <4>3. Until \in Int /\ Until' \in Int
        <5>1. phase' \in Int
          BY <1>1, Scalars
        <5> QED
          BY <5>1, Margins, Constants DEF Until
      <4>4. Due' <= Until' + Frame + skew
        <5>1. Due <= Until + Frame + skew
          BY <2>3
        <5> QED
          BY <1>2, <4>1, <4>3, <5>1, Scalars, Constants
      <4> QED
        BY <1>1, <2>3, <4>2, <4>4 DEF ShowOK
    <3> QED
      BY <3>1, <3>2
  <2> QED
    BY <2>1, <2>2, <2>3 DEF LateInv, ShowOK
<1>14. IdleOK'
  BY <1>1 DEF LateInv, IdleOK, Done
<1>15. BehindOK'
  <2> SUFFICES ASSUME InFront("primary", "secondary") PROVE BehindOK'
    BY <1>1 DEF BehindOK, InFront
  <2>1. age'["primary"] \in Nat /\ age'["primary"] <= age["primary"] + 1
    BY DEF TimeStep, Displays
  <2>2. CASE place["secondary"] = "present" /\ update["secondary"] = color["primary"]
               /\ age["primary"] + Due <= Frame + skew
    <3>1. age'["primary"] + Due' <= Frame + skew
      BY <1>2, <2>1, <2>2, Scalars, Constants
    <3> QED
      BY <1>1, <2>2, <3>1 DEF BehindOK
  <2>3. CASE /\ SameFrame /\ color["primary"] = sent /\ age["primary"] <= phase
             /\ \/ queue # << >> /\ place["secondary"] \in {"loop", "vblank"}
                \/ place["secondary"] = "sleep"
    <3>1. Due <= Until + Lead
      <4>1. CASE place["secondary"] = "sleep"
        BY <2>3, <4>1 DEF LateInv, AsleepOK, SameFrame
      <4>2. CASE queue # << >> /\ place["secondary"] \in {"loop", "vblank"}
        BY <4>2 DEF LateInv, TakenOK
      <4> QED
        BY <2>3, <4>1, <4>2
    <3>2. SameFrame' /\ phase' = phase + 1
      BY <1>4, <1>8, <2>3, <3>1
    <3>3. age'["primary"] <= phase'
      <4>1. age["primary"] <= phase
        BY <2>3
      <4> QED
        BY <2>1, <3>2, <4>1, Scalars
    <3> QED
      BY <1>1, <2>3, <3>2, <3>3 DEF BehindOK
  <2> QED
    BY <2>2, <2>3 DEF LateInv, BehindOK
<1> QED
  BY <1>6, <1>7, <1>10, <1>11, <1>13, <1>14, <1>15 DEF LateInv

\* While both processes run, and threads and network are prompt.
WhenPrompt == Running /\ Prompt => Separate /\ LateInv

LEMMA WhenPromptHolds == Spec => []WhenPrompt
<1>1. Init => WhenPrompt
  BY InitSeparate, InitLate DEF WhenPrompt
<1>2. ASSUME TypeOK, TypeOK', WhenPrompt, [Next]_vars PROVE WhenPrompt'
  <2>1. CASE UNCHANGED vars
    BY <1>2, <2>1 DEF vars, main, history, WhenPrompt, Running, Prompt, Distance, Separate,
       ClockOK, WorkOK, Done, AtVblank, LateInv, PauseOK, SentOK, TakenOK, AsleepOK, ShowOK,
       IdleOK, BehindOK, InFront, SameFrame, BeforeVblank, Waiting, Near, Until, Lead, Announced,
       Due
  <2>2. CASE Next
    <3> SUFFICES ASSUME Running', Prompt' PROVE Separate' /\ LateInv'
      BY DEF WhenPrompt
    <3>1. Running /\ (PrimaryStep \/ SecondaryStep \/ NetworkStep \/ TimeStep)
      BY <1>2, <2>2, Steps
    <3>2. skew' = skew
      BY <3>1 DEF PrimaryStep, SecondaryStep, NetworkStep, TimeStep, NoTime
    <3>3. Prompt
      BY <3>2, MarginsKept
    <3>4. Separate /\ LateInv
      BY <1>2, <3>1, <3>3 DEF WhenPrompt
    <3>5. Latency < Frame
      BY <1>2, <3>3, Margins, Constants
    <3>6. Separate'
      BY <1>2, <2>2, <3>4, <3>5, StepSeparate
    <3> QED
      BY <1>2, <3>1, <3>3, <3>4, <3>6, PrimaryLate, SecondaryLate, NetworkLate, TimeLate
  <2> QED
    BY <1>2, <2>1, <2>2
<1> QED
  BY <1>1, <1>2, TypesHold, PTL DEF Spec, TypeInv

\* However short the time ahead, the secondary shows what it has received a frame after the
\* primary at the latest, and is never late by more (secondary.cpp:226-262: a late update is
\* presented at the next vblank, no other one is waited for) -- provided that the pause, the
\* threads and the network do not take up a frame.
THEOREM NeverFar == Spec => [](Prompt => NeverFarBehind)
<1>1. ASSUME TypeOK, WhenPrompt, Prompt PROVE NeverFarBehind
  <2> SUFFICES ASSUME Running, InFront("primary", "secondary")
               PROVE  ~(age["primary"] > Frame + Distance + Latency)
    BY DEF NeverFarBehind, Alone, InFront
  <2>1. Separate /\ LateInv
    BY <1>1 DEF WhenPrompt
  <2>2. Distance \in Nat /\ skew <= Distance /\ Due \in Int /\ Due >= -Latency
    BY <1>1, Margins
  <2>3. CASE age["primary"] <= phase
    BY <1>1, <2>2, <2>3, Scalars, Constants
  <2>4. CASE age["primary"] + Due <= Frame + skew
    BY <1>1, <2>2, <2>4, Scalars, Constants
  <2> QED
    BY <2>1, <2>3, <2>4 DEF LateInv, BehindOK
<1> QED
  BY <1>1, TypesHold, WhenPromptHolds, PTL DEF TypeInv
=============================================================================
