---------------------------- MODULE Cx0Bus_proofs ----------------------------
(***************************************************************************)
(* Proofs about Cx0Bus, for any devices, dividers and bytes: whose answer  *)
(* a byte is, that three tries suffice, and that the PLL is restored, also *)
(* when the thread and a handler restore a C10 at the same time.           *)
(*                                                                         *)
(* TransactionInv follows one transaction on the bus, ProgressInv the      *)
(* accesses of an operation one after the other; where two contexts are at *)
(* it, CalmInv takes their place.                                          *)
(***************************************************************************)
EXTENDS Cx0Bus, TLAPS

-----------------------------------------------------------------------------
(* The accesses, one by one.                                               *)

\* w is s followed by t.
Joined(w, s, t) ==
  /\ Len(w) = Len(s) + Len(t)
  /\ \A j \in 1 .. Len(s) : w[j] = s[j]
  /\ \A j \in 1 .. Len(t) : w[Len(s) + j] = t[j]

LEMMA Join ==
  ASSUME NEW S, NEW s \in Seq(S), NEW t \in Seq(S)
  PROVE  s \o t \in Seq(S) /\ Joined(s \o t, s, t)
BY DEF Joined

AreNine(s, a, b, c, d, e, f, g, h, k) ==
  /\ Len(s) = 9
  /\ s[1] = a /\ s[2] = b /\ s[3] = c /\ s[4] = d /\ s[5] = e
  /\ s[6] = f /\ s[7] = g /\ s[8] = h /\ s[9] = k

\* Two accesses, two, two and three.
LEMMA NineInARow ==
  ASSUME NEW a, NEW b, NEW c, NEW d, NEW e, NEW f, NEW g, NEW h, NEW k
  PROVE  AreNine(<<a, b>> \o <<c, d>> \o <<e, f>> \o <<g, h, k>>,
                 a, b, c, d, e, f, g, h, k)
<1>1. PICK S : S = {a, b, c, d, e, f, g, h, k}
  OBVIOUS
<1>2. /\ <<a, b>> \in Seq(S) /\ <<c, d>> \in Seq(S) /\ <<e, f>> \in Seq(S)
      /\ <<g, h, k>> \in Seq(S)
  BY <1>1
<1>3. PICK s1 \in Seq(S), s2 \in Seq(S), s3 \in Seq(S), s4 \in Seq(S) :
        s1 = <<a, b>> /\ s2 = <<c, d>> /\ s3 = <<e, f>> /\ s4 = <<g, h, k>>
  BY <1>2, Zenon
<1>4. /\ Len(s1) = 2 /\ s1[1] = a /\ s1[2] = b
      /\ Len(s2) = 2 /\ s2[1] = c /\ s2[2] = d
  BY <1>3
<1>5. /\ Len(s3) = 2 /\ s3[1] = e /\ s3[2] = f
      /\ Len(s4) = 3 /\ s4[1] = g /\ s4[2] = h /\ s4[3] = k
  BY <1>3
<1>6. PICK t \in Seq(S) : t = s1 \o s2 /\ Joined(t, s1, s2)
  BY Join, Zenon
<1>7. /\ Len(t) = 4 /\ t[1] = a /\ t[2] = b
      /\ t[2 + 1] = c /\ t[2 + 2] = d
  BY <1>4, <1>6 DEF Joined
<1>8. PICK u \in Seq(S) : u = t \o s3 /\ Joined(u, t, s3)
  BY Join, Zenon
<1>9. /\ Len(u) = 6 /\ u[1] = a /\ u[2] = b /\ u[3] = c /\ u[4] = d
      /\ u[4 + 1] = e /\ u[4 + 2] = f
  BY <1>5, <1>7, <1>8 DEF Joined
<1>10. PICK v \in Seq(S) : v = u \o s4 /\ Joined(v, u, s4)
  BY Join, Zenon
<1>11. /\ v[1] = a /\ v[2] = b /\ v[3] = c /\ v[4] = d /\ v[5] = e /\ v[6] = f
  BY <1>9, <1>10 DEF Joined
<1>13. Len(v) = 9 /\ v[6 + 1] = g /\ v[6 + 2] = h /\ v[6 + 3] = k
  BY <1>5, <1>9, <1>10 DEF Joined
<1>12. v = <<a, b>> \o <<c, d>> \o <<e, f>> \o <<g, h, k>>
  <2>1. v = ((s1 \o s2) \o s3) \o s4
    BY <1>6, <1>8, <1>10, Zenon
  <2> QED
    BY <1>3, <2>1
<1>14. AreNine(v, a, b, c, d, e, f, g, h, k)
  BY <1>11, <1>13 DEF AreNine
<1> QED
  BY <1>12, <1>14, Zenon

LEMMA C10Table ==
  ASSUME NEW d
  PROVE  /\ Len(C10Program(d)) = 9
         /\ C10Program(d)[1] = Access(0, "modify", "CONTROL", {}, {"access"}, TRUE)
         /\ C10Program(d)[2] = Access(1, "modify", "CONTROL", {}, {"access"}, TRUE)
         /\ C10Program(d)[3] = Access(0, "modify", "CUSTOM_WIDTH", {"width"}, {}, TRUE)
         /\ C10Program(d)[4] = Access(1, "modify", "CUSTOM_WIDTH", {"width"}, {}, TRUE)
         /\ C10Program(d)[5] = Access(0, "modify", "CONTROL", {}, {"update"}, TRUE)
         /\ C10Program(d)[6] = Access(1, "modify", "CONTROL", {}, {"update"}, TRUE)
         /\ C10Program(d)[7] = Write("QUOT_LOW", d.quot.lo)
         /\ C10Program(d)[8] = Write("QUOT_HIGH", d.quot.hi)
         /\ C10Program(d)[9] = Access(0, "modify", "CONTROL", {}, {"master", "update"}, TRUE)
<1>1. C10Program(d) =
        << Access(0, "modify", "CONTROL", {}, {"access"}, TRUE),
           Access(1, "modify", "CONTROL", {}, {"access"}, TRUE) >>
        \o << Access(0, "modify", "CUSTOM_WIDTH", {"width"}, {}, TRUE),
              Access(1, "modify", "CUSTOM_WIDTH", {"width"}, {}, TRUE) >>
        \o << Access(0, "modify", "CONTROL", {}, {"update"}, TRUE),
              Access(1, "modify", "CONTROL", {}, {"update"}, TRUE) >>
        \o << Write("QUOT_LOW", d.quot.lo), Write("QUOT_HIGH", d.quot.hi),
              Access(0, "modify", "CONTROL", {}, {"master", "update"}, TRUE) >>
  BY Zenon DEF C10Program, OnBothLanes
<1>2. AreNine(C10Program(d),
        Access(0, "modify", "CONTROL", {}, {"access"}, TRUE),
        Access(1, "modify", "CONTROL", {}, {"access"}, TRUE),
        Access(0, "modify", "CUSTOM_WIDTH", {"width"}, {}, TRUE),
        Access(1, "modify", "CUSTOM_WIDTH", {"width"}, {}, TRUE),
        Access(0, "modify", "CONTROL", {}, {"update"}, TRUE),
        Access(1, "modify", "CONTROL", {}, {"update"}, TRUE),
        Write("QUOT_LOW", d.quot.lo), Write("QUOT_HIGH", d.quot.hi),
        Access(0, "modify", "CONTROL", {}, {"master", "update"}, TRUE))
  BY <1>1, NineInARow, Zenon
<1> QED
  BY <1>2, Zenon DEF AreNine

AreEight(s, a, b, c, d, e, f, g, h) ==
  /\ Len(s) = 8
  /\ s[1] = a /\ s[2] = b /\ s[3] = c /\ s[4] = d
  /\ s[5] = e /\ s[6] = f /\ s[7] = g /\ s[8] = h

\* Twice four.
LEMMA EightInARow ==
  ASSUME NEW a, NEW b, NEW c, NEW d, NEW e, NEW f, NEW g, NEW h
  PROVE  AreEight(<<a, b, c, d>> \o <<e, f, g, h>>, a, b, c, d, e, f, g, h)
<1>1. PICK S : S = {a, b, c, d, e, f, g, h}
  OBVIOUS
<1>2. <<a, b, c, d>> \in Seq(S) /\ <<e, f, g, h>> \in Seq(S)
  BY <1>1
<1>3. PICK s \in Seq(S), t \in Seq(S) : s = <<a, b, c, d>> /\ t = <<e, f, g, h>>
  BY <1>2, Zenon
<1>4. /\ Len(s) = 4 /\ s[1] = a /\ s[2] = b /\ s[3] = c /\ s[4] = d
      /\ Len(t) = 4 /\ t[1] = e /\ t[2] = f /\ t[3] = g /\ t[4] = h
  BY <1>3
<1>5. PICK u \in Seq(S) : u = s \o t /\ Joined(u, s, t)
  BY Join, Zenon
<1>6. u[1] = a /\ u[2] = b /\ u[3] = c /\ u[4] = d
  BY <1>4, <1>5 DEF Joined
<1>7. Len(u) = 8 /\ u[4 + 1] = e /\ u[4 + 2] = f /\ u[4 + 3] = g /\ u[4 + 4] = h
  BY <1>4, <1>5 DEF Joined
<1>8. AreEight(u, a, b, c, d, e, f, g, h)
  BY <1>6, <1>7 DEF AreEight
<1> QED
  BY <1>3, <1>5, <1>8, Zenon

LEMMA C20ReadTable ==
  AreEight(C20Read,
    Prepare("RD_ADDRESS_H", {"page"}), Write("RD_ADDRESS_L", {"quot"}),
    Fetch("RD_DATA_H", "quot", "hi"), Fetch("RD_DATA_L", "quot", "lo"),
    Prepare("RD_ADDRESS_H", {"page"}), Write("RD_ADDRESS_L", {"rem"}),
    Fetch("RD_DATA_H", "rem", "hi"), Fetch("RD_DATA_L", "rem", "lo"))
BY EightInARow, Zenon DEF C20Read, SramRead

AreTwelve(s, a, b, c, d, e, f, g, h, k, l, m, n) ==
  /\ Len(s) = 12
  /\ s[1] = a /\ s[2] = b /\ s[3] = c /\ s[4] = d
  /\ s[5] = e /\ s[6] = f /\ s[7] = g /\ s[8] = h
  /\ s[9] = k /\ s[10] = l /\ s[11] = m /\ s[12] = n

\* Three times four.
LEMMA TwelveInARow ==
  ASSUME NEW a, NEW b, NEW c, NEW d, NEW e, NEW f, NEW g, NEW h,
         NEW k, NEW l, NEW m, NEW n
  PROVE  AreTwelve(<<a, b, c, d>> \o <<e, f, g, h>> \o <<k, l, m, n>>,
                   a, b, c, d, e, f, g, h, k, l, m, n)
<1>1. PICK S : S = {a, b, c, d, e, f, g, h, k, l, m, n}
  OBVIOUS
<1>2. /\ <<a, b, c, d>> \in Seq(S) /\ <<e, f, g, h>> \in Seq(S)
      /\ <<k, l, m, n>> \in Seq(S)
  BY <1>1
<1>3. PICK s \in Seq(S), t \in Seq(S) :
        s = <<a, b, c, d>> \o <<e, f, g, h>> /\ t = <<k, l, m, n>>
  <2>1. <<a, b, c, d>> \o <<e, f, g, h>> \in Seq(S)
    BY <1>2, Join, Zenon
  <2> QED
    BY <1>2, <2>1, Zenon
<1>4. AreEight(s, a, b, c, d, e, f, g, h)
  BY <1>3, EightInARow, Zenon
<1>5. Len(t) = 4 /\ t[1] = k /\ t[2] = l /\ t[3] = m /\ t[4] = n
  BY <1>3
<1>6. PICK u \in Seq(S) : u = s \o t /\ Joined(u, s, t)
  BY Join, Zenon
<1>7. AreEight(s, u[1], u[2], u[3], u[4], u[5], u[6], u[7], u[8])
  BY <1>4, <1>6 DEF Joined, AreEight
<1>8. Len(u) = 12 /\ u[8 + 1] = k /\ u[8 + 2] = l /\ u[8 + 3] = m /\ u[8 + 4] = n
  BY <1>4, <1>5, <1>6 DEF Joined, AreEight
<1>9. AreTwelve(u, a, b, c, d, e, f, g, h, k, l, m, n)
  BY <1>4, <1>7, <1>8 DEF AreEight, AreTwelve
<1> QED
  BY <1>3, <1>6, <1>9, Zenon

LEMMA C20ProgramTable ==
  ASSUME NEW d
  PROVE  AreTwelve(C20Program(d),
           Prepare("WR_ADDRESS_H", {"page"}), Prepare("WR_ADDRESS_L", {"quot"}),
           Prepare("WR_DATA_H", d.quot.hi), Write("WR_DATA_L", d.quot.lo),
           Prepare("WR_ADDRESS_H", {"page"}), Prepare("WR_ADDRESS_L", {"rem"}),
           Prepare("WR_DATA_H", d.rem.hi), Write("WR_DATA_L", d.rem.lo),
           Prepare("WR_ADDRESS_H", {"page"}), Prepare("WR_ADDRESS_L", {"frac_update"}),
           Prepare("WR_DATA_H", {}), Write("WR_DATA_L", {"update"}))
<1> DEFINE w == [hi |-> {}, lo |-> {"update"}]
<1>1. w.hi = {} /\ w.lo = {"update"}
  OBVIOUS
<1>2. C20Program(d) = SramWrite("quot", d.quot) \o SramWrite("rem", d.rem)
                      \o SramWrite("frac_update", w)
  BY Zenon DEF C20Program
<1> HIDE DEF w
<1>3. AreTwelve(C20Program(d),
           Prepare("WR_ADDRESS_H", {"page"}), Prepare("WR_ADDRESS_L", {"quot"}),
           Prepare("WR_DATA_H", d.quot.hi), Write("WR_DATA_L", d.quot.lo),
           Prepare("WR_ADDRESS_H", {"page"}), Prepare("WR_ADDRESS_L", {"rem"}),
           Prepare("WR_DATA_H", d.rem.hi), Write("WR_DATA_L", d.rem.lo),
           Prepare("WR_ADDRESS_H", {"page"}), Prepare("WR_ADDRESS_L", {"frac_update"}),
           Prepare("WR_DATA_H", w.hi), Write("WR_DATA_L", w.lo))
  BY <1>2, TwelveInARow, Zenon DEF SramWrite
<1> QED
  BY <1>1, <1>3, Zenon

-----------------------------------------------------------------------------
(* The invariant.                                                          *)

Ops       == {"off", "read", "program", "wait", "return", "restore", "end"}
BusyOps   == {"read", "program", "return", "restore"}
Modified2 == {"CONTROL", "CUSTOM_WIDTH"}
Quotients == {"QUOT_HIGH", "QUOT_LOW"}
Addresses == {"RD_ADDRESS_H", "RD_ADDRESS_L", "RD_DATA_H", "RD_DATA_L",
              "WR_ADDRESS_H", "WR_ADDRESS_L", "WR_DATA_H", "WR_DATA_L"}
Registers == Modified2 \cup Quotients \cup Addresses

AccessOK(a) ==
  /\ a.lane \in Lanes /\ a.do \in {"read", "write", "modify"}
  /\ a.do = "modify" <=> a.reg \in Modified2
  /\ a.do = "modify" => "other" \notin a.clear
  /\ a.reg = "CUSTOM_WIDTH" => "update" \notin a.set
  /\ a.do = "read" => a.into \in {<<f, h>> : f \in {"quot", "rem"}, h \in {"hi", "lo"}}
  /\ a.do # "read" => a.into = << >>
  /\ kind = "c10" => a.reg \in Modified2 \cup Quotients
  /\ kind = "c20" => a.reg \in Addresses
  /\ a.do = "read" /\ kind = "c10" => a.reg \in Quotients
  /\ kind = "c10" => a.committed

IsWord(w)     == w = [hi |-> w.hi, lo |-> w.lo]
IsDividers(d) == d = [quot |-> d.quot, rem |-> d.rem] /\ IsWord(d.quot) /\ IsWord(d.rem)

StatusOK ==
  /\ status = [l \in Lanes |-> [error |-> status[l].error, type |-> status[l].type,
                                data |-> status[l].data]]
  /\ \A l \in Lanes : status[l].error \in BOOLEAN

BusTypes ==
  /\ ctl = [l \in Lanes |-> ctl[l]]
  /\ \A l \in Lanes : Pending(l) =>
       /\ ctl[l].reg \in Registers
       /\ kind = "c10" => ctl[l].reg \in Modified2 \cup Quotients
  /\ StatusOK
  /\ reg = [l \in Lanes |-> [r \in Registers |-> reg[l][r]]]
  /\ IsDividers(sram) /\ IsDividers(pll) /\ IsDividers(orig) /\ IsDividers(boot)

WorkOK(c) ==
  /\ i[c] <= Len(Accesses(op[c], orig, mod))
  /\ act[c].step \in {"send", "ack", "clear", "reset"} /\ act[c].try \in 1 .. 3
  /\ act[c].do \in {"read", "write"}
  /\ Current(c).do = "read" => act[c].do = "read"
  /\ Current(c).do = "write" => act[c].do = "write"

ContextTypes ==
  /\ kind \in Kinds /\ device \in Devices /\ Reliable
  /\ op \in [Contexts -> Ops] /\ i \in [Contexts -> Nat \ {0}]
  /\ act = [c \in Contexts |-> [step |-> act[c].step, do |-> act[c].do,
                                try |-> act[c].try, byte |-> act[c].byte]]
  /\ \A c \in Contexts : Busy(c) => WorkOK(c)
  /\ refused \in Nat /\ early \in Nat
  /\ gaveUp \in BOOLEAN /\ overlap \in BOOLEAN

\* Who is at work when: the handler after the thread, or both after Ctrl+C.
OrderOK ==
  /\ op["sync"] \in {"read", "program", "wait", "restore", "end"}
  /\ op["handler"] \in {"off", "return", "restore", "end"}
  /\ op["sync"] \in {"read", "program"} => op["handler"] = "off"
  /\ ~overlap /\ op["handler"] \in {"return", "restore"} => op["sync"] = "wait"
  /\ ~overlap /\ op["sync"] = "restore" => op["handler"] = "off"
  /\ overlap => /\ op["sync"] \in {"restore", "end"} /\ op["handler"] # "off"
                /\ kind \in Overlapping /\ device.late = 0 /\ device.refusals = 0

\* What c has sent.
Command(c) ==
  [cmd |-> IF act[c].do = "read" THEN "read"
           ELSE IF Current(c).committed THEN "committed" ELSE "uncommitted",
   reg |-> Current(c).reg,
   data |-> IF act[c].do = "read" THEN {} ELSE act[c].byte]

\* Nothing is under way on a lane, and no answer is left that could be taken for
\* another.
Quiet(l) == ctl[l] = Idle /\ ~status[l].error /\ (~Prompt => status[l] = NoReply)

\* What the PHY has done by the time it has performed a write.
Performed(l, r, byte) ==
  /\ reg[l][r] = IF r = "CONTROL" THEN byte \ {"update"} ELSE byte
  /\ r = "CONTROL" /\ l = 0 /\ "update" \in byte =>
       pll.quot = [hi |-> reg[0].QUOT_HIGH, lo |-> reg[0].QUOT_LOW]
  /\ r = "WR_DATA_L" /\ reg[l].WR_ADDRESS_H = {"page"} =>
       /\ reg[l].WR_ADDRESS_L = {"quot"} => sram.quot = [hi |-> reg[l].WR_DATA_H, lo |-> byte]
       /\ reg[l].WR_ADDRESS_L = {"rem"} => sram.rem = [hi |-> reg[l].WR_DATA_H, lo |-> byte]
       /\ reg[l].WR_ADDRESS_L = {"frac_update"} => pll = sram
  /\ r = "RD_ADDRESS_L" /\ reg[l].RD_ADDRESS_H = {"page"} =>
       /\ byte = {"quot"} => reg[l].RD_DATA_H = sram.quot.hi /\ reg[l].RD_DATA_L = sram.quot.lo
       /\ byte = {"rem"} => reg[l].RD_DATA_H = sram.rem.hi /\ reg[l].RD_DATA_L = sram.rem.lo

\* The command of c has been answered, and not refused.
Answered(c) ==
  /\ act[c].do = "read" => /\ status[Lane(c)].type = "read_ack"
                           /\ status[Lane(c)].data = reg[Lane(c)][Current(c).reg]
  /\ act[c].do = "write" => /\ Current(c).committed => status[Lane(c)].type = "write_ack"
                            /\ Performed(Lane(c), Current(c).reg, act[c].byte)

\* Where a transaction is, on a bus that its context has to itself.
AtSend(c) == \A l \in Lanes : Quiet(l)
AtAck(c) ==
  IF Pending(Lane(c))
  THEN /\ ctl[Lane(c)] = Command(c) /\ ~status[Lane(c)].error
       /\ ~Prompt => status[Lane(c)] = NoReply
  ELSE status[Lane(c)].error \/ Answered(c)
AtClear(c) ==
  /\ ~Pending(Lane(c)) /\ ~status[Lane(c)].error
  /\ act[c].do = "read" => act[c].byte = reg[Lane(c)][Current(c).reg]
  /\ act[c].do = "write" => Performed(Lane(c), Current(c).reg, act[c].byte)
AtReset(c) ==
  Pending(Lane(c)) => ~Prompt /\ ctl[Lane(c)] = Command(c)

TransactionOK(c) ==
  /\ act[c].step = "send" => AtSend(c)
  /\ act[c].step = "ack" => AtAck(c)
  /\ act[c].step = "clear" => AtClear(c)
  /\ act[c].step = "reset" => AtReset(c)
  /\ \A l \in Lanes \ {Lane(c)} : Quiet(l)

\* Each try but the first has cost a refusal.
TriesOK(c) ==
  /\ act[c].step = "send" => act[c].try - 1 <= refused
  /\ act[c].step = "ack" => /\ act[c].try - 1 <= refused
                            /\ status[Lane(c)].error => act[c].try <= refused
  /\ act[c].step = "reset" => act[c].try <= refused

TransactionInv ==
  /\ BusTypes /\ ContextTypes /\ OrderOK
  /\ ~overlap => /\ \A c \in Contexts : Busy(c) => TransactionOK(c)
                 /\ (\A c \in Contexts : ~Busy(c)) => \A l \in Lanes : Quiet(l)
  /\ ~overlap /\ Prompt => /\ \A c \in Contexts : Busy(c) => TriesOK(c)
                           /\ gaveUp => refused >= 3

-----------------------------------------------------------------------------
(* What the operations have done so far.                                   *)

\* The saved dividers are those the display driver programmed.
SavedOK ==
  /\ orig.quot = boot.quot
  /\ kind = "c20" => orig.rem = boot.rem

\* After the first j accesses of a read.
HasRead(j) ==
  /\ kind = "c10" =>
       /\ reg[0].QUOT_LOW = boot.quot.lo /\ reg[0].QUOT_HIGH = boot.quot.hi
       /\ j >= 1 => orig.quot.lo = boot.quot.lo
       /\ j >= 2 => orig.quot.hi = boot.quot.hi
  /\ kind = "c20" =>
       /\ sram = boot
       /\ j \in {1, 5} => reg[0].RD_ADDRESS_H = {"page"}
       /\ j \in {2, 3} => reg[0].RD_DATA_H = boot.quot.hi /\ reg[0].RD_DATA_L = boot.quot.lo
       /\ j >= 3 => orig.quot.hi = boot.quot.hi
       /\ j >= 4 => orig.quot.lo = boot.quot.lo
       /\ j \in {6, 7} => reg[0].RD_DATA_H = boot.rem.hi /\ reg[0].RD_DATA_L = boot.rem.lo
       /\ j >= 7 => orig.rem.hi = boot.rem.hi
       /\ j >= 8 => orig.rem.lo = boot.rem.lo

\* After the first j accesses of a restoration.
HasRestored(j) ==
  /\ kind = "c10" =>
       /\ j >= 7 => reg[0].QUOT_LOW = boot.quot.lo
       /\ j >= 8 => reg[0].QUOT_HIGH = boot.quot.hi
       /\ j >= 9 => pll.quot = boot.quot
  /\ kind = "c20" =>
       /\ j % 4 # 0 => reg[0].WR_ADDRESS_H = {"page"}
       /\ j \in {2, 3} => reg[0].WR_ADDRESS_L = {"quot"}
       /\ j = 3 => reg[0].WR_DATA_H = boot.quot.hi
       /\ j >= 4 => sram.quot = boot.quot
       /\ j \in {6, 7} => reg[0].WR_ADDRESS_L = {"rem"}
       /\ j = 7 => reg[0].WR_DATA_H = boot.rem.hi
       /\ j >= 8 => sram.rem = boot.rem
       /\ j \in {10, 11} => reg[0].WR_ADDRESS_L = {"frac_update"}
       /\ j >= 12 => pll = boot

\* A byte to be written back keeps the bits that are not the code's.
ByteOK(c) ==
  act[c].do = "write" =>
    /\ Current(c).set \subseteq act[c].byte
    /\ Current(c).do = "write" => act[c].byte = Current(c).set
    /\ Current(c).do = "modify" => "other" \in act[c].byte

ProgressInv ==
  /\ kind = "c10" => /\ pll.rem = boot.rem
                     /\ \A l \in Lanes : "update" \notin reg[l].CONTROL
  /\ ~overlap /\ ~gaveUp =>
       /\ OthersKept
       /\ \A c \in Contexts : Busy(c) => ByteOK(c)
       /\ op["sync"] = "read" => HasRead(i["sync"] - 1)
       /\ op["sync"] # "read" => SavedOK
       /\ \A c \in Contexts : op[c] = "restore" => HasRestored(i[c] - 1)
       /\ op["handler"] = "end" => pll = boot
       /\ op["sync"] = "end" => pll = boot

-----------------------------------------------------------------------------
(* When the thread and a handler restore a C10 at the same time.           *)

Calm == kind = "c10" /\ Prompt /\ device.refusals = 0

\* c has written the byte of this access, at the latest.
Written(c) ==
  /\ act[c].do = "write"
  /\ \/ act[c].step \in {"clear", "reset"}
     \/ act[c].step = "ack" /\ ctl[Lane(c)] # Command(c)
     \/ act[c].try > 1

\* The first byte of a control register has yet to be read.
Early ==
  \/ op["sync"] = "read"
  \/ /\ op["sync"] = "program" /\ i["sync"] = 1 /\ act["sync"].do = "read"
     /\ act["sync"].try = 1
     /\ act["sync"].step = "send" \/ (act["sync"].step = "ack" /\ Pending(0))

\* The request for an update is nowhere but in the command that makes it.
NoUpdateLeft ==
  /\ \A l \in Lanes : "update" \notin reg[l].CONTROL /\ "update" \notin reg[l].CUSTOM_WIDTH
  /\ "update" \notin status[1].data
  /\ Early \/ "update" \notin status[0].data

CommandsOK ==
  \A l \in Lanes : Pending(l) =>
    /\ \E c \in Contexts : Busy(c) /\ act[c].step = "ack" /\ Lane(c) = l /\ ctl[l] = Command(c)
    /\ \A k \in Lanes \ {l} : ~Pending(k)

BytesOK(c) ==
  /\ act[c].do = "write" => Current(c).set \subseteq act[c].byte
  /\ act[c].do = "write" /\ Current(c).do = "write" => act[c].byte = Current(c).set
  /\ act[c].do = "read" /\ act[c].step = "clear" /\ Current(c).do = "modify" =>
       "update" \notin act[c].byte
  /\ act[c].do = "write" /\ Current(c).reg = "CUSTOM_WIDTH" => "update" \notin act[c].byte

\* How far the handler has restored what the thread can only restore once more.
HandlerOK ==
  LET n == i["handler"]
  IN  /\ op["handler"] = "restore" =>
           /\ n > 7 \/ (n = 7 /\ Written("handler")) => reg[0].QUOT_LOW = boot.quot.lo
           /\ n > 8 \/ (n = 8 /\ Written("handler")) => reg[0].QUOT_HIGH = boot.quot.hi
           /\ n = 9 /\ Written("handler") => pll.quot = boot.quot
      /\ op["handler"] = "end" =>
           /\ reg[0].QUOT_LOW = boot.quot.lo /\ reg[0].QUOT_HIGH = boot.quot.hi
           /\ pll.quot = boot.quot

CalmInv ==
  Calm => /\ refused = 0 /\ \A l \in Lanes : ~status[l].error
          /\ NoUpdateLeft /\ CommandsOK
          /\ \A c \in Contexts : Busy(c) => BytesOK(c)
          /\ op["sync"] # "read" => orig.quot = boot.quot
          /\ HandlerOK

-----------------------------------------------------------------------------
(* The accesses are what they should be.                                   *)

LEMMA ModifyOK ==
  ASSUME kind = "c10", NEW l \in Lanes, NEW r \in Modified2, NEW clear, NEW set,
         "other" \notin clear, r = "CUSTOM_WIDTH" => "update" \notin set
  PROVE  /\ AccessOK(Access(l, "modify", r, clear, set, TRUE))
         /\ Access(l, "modify", r, clear, set, TRUE).do # "read"
BY DEF AccessOK, Access, Modified2

LEMMA WriteOK ==
  ASSUME NEW r, NEW byte,
         \/ kind = "c10" /\ r \in Quotients
         \/ kind = "c20" /\ r \in Addresses
  PROVE  /\ AccessOK(Write(r, byte)) /\ Write(r, byte).do # "read"
         /\ kind = "c20" => AccessOK(Prepare(r, byte)) /\ Prepare(r, byte).do # "read"
BY DEF AccessOK, Access, Write, Prepare, Modified2, Quotients, Addresses, Lanes

LEMMA FetchOK ==
  ASSUME NEW r, NEW f \in {"quot", "rem"}, NEW half \in {"hi", "lo"},
         \/ kind = "c10" /\ r \in Quotients
         \/ kind = "c20" /\ r \in Addresses
  PROVE  AccessOK(Fetch(r, f, half))
BY DEF AccessOK, Access, Fetch, Modified2, Quotients, Addresses, Lanes

\* How many there are does not depend on the dividers.
Size(o) == IF o = "read" THEN IF kind = "c10" THEN 2 ELSE 8
                         ELSE IF kind = "c10" THEN 9 ELSE 12

LEMMA AccessesOK ==
  ASSUME kind \in {"c10", "c20"}, NEW o \in BusyOps, NEW s, NEW m
  PROVE  /\ Len(Accesses(o, s, m)) = Size(o)
         /\ \A j \in 1 .. Size(o) : /\ AccessOK(Accesses(o, s, m)[j])
                                    /\ o # "read" => Accesses(o, s, m)[j].do # "read"
<1> DEFINE d == IF o = "restore" THEN s ELSE m
           all == Accesses(o, s, m)
           good(a) == AccessOK(a) /\ a.do # "read"
<1>1. CASE o = "read" /\ kind = "c10"
  <2>1. all = C10Read
    BY <1>1 DEF Accesses
  <2>2. /\ Len(C10Read) = 2 /\ C10Read[1] = Fetch("QUOT_LOW", "quot", "lo")
        /\ C10Read[2] = Fetch("QUOT_HIGH", "quot", "hi")
    BY DEF C10Read
  <2>3. AccessOK(C10Read[1]) /\ AccessOK(C10Read[2])
    BY <1>1, <2>2, FetchOK DEF Quotients
  <2> QED
    BY <1>1, <2>1, <2>2, <2>3 DEF Size
<1>2. CASE o = "read" /\ kind = "c20"
  <2>1. all = C20Read
    BY <1>2 DEF Accesses
  <2>2. Len(C20Read) = 8
    BY C20ReadTable DEF AreEight
  <2>3. /\ AccessOK(C20Read[1]) /\ AccessOK(C20Read[2]) /\ AccessOK(C20Read[5])
        /\ AccessOK(C20Read[6])
    BY <1>2, C20ReadTable, WriteOK DEF AreEight, Addresses
  <2>4. /\ AccessOK(C20Read[3]) /\ AccessOK(C20Read[4]) /\ AccessOK(C20Read[7])
        /\ AccessOK(C20Read[8])
    BY <1>2, C20ReadTable, FetchOK DEF AreEight, Addresses
  <2> QED
    BY <1>2, <2>1, <2>2, <2>3, <2>4 DEF Size
<1>3. CASE o # "read" /\ kind = "c10"
  <2>1. PICK p : p = C10Program(d) /\ all = p
    BY <1>3 DEF Accesses
  <2>2. Len(p) = 9
    BY <2>1, C10Table, Zenon
  <2>3. /\ p[1] = Access(0, "modify", "CONTROL", {}, {"access"}, TRUE)
        /\ p[2] = Access(1, "modify", "CONTROL", {}, {"access"}, TRUE)
        /\ p[3] = Access(0, "modify", "CUSTOM_WIDTH", {"width"}, {}, TRUE)
        /\ p[4] = Access(1, "modify", "CUSTOM_WIDTH", {"width"}, {}, TRUE)
        /\ p[5] = Access(0, "modify", "CONTROL", {}, {"update"}, TRUE)
        /\ p[6] = Access(1, "modify", "CONTROL", {}, {"update"}, TRUE)
    BY <2>1, C10Table, Zenon
  <2>4. good(p[1]) /\ good(p[2]) /\ good(p[3]) /\ good(p[4]) /\ good(p[5]) /\ good(p[6])
    <3>1. /\ 0 \in Lanes /\ 1 \in Lanes /\ "CONTROL" \in Modified2
          /\ "CUSTOM_WIDTH" \in Modified2 /\ "other" \notin {} /\ "other" \notin {"width"}
      BY DEF Lanes, Modified2
    <3> QED
      BY <1>3, <2>3, <3>1, ModifyOK, Zenon
  <2>5. good(p[7]) /\ good(p[8])
    <3>1. p[7] = Write("QUOT_LOW", d.quot.lo) /\ p[8] = Write("QUOT_HIGH", d.quot.hi)
      BY <2>1, C10Table, Zenon
    <3> QED
      BY <1>3, <3>1, WriteOK DEF Quotients
  <2>6. good(p[9])
    BY <1>3, <2>1, C10Table, ModifyOK DEF Modified2, Lanes
  <2> QED
    BY <1>3, <2>1, <2>2, <2>3, <2>4, <2>5, <2>6 DEF Size
<1>4. CASE o # "read" /\ kind = "c20"
  <2>1. PICK p : p = C20Program(d) /\ all = p
    BY <1>4 DEF Accesses
  <2>2. AreTwelve(p,
           Prepare("WR_ADDRESS_H", {"page"}), Prepare("WR_ADDRESS_L", {"quot"}),
           Prepare("WR_DATA_H", d.quot.hi), Write("WR_DATA_L", d.quot.lo),
           Prepare("WR_ADDRESS_H", {"page"}), Prepare("WR_ADDRESS_L", {"rem"}),
           Prepare("WR_DATA_H", d.rem.hi), Write("WR_DATA_L", d.rem.lo),
           Prepare("WR_ADDRESS_H", {"page"}), Prepare("WR_ADDRESS_L", {"frac_update"}),
           Prepare("WR_DATA_H", {}), Write("WR_DATA_L", {"update"}))
    BY <2>1, C20ProgramTable, Zenon
  <2>3. good(p[1]) /\ good(p[2]) /\ good(p[3]) /\ good(p[4])
    BY <1>4, <2>2, WriteOK DEF AreTwelve, Addresses
  <2>4. good(p[5]) /\ good(p[6]) /\ good(p[7]) /\ good(p[8])
    BY <1>4, <2>2, WriteOK DEF AreTwelve, Addresses
  <2>5. good(p[9]) /\ good(p[10]) /\ good(p[11]) /\ good(p[12])
    BY <1>4, <2>2, WriteOK DEF AreTwelve, Addresses
  <2>6. Len(p) = 12
    BY <2>2 DEF AreTwelve
  <2> QED
    BY <1>4, <2>1, <2>3, <2>4, <2>5, <2>6 DEF Size
<1> QED
  BY <1>1, <1>2, <1>3, <1>4 DEF BusyOps

-----------------------------------------------------------------------------
(* Types, and who is at work.                                              *)

LEMMA OneBusy ==
  ASSUME OrderOK, ~overlap, NEW c \in Contexts, NEW d \in Contexts, Busy(c), Busy(d)
  PROVE  c = d
BY DEF OrderOK, Contexts, Busy

LEMMA CurrentOK ==
  ASSUME ContextTypes, NEW c \in Contexts, Busy(c)
  PROVE  /\ kind \in {"c10", "c20"} /\ op[c] \in BusyOps
         /\ i[c] \in 1 .. Size(op[c]) /\ Size(op[c]) = Len(Accesses(op[c], orig, mod))
         /\ AccessOK(Current(c)) /\ Lane(c) \in Lanes
         /\ op[c] # "read" => Current(c).do # "read"
<1>1. kind \in {"c10", "c20"} /\ op[c] \in BusyOps
  BY Cx0Assumption DEF ContextTypes, Busy, BusyOps
<1>2. i[c] \in Nat \ {0} /\ i[c] <= Len(Accesses(op[c], orig, mod))
  BY DEF ContextTypes, WorkOK
<1>3. Len(Accesses(op[c], orig, mod)) = Size(op[c])
  BY <1>1, AccessesOK, Zenon
<1>4. Size(op[c]) \in Nat
  BY DEF Size
<1>5. i[c] \in 1 .. Size(op[c])
  BY <1>2, <1>3, <1>4
<1>6. AccessOK(Current(c)) /\ (op[c] # "read" => Current(c).do # "read")
  BY <1>1, <1>5, AccessesOK, Zenon DEF Current
<1>7. Lane(c) \in Lanes
  BY <1>6 DEF Lane, AccessOK
<1> QED
  BY <1>1, <1>3, <1>5, <1>6, <1>7

\* A new access begins with its first try.
LEMMA StartOK ==
  ASSUME NEW a
  PROVE  /\ StartOf(a) = [step |-> StartOf(a).step, do |-> StartOf(a).do,
                          try |-> StartOf(a).try, byte |-> StartOf(a).byte]
         /\ StartOf(a).step = "send" /\ StartOf(a).try = 1
         /\ StartOf(a).do = IF a.do = "write" THEN "write" ELSE "read"
         /\ a.do = "write" => StartOf(a).byte = a.set
BY DEF StartOf

\* When both are at work neither reads the dividers or computes new ones.
LEMMA ConcludeKeeps ==
  ASSUME ContextTypes, OrderOK, NEW c \in Contexts, Busy(c), NEW byte, Conclude(c, byte)
  PROVE  /\ op[c] # "read" => orig' = orig /\ mod' = mod
         /\ \A d \in Contexts \ {c} : Busy(d) => op[c] # "read"
         /\ \A d \in Contexts \ {c} : op'[d] = op[d] /\ i'[d] = i[d] /\ act'[d] = act[d]
<1>1. ASSUME op[c] # "read" PROVE orig' = orig /\ mod' = mod
  <2>1. Current(c).do # "read" /\ Current(c).into = << >>
    BY <1>1, CurrentOK DEF AccessOK
  <2>2. (NextOp(op[c]) # "program" /\ op[c] # "program")
        \/ op[c] = "program"
    BY <1>1 DEF NextOp, Busy
  <2>3. op[c] = "program" => NextOp(op[c]) = "wait"
    BY DEF NextOp
  <2> QED
    BY <1>1, <2>1, <2>2, <2>3 DEF Conclude, Advance
<1>2. \A d \in Contexts \ {c} : Busy(d) => op[c] # "read"
  BY DEF OrderOK, Contexts, Busy
<1>3. \A d \in Contexts \ {c} : op'[d] = op[d] /\ i'[d] = i[d] /\ act'[d] = act[d]
  BY DEF Conclude, Advance, ContextTypes
<1> QED
  BY <1>1, <1>2, <1>3

\* What is read goes into one of the bytes of orig.
LEMMA IntoOK ==
  ASSUME IsDividers(orig), NEW f \in {"quot", "rem"}, NEW h \in {"hi", "lo"}, NEW byte,
         orig' = [orig EXCEPT ![f][h] = byte]
  PROVE  /\ IsDividers(orig)' /\ orig'[f][h] = byte
         /\ \A g \in {"quot", "rem"}, k \in {"hi", "lo"} :
              <<g, k>> # <<f, h>> => orig'[g][k] = orig[g][k]
<1>1. CASE f = "quot"
  BY <1>1 DEF IsDividers, IsWord
<1>2. CASE f = "rem"
  BY <1>2 DEF IsDividers, IsWord
<1> QED
  BY <1>1, <1>2

LEMMA ConcludeOrig ==
  ASSUME ContextTypes, IsDividers(orig), NEW c \in Contexts, Busy(c), NEW byte,
         Conclude(c, byte)
  PROVE  IsDividers(orig)'
<1>1. CASE orig' = orig
  BY <1>1 DEF IsDividers, IsWord
<1>2. CASE orig' # orig
  <2>1. Current(c).into # << >> /\ orig' = [orig EXCEPT ![Current(c).into[1]][Current(c).into[2]] = byte]
    BY <1>2 DEF Conclude
  <2>2. PICK f \in {"quot", "rem"}, h \in {"hi", "lo"} : Current(c).into = <<f, h>>
    BY <2>1, CurrentOK DEF AccessOK
  <2>3. Current(c).into[1] = f /\ Current(c).into[2] = h
    BY <2>2
  <2>4. orig' = [orig EXCEPT ![f][h] = byte]
    BY <2>1, <2>3
  <2> QED
    BY <2>4, IntoOK
<1> QED
  BY <1>1, <1>2

\* The three ways in which a transaction ends: with a write of the byte it has
\* read, with the next access, or with the end of the operation.
LEMMA ConcludeCases ==
  ASSUME ContextTypes, NEW c \in Contexts, Busy(c), NEW byte, Conclude(c, byte)
  PROVE  \/ /\ Current(c).do = "modify" /\ act[c].do = "read"
            /\ Modified(byte, Current(c)) # byte
            /\ act' = [act EXCEPT ![c] = [step |-> "send", do |-> "write", try |-> 1,
                                          byte |-> Modified(byte, Current(c))]]
            /\ UNCHANGED <<orig, mod, op, i>>
         \/ /\ i[c] < Size(op[c]) /\ op' = op /\ mod' = mod
            /\ i' = [i EXCEPT ![c] = i[c] + 1]
            /\ act' = [act EXCEPT ![c] = StartOf(Accesses(op[c], orig', mod)[i[c] + 1])]
         \/ /\ i[c] = Size(op[c])
            /\ op' = [op EXCEPT ![c] = NextOp(op[c])]
            /\ i' = [i EXCEPT ![c] = 1]
            /\ op[c] \in {"read", "return"} =>
                 act' = [act EXCEPT ![c] = StartOf(Accesses(NextOp(op[c]), orig', mod')[1])]
            /\ op[c] \in {"program", "restore"} => act' = [act EXCEPT ![c] = NoAct]
<1>1. /\ op[c] \in BusyOps /\ i[c] \in 1 .. Size(op[c]) /\ i[c] \in Nat
      /\ Size(op[c]) = Len(Accesses(op[c], orig, mod))
      /\ op[c] \in Ops /\ op \in [Contexts -> Ops] /\ i \in [Contexts -> Nat \ {0}]
  BY CurrentOK DEF ContextTypes, BusyOps, Ops
<1>2. CASE Current(c).do = "modify" /\ act[c].do = "read" /\ Modified(byte, Current(c)) # byte
  BY <1>2 DEF Conclude
<1>3. CASE ~(Current(c).do = "modify" /\ act[c].do = "read"
             /\ Modified(byte, Current(c)) # byte)
  <2>1. Advance(c)
    BY <1>3 DEF Conclude
  <2>2. CASE i[c] = Size(op[c])
    <3>1. op' = [op EXCEPT ![c] = NextOp(op[c])] /\ i' = [i EXCEPT ![c] = 1]
      BY <1>1, <2>1, <2>2 DEF Advance
    <3>2. i'[c] = 1
      BY <1>1, <3>1
    <3>3. act' = [act EXCEPT ![c] =
             IF NextOp(op[c]) \in {"wait", "end"} THEN NoAct
             ELSE StartOf(Accesses(NextOp(op[c]), orig', mod')[1])]
      BY <1>1, <2>1, <2>2, <3>2 DEF Advance
    <3> QED
      BY <1>1, <2>2, <3>1, <3>3 DEF NextOp
  <2>3. CASE i[c] # Size(op[c])
    <3>1. op' = [op EXCEPT ![c] = op[c]] /\ i' = [i EXCEPT ![c] = i[c] + 1] /\ mod' = mod
      BY <1>1, <2>1, <2>3 DEF Advance
    <3>2. op' = op /\ i'[c] = i[c] + 1
      BY <1>1, <3>1
    <3>3. op[c] \notin {"wait", "end"}
      BY <1>1 DEF BusyOps
    <3>4. act' = [act EXCEPT ![c] = StartOf(Accesses(op[c], orig', mod)[i[c] + 1])]
      BY <1>1, <2>1, <2>3, <3>1, <3>2, <3>3 DEF Advance
    <3>5. i[c] < Size(op[c])
      BY <1>1, <2>3 DEF Size
    <3> QED
      BY <3>1, <3>2, <3>4, <3>5
  <2> QED
    BY <2>2, <2>3
<1> QED
  BY <1>2, <1>3

LEMMA CurrentPrime ==
  ASSUME kind' = kind, NEW d
  PROVE  /\ Accesses(op[d], orig, mod)' = Accesses(op'[d], orig', mod')
         /\ Current(d)' = Accesses(op'[d], orig', mod')[i'[d]]
         /\ Lane(d)' = Accesses(op'[d], orig', mod')[i'[d]].lane
BY Zenon DEF Current, Lane, Accesses

\* A context that does not move is where it was.
LEMMA StaysOK ==
  ASSUME kind' = kind, NEW d, op'[d] = op[d], i'[d] = i[d],
         Busy(d) => orig' = orig /\ mod' = mod
  PROVE  /\ Busy(d)' <=> Busy(d)
         /\ Busy(d) => Current(d)' = Current(d) /\ Lane(d)' = Lane(d)
         /\ Busy(d) /\ act'[d] = act[d] => (WorkOK(d)' <=> WorkOK(d))
<1>1. Busy(d)' <=> Busy(d)
  BY DEF Busy
<1>2. ASSUME Busy(d)
      PROVE  /\ Accesses(op[d], orig, mod)' = Accesses(op[d], orig, mod)
             /\ Current(d)' = Current(d) /\ Lane(d)' = Lane(d)
  BY <1>2, CurrentPrime, Zenon DEF Current, Lane
<1>3. ASSUME Busy(d), act'[d] = act[d] PROVE WorkOK(d)' <=> WorkOK(d)
  BY <1>2, <1>3 DEF WorkOK
<1> QED
  BY <1>1, <1>2, <1>3

\* A context that begins with an access of an operation.
LEMMA BeginOK ==
  ASSUME kind \in {"c10", "c20"}, kind' = kind, NEW d, op'[d] \in BusyOps,
         i'[d] \in 1 .. Size(op'[d]),
         act'[d] = StartOf(Accesses(op'[d], orig', mod')[i'[d]])
  PROVE  WorkOK(d)' /\ act'[d].step = "send" /\ act'[d].try = 1
<1> DEFINE a == Accesses(op'[d], orig', mod')[i'[d]]
<1>1. Current(d)' = a /\ Accesses(op[d], orig, mod)' = Accesses(op'[d], orig', mod')
  BY CurrentPrime, Zenon
<1>2. AccessOK(a) /\ Len(Accesses(op'[d], orig', mod')) = Size(op'[d])
  BY AccessesOK, Zenon
<1>3. i'[d] <= Len(Accesses(op'[d], orig', mod'))
  BY <1>2 DEF Size
<1> HIDE DEF a
<1>4. act'[d] = StartOf(a)
  BY DEF a
<1>5. /\ act'[d].step = "send" /\ act'[d].try = 1
      /\ act'[d].do = IF a.do = "write" THEN "write" ELSE "read"
  BY <1>4, StartOK
<1> QED
  BY <1>1, <1>3, <1>5 DEF WorkOK

ActsOK == act = [c \in Contexts |-> [step |-> act[c].step, do |-> act[c].do,
                                     try |-> act[c].try, byte |-> act[c].byte]]

LEMMA ActIs ==
  ASSUME ActsOK, NEW c \in Contexts, NEW r, act' = [act EXCEPT ![c] = r],
         r = [step |-> r.step, do |-> r.do, try |-> r.try, byte |-> r.byte]
  PROVE  ActsOK' /\ act'[c] = r
BY DEF ActsOK

LEMMA ConcludeTypes ==
  ASSUME ContextTypes, OrderOK, IsDividers(orig), NEW c \in Contexts, Busy(c), NEW byte,
         Conclude(c, byte), UNCHANGED <<kind, device, faults, overlap>>, gaveUp' \in BOOLEAN
  PROVE  /\ ContextTypes' /\ OrderOK' /\ IsDividers(orig)'
         /\ Busy(c)' => act'[c].step = "send" /\ act'[c].try = 1
<1>1. /\ kind \in {"c10", "c20"} /\ kind' = kind /\ device' = device /\ overlap' = overlap
      /\ op[c] \in BusyOps /\ i[c] \in 1 .. Size(op[c]) /\ i[c] \in Nat
      /\ \A o : Size(o) \in Nat \ {0}
      /\ op \in [Contexts -> Ops] /\ i \in [Contexts -> Nat \ {0}]
      /\ refused' \in Nat /\ early' \in Nat /\ Reliable'
  BY CurrentOK DEF ContextTypes, faults, Size, Reliable, Prompt
<1>2. IsDividers(orig)'
  BY ConcludeOrig
<1>3. \A d \in Contexts \ {c} : Busy(d)' => WorkOK(d)'
  BY <1>1, ConcludeKeeps, StaysOK DEF ContextTypes
<1>4. CASE /\ Current(c).do = "modify" /\ act[c].do = "read"
           /\ act' = [act EXCEPT ![c] = [step |-> "send", do |-> "write", try |-> 1,
                                         byte |-> Modified(byte, Current(c))]]
           /\ UNCHANGED <<orig, mod, op, i>>
  <2>1. Current(c)' = Current(c) /\ Accesses(op[c], orig, mod)' = Accesses(op[c], orig, mod)
    BY <1>1, <1>4, CurrentPrime, Zenon DEF Current
  <2>2. act'[c] = [step |-> "send", do |-> "write", try |-> 1,
                   byte |-> Modified(byte, Current(c))]
    BY <1>4 DEF ContextTypes
  <2>3. WorkOK(c)' /\ act'[c].step = "send" /\ act'[c].try = 1
    BY <1>4, <2>1, <2>2 DEF WorkOK, ContextTypes
  <2>4. OrderOK'
    BY <1>1, <1>4 DEF OrderOK
  <2>5. act' = [e \in Contexts |-> [step |-> act'[e].step, do |-> act'[e].do,
                                    try |-> act'[e].try, byte |-> act'[e].byte]]
    BY <1>4 DEF ContextTypes
  <2> QED
    BY <1>1, <1>2, <1>3, <1>4, <2>3, <2>4, <2>5 DEF ContextTypes
<1>5. CASE /\ i[c] < Size(op[c]) /\ op' = op /\ mod' = mod
           /\ i' = [i EXCEPT ![c] = i[c] + 1]
           /\ act' = [act EXCEPT ![c] = StartOf(Accesses(op[c], orig', mod)[i[c] + 1])]
  <2>1. /\ op'[c] = op[c] /\ i'[c] = i[c] + 1 /\ i'[c] \in 1 .. Size(op'[c])
        /\ i' \in [Contexts -> Nat \ {0}]
    BY <1>1, <1>5
  <2>2. act'[c] = StartOf(Accesses(op'[c], orig', mod')[i'[c]])
    BY <1>5, <2>1 DEF ContextTypes
  <2>3. WorkOK(c)' /\ act'[c].step = "send" /\ act'[c].try = 1
    BY <1>1, <2>1, <2>2, BeginOK, Zenon
  <2>4. OrderOK'
    BY <1>1, <1>5 DEF OrderOK
  <2>5. act' = [e \in Contexts |-> [step |-> act'[e].step, do |-> act'[e].do,
                                    try |-> act'[e].try, byte |-> act'[e].byte]]
    BY <1>5, StartOK DEF ContextTypes
  <2> QED
    BY <1>1, <1>2, <1>3, <1>5, <2>1, <2>3, <2>4, <2>5 DEF ContextTypes
<1>6. CASE /\ i[c] = Size(op[c])
           /\ op' = [op EXCEPT ![c] = NextOp(op[c])]
           /\ i' = [i EXCEPT ![c] = 1]
           /\ op[c] \in {"read", "return"} =>
                act' = [act EXCEPT ![c] = StartOf(Accesses(NextOp(op[c]), orig', mod')[1])]
           /\ op[c] \in {"program", "restore"} => act' = [act EXCEPT ![c] = NoAct]
  <2>1. /\ op'[c] = NextOp(op[c]) /\ i'[c] = 1 /\ i'[c] \in 1 .. Size(op'[c])
        /\ op' \in [Contexts -> Ops] /\ i' \in [Contexts -> Nat \ {0}]
    BY <1>1, <1>6 DEF NextOp, Ops, BusyOps
  <2>2. ASSUME op[c] \in {"read", "return"}
        PROVE  WorkOK(c)' /\ act'[c].step = "send" /\ act'[c].try = 1
    <3>1. act'[c] = StartOf(Accesses(op'[c], orig', mod')[i'[c]])
      BY <1>6, <2>1, <2>2 DEF ContextTypes
    <3>2. op'[c] \in BusyOps
      BY <2>1, <2>2 DEF NextOp, BusyOps
    <3> QED
      BY <1>1, <2>1, <3>1, <3>2, BeginOK, Zenon
  <2>3. ASSUME op[c] \in {"program", "restore"} PROVE ~Busy(c)'
    BY <2>1, <2>3 DEF NextOp, Busy
  <2>4. OrderOK'
    <3>1. CASE c = "sync"
      <4>1. op["sync"] \in {"read", "program", "restore"} /\ op'["handler"] = op["handler"]
        BY <1>1, <1>6, <3>1 DEF OrderOK, BusyOps, Contexts
      <4>2. op'["sync"] = NextOp(op["sync"])
        BY <2>1, <3>1
      <4> QED
        BY <1>1, <4>1, <4>2 DEF OrderOK, NextOp
    <3>2. CASE c = "handler"
      <4>1. op["handler"] \in {"return", "restore"} /\ op'["sync"] = op["sync"]
        BY <1>1, <1>6, <3>2 DEF OrderOK, BusyOps, Contexts
      <4>2. op'["handler"] = NextOp(op["handler"])
        BY <2>1, <3>2
      <4> QED
        BY <1>1, <4>1, <4>2 DEF OrderOK, NextOp
    <3> QED
      BY <3>1, <3>2 DEF Contexts
  <2>5. ActsOK'
    <3>1. ActsOK
      BY DEF ContextTypes, ActsOK
    <3>2. CASE op[c] \in {"read", "return"}
      <4> DEFINE r == StartOf(Accesses(NextOp(op[c]), orig', mod')[1])
      <4>1. act' = [act EXCEPT ![c] = r]
        BY <1>6, <3>2
      <4>2. r = [step |-> r.step, do |-> r.do, try |-> r.try, byte |-> r.byte]
        BY StartOK, Zenon
      <4> HIDE DEF r
      <4> QED
        BY <3>1, <4>1, <4>2, ActIs
    <3>3. CASE op[c] \in {"program", "restore"}
      <4>1. NoAct = [step |-> NoAct.step, do |-> NoAct.do, try |-> NoAct.try,
                     byte |-> NoAct.byte]
        BY DEF NoAct
      <4> QED
        BY <1>6, <3>1, <3>3, <4>1, ActIs, Zenon
    <3> QED
      BY <1>1, <3>2, <3>3 DEF BusyOps
  <2> QED
    BY <1>1, <1>2, <1>3, <2>1, <2>2, <2>3, <2>4, <2>5 DEF ContextTypes, ActsOK, BusyOps
<1> QED
  BY <1>4, <1>5, <1>6, ConcludeCases

-----------------------------------------------------------------------------
(* A transaction on a bus that its context has to itself.                  *)

LEMMA OnlyOne ==
  ASSUME BusTypes', ContextTypes', OrderOK', NEW c \in Contexts, Busy(c)',
         ~overlap' => TransactionOK(c)',
         ~overlap' /\ Prompt' => TriesOK(c)' /\ (gaveUp' => refused' >= 3)
  PROVE  TransactionInv'
<1>1. ASSUME ~overlap', NEW d \in Contexts, Busy(d)' PROVE d = c
  BY <1>1 DEF OrderOK, Contexts, Busy
<1> QED
  BY <1>1 DEF TransactionInv

LEMMA NoneBusy ==
  ASSUME BusTypes', ContextTypes', OrderOK', \A c \in Contexts : ~Busy(c)',
         ~overlap' => \A l \in Lanes : Quiet(l)', 
         ~overlap' /\ Prompt' => (gaveUp' => refused' >= 3)
  PROVE  TransactionInv'
BY DEF TransactionInv

\* The steps that change nothing but where c is in its transaction.
LEMMA MoveTypes ==
  ASSUME ContextTypes, OrderOK, NEW c \in Contexts, Busy(c), NEW r,
         act' = [act EXCEPT ![c] = r], r.do = act[c].do,
         r = [step |-> r.step, do |-> r.do, try |-> r.try, byte |-> r.byte],
         r.step \in {"send", "ack", "clear", "reset"}, r.try \in 1 .. 3,
         UNCHANGED <<kind, device, orig, mod, op, i, overlap>>,
         refused' \in Nat, early' \in Nat, gaveUp' \in BOOLEAN
  PROVE  /\ ContextTypes' /\ OrderOK' /\ act'[c] = r /\ Busy(c)'
         /\ Current(c)' = Current(c) /\ Lane(c)' = Lane(c)
<1>1. ActsOK' /\ act'[c] = r
  BY ActIs DEF ContextTypes, ActsOK
<1>2. \A d \in Contexts \ {c} : act'[d] = act[d]
  BY DEF ContextTypes
<1>3. \A d \in Contexts : /\ Busy(d)' <=> Busy(d)
                          /\ Busy(d) => Current(d)' = Current(d) /\ Lane(d)' = Lane(d)
                          /\ Busy(d) /\ act'[d] = act[d] => (WorkOK(d)' <=> WorkOK(d))
  BY StaysOK
<1>4. Accesses(op[c], orig, mod)' = Accesses(op[c], orig, mod)
  BY CurrentPrime, Zenon
<1>5. WorkOK(c)'
  BY <1>1, <1>3, <1>4 DEF WorkOK, ContextTypes
<1>6. \A d \in Contexts : Busy(d)' => WorkOK(d)'
  BY <1>2, <1>3, <1>5 DEF ContextTypes
<1>7. OrderOK' /\ Reliable'
  BY DEF OrderOK, ContextTypes, Reliable, Prompt
<1> QED
  BY <1>1, <1>3, <1>6, <1>7 DEF ContextTypes, ActsOK

LEMMA SendInv ==
  ASSUME TransactionInv, NEW c \in Contexts, Send(c)
  PROVE  TransactionInv'
<1> DEFINE r == [act[c] EXCEPT !.step = "ack"]
<1>1. /\ BusTypes /\ ContextTypes /\ OrderOK /\ Busy(c) /\ act[c].step = "send"
      /\ ~overlap => TransactionOK(c)
      /\ ~overlap /\ Prompt => TriesOK(c) /\ (gaveUp => refused >= 3)
  BY DEF TransactionInv, Send, May
<1>2. /\ AccessOK(Current(c)) /\ Lane(c) \in Lanes /\ WorkOK(c)
  BY <1>1, CurrentOK DEF ContextTypes
<1>3. /\ r = [step |-> "ack", do |-> act[c].do, try |-> act[c].try, byte |-> act[c].byte]
      /\ act' = [act EXCEPT ![c] = r]
  BY <1>1 DEF Send, Goto, ContextTypes
<1>4. /\ UNCHANGED <<kind, device, status, reg, sram, pll, orig, mod, op, i, refused, early>>
      /\ UNCHANGED <<gaveUp, overlap, boot>>
      /\ ctl' = [ctl EXCEPT ![Lane(c)] = Command(c)]
  BY DEF Send, phy, faults, past, Command, Lane
<1>5. /\ ContextTypes' /\ OrderOK' /\ act'[c] = r /\ Busy(c)'
      /\ Current(c)' = Current(c) /\ Lane(c)' = Lane(c)
  <2>1. /\ r.do = act[c].do /\ r.step = "ack" /\ r.try \in 1 .. 3
        /\ r = [step |-> r.step, do |-> r.do, try |-> r.try, byte |-> r.byte]
    BY <1>2, <1>3 DEF WorkOK
  <2> HIDE DEF r
  <2> QED
    BY <1>1, <1>3, <1>4, <2>1, MoveTypes DEF ContextTypes
<1>7. /\ ctl'[Lane(c)] = Command(c) /\ \A l \in Lanes \ {Lane(c)} : ctl'[l] = ctl[l]
      /\ ctl' = [l \in Lanes |-> ctl'[l]]
  BY <1>1, <1>2, <1>4 DEF BusTypes
<1>6. BusTypes'
  <2>1. /\ Command(c).reg \in Registers
        /\ kind = "c10" => Command(c).reg \in Modified2 \cup Quotients
    BY <1>1, <1>2, CurrentOK DEF Command, AccessOK, Registers
  <2>2. \A l \in Lanes : Pending(l)' =>
          /\ ctl'[l].reg \in Registers
          /\ kind' = "c10" => ctl'[l].reg \in Modified2 \cup Quotients
    BY <1>1, <1>4, <1>7, <2>1 DEF BusTypes, Pending
  <2> QED
    BY <1>1, <1>4, <1>7, <2>2 DEF BusTypes, StatusOK, IsDividers, IsWord
<1>8. Command(c)' = Command(c) /\ Command(c) # Idle
  BY <1>3, <1>5 DEF Command, Idle
<1>9. ASSUME ~overlap' PROVE TransactionOK(c)'
  <2>1. \A l \in Lanes : Quiet(l)
    BY <1>1, <1>4, <1>9 DEF TransactionOK, AtSend
  <2>2. \A l \in Lanes \ {Lane(c)} : Quiet(l)'
    BY <1>4, <1>7, <2>1 DEF Quiet, Prompt
  <2>3. AtAck(c)'
    BY <1>2, <1>4, <1>5, <1>7, <1>8, <2>1 DEF AtAck, Pending, Quiet, Prompt
  <2> QED
    BY <1>3, <1>5, <2>2, <2>3 DEF TransactionOK
<1>10. ASSUME ~overlap', Prompt' PROVE TriesOK(c)' /\ (gaveUp' => refused' >= 3)
  <2>1. TriesOK(c) /\ (gaveUp => refused >= 3) /\ ~status[Lane(c)].error
    BY <1>1, <1>2, <1>4, <1>10 DEF TransactionOK, AtSend, Quiet, Prompt
  <2> QED
    BY <1>1, <1>3, <1>4, <1>5, <2>1 DEF TriesOK
<1> QED
  BY <1>5, <1>6, <1>9, <1>10, OnlyOne

LEMMA AckInv ==
  ASSUME TransactionInv, NEW c \in Contexts, Ack(c)
  PROVE  TransactionInv'
<1> DEFINE s == status[Lane(c)]
           ok == Accepted(act[c].do, Current(c).committed, s)
           r == IF ok
                THEN [step |-> "clear", do |-> act[c].do, try |-> act[c].try,
                      byte |-> IF act[c].do = "read" THEN s.data ELSE act[c].byte]
                ELSE [act[c] EXCEPT !.step = "reset"]
<1>1. /\ BusTypes /\ ContextTypes /\ OrderOK /\ Busy(c) /\ act[c].step = "ack"
      /\ ~overlap => TransactionOK(c)
      /\ ~overlap /\ Prompt => TriesOK(c) /\ (gaveUp => refused >= 3)
      /\ Prompt => ~Pending(Lane(c))
  <2>1. Lane(c) \in Lanes
    BY CurrentOK DEF TransactionInv, Ack, May
  <2> QED
    BY <2>1 DEF TransactionInv, Ack, May
<1>2. /\ AccessOK(Current(c)) /\ Lane(c) \in Lanes /\ WorkOK(c)
      /\ kind = "c10" => Current(c).committed
  BY <1>1, CurrentOK DEF ContextTypes, AccessOK
<1>3. act[c] = [step |-> "ack", do |-> act[c].do, try |-> act[c].try, byte |-> act[c].byte]
  BY <1>1 DEF ContextTypes
<1>4. act' = [act EXCEPT ![c] = r]
  <2>1. CASE ok
    <3>1. act' = [act EXCEPT ![c].step = "clear",
                             ![c].byte = IF act[c].do = "read" THEN s.data ELSE @]
      BY <2>1 DEF Ack, Lane
    <3> QED
      <4> DEFINE b == IF act[c].do = "read" THEN s.data ELSE act[c].byte
      <4>1. r = [step |-> "clear", do |-> act[c].do, try |-> act[c].try, byte |-> b]
        BY <2>1
      <4>2. act' = [act EXCEPT ![c] = [[act[c] EXCEPT !.step = "clear"] EXCEPT !.byte = b]]
        BY <1>1, <3>1 DEF ContextTypes
      <4> HIDE DEF b, r
      <4>3. [[act[c] EXCEPT !.step = "clear"] EXCEPT !.byte = b] = r
        <5>1. [[act[c] EXCEPT !.step = "clear"] EXCEPT !.byte = b]
                = [step |-> "clear", do |-> act[c].do, try |-> act[c].try, byte |-> b]
          <6>1. PICK a, d, t, y : /\ a = act[c] /\ d = act[c].do /\ t = act[c].try
                                  /\ a = [step |-> "ack", do |-> d, try |-> t, byte |-> y]
            BY <1>3
          <6>2. PICK e : e = [a EXCEPT !.step = "clear"]
            OBVIOUS
          <6>3. e = [step |-> "clear", do |-> d, try |-> t, byte |-> y]
            BY <6>1, <6>2
          <6>4. [e EXCEPT !.byte = b] = [step |-> "clear", do |-> d, try |-> t, byte |-> b]
            BY <6>3
          <6> QED
            BY <6>1, <6>2, <6>4
        <5> QED
          BY <4>1, <5>1, Zenon
      <4> QED
        BY <4>2, <4>3
  <2>2. CASE ~ok
    BY <2>2 DEF Ack, Lane, Goto
  <2> QED
    BY <2>1, <2>2
<1>5. /\ UNCHANGED <<kind, device, ctl, status, reg, sram, pll, orig, mod, op, i, refused>>
      /\ UNCHANGED <<gaveUp, overlap, boot>>
      /\ early' \in Nat
  BY <1>1 DEF Ack, bus, phy, faults, past, ContextTypes
<1>6. /\ r.do = act[c].do /\ r.try = act[c].try
      /\ r = [step |-> r.step, do |-> r.do, try |-> r.try, byte |-> r.byte]
      /\ r.step = IF ok THEN "clear" ELSE "reset"
      /\ ok => r.byte = IF act[c].do = "read" THEN s.data ELSE act[c].byte
      /\ ~ok => r.byte = act[c].byte
  BY <1>3
<1> HIDE DEF r
<1>7. /\ ContextTypes' /\ OrderOK' /\ act'[c] = r /\ Busy(c)'
      /\ Current(c)' = Current(c) /\ Lane(c)' = Lane(c)
  BY <1>1, <1>2, <1>4, <1>5, <1>6, MoveTypes DEF ContextTypes, WorkOK
<1>8. BusTypes'
  BY <1>1, <1>5 DEF BusTypes, StatusOK, Pending, IsDividers, IsWord
<1>9. ASSUME ~overlap' PROVE TransactionOK(c)'
  <2>1. TransactionOK(c) /\ AtAck(c) /\ \A l \in Lanes \ {Lane(c)} : Quiet(l)
    BY <1>1, <1>5, <1>9 DEF TransactionOK
  <2>2. \A l \in Lanes \ {Lane(c)} : Quiet(l)'
    BY <1>5, <2>1 DEF Quiet, Prompt
  <2>3. CASE ok
    <3>1. ~Pending(Lane(c))
      <4>1. SUFFICES ASSUME Pending(Lane(c)) PROVE FALSE
        OBVIOUS
      <4>2. ~Prompt /\ s = NoReply
        BY <1>1, <2>1, <4>1 DEF AtAck
      <4>3. kind = "c10"
        BY <1>1, <4>2 DEF ContextTypes, Reliable
      <4> QED
        BY <1>2, <2>3, <4>2, <4>3 DEF Accepted, NoReply, WorkOK
    <3>2. ~s.error /\ Answered(c)
      BY <2>1, <2>3, <3>1 DEF AtAck, Accepted
    <3>3. AtClear(c)'
      <4>1. ~Pending(Lane(c))'
        BY <1>5, <1>7, <3>1 DEF Pending
      <4>2. act[c].do = "read" => act'[c].byte = reg'[Lane(c)'][Current(c)'.reg]
        BY <1>5, <1>6, <1>7, <2>3, <3>2 DEF Answered
      <4>3. act[c].do = "write" => Performed(Lane(c), Current(c).reg, act[c].byte)'
        BY <1>5, <1>6, <1>7, <2>3, <3>2 DEF Answered, Performed
      <4> QED
        BY <1>5, <1>6, <1>7, <3>2, <4>1, <4>2, <4>3 DEF AtClear
    <3> QED
      BY <1>6, <1>7, <2>2, <2>3, <3>3 DEF TransactionOK
  <2>4. CASE ~ok
    <3>1. AtReset(c)'
      <4>1. Command(c)' = Command(c)
        BY <1>6, <1>7, <2>4 DEF Command
      <4> QED
        BY <1>1, <1>5, <1>7, <2>1, <4>1 DEF AtReset, AtAck, Pending, Prompt
    <3> QED
      BY <1>6, <1>7, <2>2, <2>4, <3>1 DEF TransactionOK
  <2> QED
    BY <2>3, <2>4
<1>10. ASSUME ~overlap', Prompt' PROVE TriesOK(c)' /\ (gaveUp' => refused' >= 3)
  <2>1. /\ TriesOK(c) /\ (gaveUp => refused >= 3) /\ AtAck(c) /\ ~Pending(Lane(c))
    BY <1>1, <1>5, <1>10 DEF TransactionOK, Prompt
  <2>2. ~ok => s.error
    BY <1>2, <2>1 DEF AtAck, Answered, Accepted, WorkOK
  <2> QED
    BY <1>1, <1>5, <1>6, <1>7, <2>1, <2>2 DEF TriesOK
<1> QED
  BY <1>7, <1>8, <1>9, <1>10, OnlyOne

\* One value of a function changes.
LEMMA OneChanged ==
  ASSUME NEW D, NEW f, f = [x \in D |-> f[x]], NEW a \in D, NEW v, NEW g,
         g = [f EXCEPT ![a] = v]
  PROVE  /\ g = [x \in D |-> g[x]] /\ g[a] = v
         /\ \A x \in D \ {a} : g[x] = f[x]
OBVIOUS

\* What the PHY does with a byte that is written.
LEMMA PerformIs ==
  ASSUME BusTypes, NEW l \in Lanes, NEW t, t.reg \in Registers, Perform(l, t)
  PROVE  /\ Performed(l, t.reg, t.data)'
         /\ reg' = [k \in Lanes |-> [r \in Registers |-> reg'[k][r]]]
         /\ IsDividers(sram)' /\ IsDividers(pll)'
         /\ \A k \in Lanes \ {l} : reg'[k] = reg[k]
         /\ \A r \in Registers \ {t.reg, "RD_DATA_H", "RD_DATA_L"} : reg'[l][r] = reg[l][r]
         /\ t.reg # "RD_ADDRESS_L" =>
              \A r \in Registers \ {t.reg} : reg'[l][r] = reg[l][r]
         /\ t.reg # "WR_DATA_L" => sram' = sram
         /\ reg[l].WR_ADDRESS_L # {"quot"} => sram'.quot = sram.quot
         /\ reg[l].WR_ADDRESS_L # {"rem"} => sram'.rem = sram.rem
         /\ t.reg \notin {"CONTROL", "WR_DATA_L"} => pll' = pll
         /\ t.reg = "CONTROL" => pll' = pll \/ (l = 0 /\ pll'.rem = pll.rem
              /\ pll'.quot = [hi |-> reg[0].QUOT_HIGH, lo |-> reg[0].QUOT_LOW])
<1> DEFINE v == IF t.reg = "CONTROL" THEN t.data \ {"update"} ELSE t.data
<1>1. PICK after : after = [reg[l] EXCEPT ![t.reg] = v]
  OBVIOUS
<1> DEFINE cell == Selected(after.WR_ADDRESS_H, after.WR_ADDRESS_L)
           wanted == Selected(after.RD_ADDRESS_H, after.RD_ADDRESS_L)
           word == [hi |-> after.WR_DATA_H, lo |-> after.WR_DATA_L]
<1>2. /\ sram' = CASE t.reg = "WR_DATA_L" /\ cell = {"quot"} -> [sram EXCEPT !.quot = word]
                   [] t.reg = "WR_DATA_L" /\ cell = {"rem"}  -> [sram EXCEPT !.rem = word]
                   [] OTHER -> sram
      /\ pll' = CASE t.reg = "CONTROL" /\ l = 0 /\ "update" \in t.data ->
                       [pll EXCEPT !.quot = [hi |-> after.QUOT_HIGH, lo |-> after.QUOT_LOW]]
                  [] t.reg = "WR_DATA_L" /\ cell = {"frac_update"} -> sram
                  [] OTHER -> pll
      /\ reg' = [reg EXCEPT ![l] =
           IF t.reg = "RD_ADDRESS_L" /\ wanted \in {{"quot"}, {"rem"}}
           THEN LET f == IF wanted = {"quot"} THEN "quot" ELSE "rem"
                IN  [after EXCEPT !.RD_DATA_H = sram[f].hi, !.RD_DATA_L = sram[f].lo]
           ELSE after]
  <2>1. after = [reg[l] EXCEPT ![t.reg] = IF t.reg = "CONTROL" THEN t.data \ {"update"}
                                           ELSE t.data]
    BY <1>1
  <2> HIDE DEF v
  <2> QED
    BY <2>1 DEF Perform
<1>3. /\ after = [r \in Registers |-> after[r]] /\ after[t.reg] = v
      /\ \A r \in Registers \ {t.reg} : after[r] = reg[l][r]
  <2>1. reg[l] = [r \in Registers |-> reg[l][r]]
    BY DEF BusTypes
  <2> HIDE DEF v
  <2> QED
    BY <1>1, <2>1, OneChanged
<1>4. /\ {"quot"} # {"rem"} /\ {"quot"} # {"frac_update"} /\ {"rem"} # {"frac_update"}
      /\ {"quot"} # {} /\ {"rem"} # {} /\ {"frac_update"} # {}
  <2>1. /\ "quot" \in {"quot"} /\ "quot" \notin {"rem"} /\ "quot" \notin {"frac_update"}
        /\ "rem" \in {"rem"} /\ "rem" \notin {"frac_update"} /\ "rem" \notin {}
        /\ "quot" \notin {} /\ "frac_update" \in {"frac_update"} /\ "frac_update" \notin {}
    OBVIOUS
  <2> QED
    BY <2>1, Zenon
<1>5. CASE t.reg = "RD_ADDRESS_L" /\ wanted \in {{"quot"}, {"rem"}}
  <2>1. PICK f : f = (IF wanted = {"quot"} THEN "quot" ELSE "rem")
    OBVIOUS
  <2>2. /\ reg' = [reg EXCEPT ![l] =
                     [after EXCEPT !.RD_DATA_H = sram[f].hi, !.RD_DATA_L = sram[f].lo]]
        /\ sram' = sram /\ pll' = pll
    BY <1>2, <1>5, <2>1
  <2>3. /\ reg'[l] = [after EXCEPT !.RD_DATA_H = sram[f].hi, !.RD_DATA_L = sram[f].lo]
        /\ \A k \in Lanes \ {l} : reg'[k] = reg[k]
        /\ reg' = [k \in Lanes |-> reg'[k]]
    BY <2>2 DEF BusTypes
  <2>4. /\ reg'[l] = [r \in Registers |-> reg'[l][r]]
        /\ reg'[l].RD_DATA_H = sram[f].hi /\ reg'[l].RD_DATA_L = sram[f].lo
        /\ \A r \in Registers \ {"RD_DATA_H", "RD_DATA_L"} : reg'[l][r] = after[r]
    <3>1. PICK half : half = [after EXCEPT !["RD_DATA_H"] = sram[f].hi]
      OBVIOUS
    <3>2. "RD_DATA_H" \in Registers /\ "RD_DATA_L" \in Registers
      BY DEF Registers, Addresses
    <3>3. /\ half = [r \in Registers |-> half[r]] /\ half["RD_DATA_H"] = sram[f].hi
          /\ \A r \in Registers \ {"RD_DATA_H"} : half[r] = after[r]
      BY <1>3, <3>1, <3>2, OneChanged
    <3>4. reg'[l] = [half EXCEPT !["RD_DATA_L"] = sram[f].lo]
      BY <2>3, <3>1
    <3>5. /\ reg'[l] = [r \in Registers |-> reg'[l][r]] /\ reg'[l]["RD_DATA_L"] = sram[f].lo
          /\ \A r \in Registers \ {"RD_DATA_L"} : reg'[l][r] = half[r]
      BY <3>2, <3>3, <3>4, OneChanged
    <3> QED
      BY <3>2, <3>3, <3>5
  <2>5. reg' = [k \in Lanes |-> [r \in Registers |-> reg'[k][r]]]
    <3>1. \A k \in Lanes \ {l} : reg[k] = [r \in Registers |-> reg[k][r]]
      BY DEF BusTypes
    <3>2. \A k \in Lanes : reg'[k] = [r \in Registers |-> reg'[k][r]]
      BY <2>3, <2>4, <3>1
    <3> QED
      BY <2>3, <3>2
  <2>6. /\ reg'[l].RD_ADDRESS_H = after.RD_ADDRESS_H /\ reg'[l].RD_ADDRESS_L = t.data
        /\ after.RD_ADDRESS_L = t.data
    <3>1. after["RD_ADDRESS_L"] = t.data
      BY <1>3, <1>5
    <3>2. "RD_ADDRESS_L" \in Registers \ {"RD_DATA_H", "RD_DATA_L"}
          /\ "RD_ADDRESS_H" \in Registers \ {"RD_DATA_H", "RD_DATA_L"}
      BY DEF Registers, Addresses
    <3> QED
      BY <2>4, <3>1, <3>2
  <2>7. Performed(l, t.reg, t.data)'
    <3>1. reg'[l].RD_ADDRESS_H = {"page"} => wanted = t.data
      BY <2>6 DEF Selected
    <3>2. wanted = {"quot"} => f = "quot"
      BY <2>1
    <3>3. wanted = {"rem"} => f = "rem"
      BY <1>4, <2>1
    <3>4. reg'[l]["RD_ADDRESS_L"] = t.data
      BY <2>6
    <3> HIDE DEF wanted
    <3>5. reg'[l].RD_ADDRESS_H = {"page"} =>
            /\ t.data = {"quot"} => /\ reg'[l].RD_DATA_H = sram'.quot.hi
                                   /\ reg'[l].RD_DATA_L = sram'.quot.lo
            /\ t.data = {"rem"} => /\ reg'[l].RD_DATA_H = sram'.rem.hi
                                  /\ reg'[l].RD_DATA_L = sram'.rem.lo
      BY <2>2, <2>4, <3>1, <3>2, <3>3
    <3> QED
      BY <1>5, <3>4, <3>5 DEF Performed
  <2> QED
    BY <1>3, <1>5, <2>2, <2>3, <2>4, <2>5, <2>7 DEF BusTypes, IsDividers, IsWord
<1>6. CASE ~(t.reg = "RD_ADDRESS_L" /\ wanted \in {{"quot"}, {"rem"}})
  <2>1. /\ reg' = [reg EXCEPT ![l] = after]
    BY <1>2, <1>6
  <2>2. /\ reg'[l] = after /\ \A k \in Lanes \ {l} : reg'[k] = reg[k]
        /\ reg' = [k \in Lanes |-> reg'[k]]
    BY <2>1 DEF BusTypes
  <2>3. reg' = [k \in Lanes |-> [r \in Registers |-> reg'[k][r]]]
    BY <1>3, <2>2 DEF BusTypes
  <2>4. CASE t.reg = "CONTROL"
    <3>1. sram' = sram
      BY <1>2, <2>4
    <3>2. after.QUOT_HIGH = reg[l].QUOT_HIGH /\ after.QUOT_LOW = reg[l].QUOT_LOW
      BY <1>3, <2>4 DEF Registers, Quotients
    <3>3. CASE l = 0 /\ "update" \in t.data
      <4>1. pll' = [pll EXCEPT !.quot = [hi |-> reg[0].QUOT_HIGH, lo |-> reg[0].QUOT_LOW]]
        BY <1>2, <2>4, <3>2, <3>3
      <4>2. /\ pll'.quot = [hi |-> reg[0].QUOT_HIGH, lo |-> reg[0].QUOT_LOW]
            /\ pll'.rem = pll.rem /\ IsDividers(pll)'
        BY <4>1 DEF BusTypes, IsDividers, IsWord
      <4>3. Performed(l, t.reg, t.data)'
        BY <1>3, <2>2, <2>4, <3>2, <3>3, <4>2 DEF Performed
      <4> QED
        BY <1>3, <2>2, <2>3, <2>4, <3>1, <3>3, <4>2, <4>3 DEF BusTypes, IsDividers, IsWord
    <3>4. CASE ~(l = 0 /\ "update" \in t.data)
      <4>1. pll' = pll
        BY <1>2, <2>4, <3>4
      <4>2. Performed(l, t.reg, t.data)'
        BY <1>3, <2>2, <2>4, <3>4 DEF Performed
      <4> QED
        BY <1>3, <2>2, <2>3, <2>4, <3>1, <4>1, <4>2 DEF BusTypes, IsDividers, IsWord
    <3> QED
      BY <3>3, <3>4
  <2>5. CASE t.reg = "WR_DATA_L"
    <3>1. /\ after.WR_DATA_L = t.data
          /\ reg'[l].WR_ADDRESS_H = after.WR_ADDRESS_H /\ reg'[l].WR_ADDRESS_L = after.WR_ADDRESS_L
          /\ reg'[l].WR_DATA_H = after.WR_DATA_H
      BY <1>3, <2>2, <2>5
    <3>2. cell = {"quot"} => sram' = [sram EXCEPT !.quot = word] /\ pll' = pll
      BY <1>2, <1>4, <2>5
    <3>3. cell = {"rem"} => sram' = [sram EXCEPT !.rem = word] /\ pll' = pll
      BY <1>2, <1>4, <2>5
    <3>4. cell = {"frac_update"} => sram' = sram /\ pll' = sram
      BY <1>2, <1>4, <2>5
    <3>5. cell \notin {{"quot"}, {"rem"}, {"frac_update"}} => sram' = sram /\ pll' = pll
      BY <1>2, <2>5
    <3>6. word.hi = after.WR_DATA_H /\ word.lo = t.data /\ IsWord(word)
      BY <3>1 DEF IsWord
    <3> HIDE DEF word
    <3>7. IsDividers(sram)' /\ IsDividers(pll)'
      BY <3>2, <3>3, <3>4, <3>5, <3>6 DEF BusTypes, IsDividers, IsWord
    <3>8. /\ cell = {"quot"} => sram'.quot = word
          /\ cell = {"rem"} => sram'.rem = word
      BY <3>2, <3>3 DEF BusTypes, IsDividers
    <3>9. word = [hi |-> reg'[l].WR_DATA_H, lo |-> t.data]
      BY <3>1 DEF word
    <3>10. reg'[l].WR_ADDRESS_H = {"page"} => cell = reg'[l].WR_ADDRESS_L
      BY <3>1 DEF Selected
    <3>11. reg'[l][t.reg] = t.data
      BY <2>2, <2>5, <3>1
    <3>12. Performed(l, t.reg, t.data)'
      BY <2>5, <3>4, <3>8, <3>9, <3>10, <3>11 DEF Performed
    <3>13. after.WR_ADDRESS_L = reg[l].WR_ADDRESS_L
      BY <1>3, <2>5 DEF Registers, Addresses
    <3>14. cell = {"quot"} \/ cell = {"rem"} => cell = reg[l].WR_ADDRESS_L
      BY <1>4, <3>13, Zenon DEF Selected
    <3> HIDE DEF cell
    <3>15. /\ cell # {"quot"} => sram'.quot = sram.quot
           /\ cell # {"rem"} => sram'.rem = sram.rem
      BY <1>4, <3>2, <3>3, <3>4, <3>5 DEF BusTypes, IsDividers
    <3>16. /\ reg[l].WR_ADDRESS_L # {"quot"} => sram'.quot = sram.quot
           /\ reg[l].WR_ADDRESS_L # {"rem"} => sram'.rem = sram.rem
      BY <3>14, <3>15, Zenon
    <3> QED
      BY <1>3, <2>2, <2>3, <2>5, <3>7, <3>12, <3>16
  <2>6. CASE t.reg \notin {"CONTROL", "WR_DATA_L"}
    <3>1. sram' = sram /\ pll' = pll
      BY <1>2, <2>6
    <3>2. t.reg = "RD_ADDRESS_L" /\ reg'[l].RD_ADDRESS_H = {"page"} =>
            t.data # {"quot"} /\ t.data # {"rem"}
      BY <1>3, <1>6, <2>2 DEF Selected
    <3>3. Performed(l, t.reg, t.data)'
      BY <1>3, <2>2, <2>6, <3>2 DEF Performed
    <3> QED
      BY <1>3, <2>2, <2>3, <2>6, <3>1, <3>3 DEF BusTypes, IsDividers, IsWord
  <2> QED
    BY <2>4, <2>5, <2>6
<1> QED
  BY <1>5, <1>6

\* The steps of the PHY: no context moves.
LEMMA DeviceTypes ==
  ASSUME ContextTypes, OrderOK, refused' \in Nat,
         UNCHANGED <<kind, device, orig, mod, op, i, act, early, gaveUp, overlap>>
  PROVE  /\ ContextTypes' /\ OrderOK'
         /\ \A c \in Contexts : /\ Busy(c)' <=> Busy(c)
                                /\ Busy(c) => Current(c)' = Current(c) /\ Lane(c)' = Lane(c)
<1>1. \A d \in Contexts : /\ Busy(d)' <=> Busy(d)
                          /\ Busy(d) => Current(d)' = Current(d) /\ Lane(d)' = Lane(d)
                          /\ Busy(d) => (WorkOK(d)' <=> WorkOK(d))
  BY StaysOK
<1>2. OrderOK' /\ Reliable'
  BY DEF OrderOK, ContextTypes, Reliable, Prompt
<1> QED
  BY <1>1, <1>2 DEF ContextTypes

\* A command that is under way is that of the context at work.
LEMMA WhosePending ==
  ASSUME TransactionInv, ~overlap, NEW l \in Lanes, Pending(l)
  PROVE  \E c \in Contexts : /\ Busy(c) /\ Lane(c) = l /\ TransactionOK(c)
                             /\ act[c].step \in {"ack", "reset"} /\ ctl[l] = Command(c)
                             /\ act[c].step = "reset" => ~Prompt
<1>1. PICK c \in Contexts : Busy(c)
  BY DEF TransactionInv, Pending, Quiet
<1>2. TransactionOK(c)
  BY <1>1 DEF TransactionInv
<1>3. Lane(c) = l /\ act[c].step # "send"
  BY <1>2 DEF TransactionOK, AtSend, Quiet, Pending
<1>4. act[c].step \in {"send", "ack", "clear", "reset"}
  BY <1>1 DEF TransactionInv, ContextTypes, WorkOK
<1>5. /\ act[c].step # "clear" /\ ctl[l] = Command(c)
      /\ act[c].step = "reset" => ~Prompt
  BY <1>2, <1>3, <1>4 DEF TransactionOK, AtAck, AtClear, AtReset
<1> QED
  BY <1>1, <1>2, <1>3, <1>4, <1>5

IsAnswer(s) ==
  \E e \in BOOLEAN : \E type, byte : s = [error |-> e, type |-> type, data |-> byte]

\* A new answer.
LEMMA StatusIs ==
  ASSUME StatusOK, NEW l \in Lanes, NEW s, IsAnswer(s),
         status' = [status EXCEPT ![l] = s]
  PROVE  /\ StatusOK' /\ status'[l] = s
         /\ \A k \in Lanes \ {l} : status'[k] = status[k]
<1>3. PICK e \in BOOLEAN : \E type, byte : s = [error |-> e, type |-> type, data |-> byte]
  BY DEF IsAnswer
<1>1. PICK type, byte : s = [error |-> e, type |-> type, data |-> byte]
  BY <1>3
<1>2. s.error = e /\ s = [error |-> s.error, type |-> s.type, data |-> s.data]
  BY <1>1
<1> QED
  BY <1>2 DEF StatusOK

LEMMA ErrorIs ==
  ASSUME NEW s, IsAnswer(s), NEW e \in BOOLEAN, NEW t, t = [s EXCEPT !.error = e]
  PROVE  IsAnswer(t) /\ t.error = e /\ t.type = s.type /\ t.data = s.data
<1>3. PICK f \in BOOLEAN : \E type, byte : s = [error |-> f, type |-> type, data |-> byte]
  BY DEF IsAnswer
<1>1. PICK type, byte : s = [error |-> f, type |-> type, data |-> byte]
  BY <1>3
<1>2. t = [error |-> e, type |-> type, data |-> byte]
  BY <1>1
<1> QED
  BY <1>1, <1>2 DEF IsAnswer

LEMMA StatusParts ==
  ASSUME StatusOK, NEW l \in Lanes
  PROVE  IsAnswer(status[l])
BY DEF StatusOK, IsAnswer

LEMMA AnswerInv ==
  ASSUME TransactionInv, NEW l \in Lanes, Answer(l)
  PROVE  TransactionInv'
<1>1. BusTypes /\ ContextTypes /\ OrderOK /\ Pending(l) /\ ctl[l].reg \in Registers
  BY DEF TransactionInv, BusTypes, Answer
<1>2. /\ UNCHANGED <<kind, device, orig, mod, op, i, act, refused, early>>
      /\ UNCHANGED <<gaveUp, overlap, boot>>
      /\ ctl' = [ctl EXCEPT ![l] = Idle]
  BY DEF Answer, faults, past
<1>3. /\ ctl'[l] = Idle /\ \A k \in Lanes \ {l} : ctl'[k] = ctl[k]
      /\ ctl' = [k \in Lanes |-> ctl'[k]] /\ ~Pending(l)'
      /\ \A k \in Lanes : Pending(k)' => Pending(k) /\ ctl'[k] = ctl[k]
  BY <1>1, <1>2 DEF BusTypes, Pending
<1>4. /\ ContextTypes' /\ OrderOK'
      /\ \A c \in Contexts : /\ Busy(c)' <=> Busy(c)
                             /\ Busy(c) => Current(c)' = Current(c) /\ Lane(c)' = Lane(c)
  BY <1>1, <1>2, DeviceTypes DEF ContextTypes
<1>5. /\ StatusOK' /\ \A k \in Lanes \ {l} : status'[k] = status[k]
      /\ \/ /\ ctl[l].cmd = "read" /\ UNCHANGED <<reg, sram, pll>>
            /\ status'[l] = [error |-> FALSE, type |-> "read_ack",
                             data |-> reg[l][ctl[l].reg]]
         \/ /\ ctl[l].cmd = "committed" /\ Perform(l, ctl[l])
            /\ status'[l] = [error |-> FALSE, type |-> "write_ack", data |-> {}]
         \/ ctl[l].cmd = "uncommitted" /\ Perform(l, ctl[l]) /\ status' = status
  <2>1. StatusOK
    BY <1>1 DEF BusTypes
  <2>2. CASE /\ ctl[l].cmd = "read" /\ UNCHANGED phy
             /\ status' = [status EXCEPT ![l] = [error |-> FALSE, type |-> "read_ack",
                                                data |-> reg[l][ctl[l].reg]]]
    <3>1. PICK byte, s : /\ byte = reg[l][ctl[l].reg]
                         /\ s = [error |-> FALSE, type |-> "read_ack", data |-> byte]
      OBVIOUS
    <3>2. status' = [status EXCEPT ![l] = s]
      BY <2>2, <3>1
    <3>3. StatusOK' /\ status'[l] = s /\ \A k \in Lanes \ {l} : status'[k] = status[k]
      <4>1. IsAnswer(s)
        BY <3>1 DEF IsAnswer
      <4> QED
        BY <2>1, <3>2, <4>1, StatusIs, Zenon
    <3>4. UNCHANGED <<reg, sram, pll>>
      BY <2>2 DEF phy
    <3>5. status'[l] = [error |-> FALSE, type |-> "read_ack", data |-> reg[l][ctl[l].reg]]
      BY <3>1, <3>3
    <3> QED
      BY <2>2, <3>3, <3>4, <3>5
  <2>3. CASE /\ ctl[l].cmd = "committed" /\ Perform(l, ctl[l])
             /\ status' = [status EXCEPT ![l] = [error |-> FALSE, type |-> "write_ack",
                                                data |-> {}]]
    <3>1. PICK s : s = [error |-> FALSE, type |-> "write_ack", data |-> {}]
      OBVIOUS
    <3>2. status' = [status EXCEPT ![l] = s]
      BY <2>3, <3>1, Zenon
    <3>3. StatusOK' /\ status'[l] = s /\ \A k \in Lanes \ {l} : status'[k] = status[k]
      BY <2>1, <3>1, <3>2, StatusIs DEF IsAnswer
    <3> QED
      BY <2>3, <3>1, <3>3, Zenon
  <2>4. CASE ctl[l].cmd = "uncommitted" /\ Perform(l, ctl[l]) /\ status' = status
    <3>1. StatusOK'
      BY <2>1, <2>4 DEF StatusOK
    <3> QED
      BY <2>4, <3>1, Zenon
  <2> QED
    BY <2>2, <2>3, <2>4, Zenon DEF Answer
<1>6. BusTypes'
  <2>1. /\ reg' = [k \in Lanes |-> [r \in Registers |-> reg'[k][r]]]
        /\ IsDividers(sram)' /\ IsDividers(pll)'
    <3>1. CASE UNCHANGED <<reg, sram, pll>>
      BY <1>1, <3>1 DEF BusTypes, IsDividers, IsWord
    <3>2. CASE Perform(l, ctl[l])
      <4>1. PICK t : t = ctl[l]
        OBVIOUS
      <4> QED
        BY <1>1, <3>2, <4>1, PerformIs, Zenon
    <3> QED
      BY <1>5, <3>1, <3>2
  <2>3. IsDividers(orig)' /\ IsDividers(boot)'
    BY <1>1, <1>2 DEF BusTypes, IsDividers, IsWord
  <2>4. \A k \in Lanes : Pending(k)' =>
          /\ ctl'[k].reg \in Registers
          /\ kind' = "c10" => ctl'[k].reg \in Modified2 \cup Quotients
    BY <1>1, <1>2, <1>3 DEF BusTypes
  <2> QED
    BY <1>3, <1>5, <2>1, <2>3, <2>4 DEF BusTypes
<1>7. CASE overlap
  BY <1>2, <1>4, <1>6, <1>7 DEF TransactionInv
<1>8. CASE ~overlap
  <2>1. PICK c \in Contexts : /\ Busy(c) /\ Lane(c) = l /\ TransactionOK(c)
                              /\ act[c].step \in {"ack", "reset"} /\ ctl[l] = Command(c)
                              /\ act[c].step = "reset" => ~Prompt
    BY <1>1, <1>8, WhosePending, Zenon
  <2>2. /\ act' = act /\ Busy(c)' /\ Current(c)' = Current(c) /\ Lane(c)' = l
        /\ act[c].do \in {"read", "write"}
    BY <1>1, <1>2, <1>4, <2>1 DEF ContextTypes, WorkOK
  <2>3. \A k \in Lanes \ {l} : Quiet(k)'
    <3>1. \A k \in Lanes \ {l} : Quiet(k)
      BY <2>1 DEF TransactionOK
    <3> QED
      BY <1>2, <1>3, <1>5, <3>1 DEF Quiet, Prompt
  <2>4. ASSUME act[c].step = "ack" PROVE ~status'[l].error /\ AtAck(c)'
    <3>1. ~status[l].error /\ ctl[l] = Command(c)
      BY <1>1, <2>1, <2>4 DEF TransactionOK, AtAck
    <3>2. ~status'[l].error
      BY <1>5, <3>1
    <3>3. CASE act[c].do = "read"
      <4>1. ctl[l].cmd = "read" /\ ctl[l].reg = Current(c).reg
        BY <3>1, <3>3 DEF Command
      <4>2. status'[l].type = "read_ack" /\ status'[l].data = reg'[l][Current(c).reg]
        BY <1>5, <4>1
      <4> QED
        BY <1>3, <2>2, <3>2, <3>3, <4>2 DEF AtAck, Answered
    <3>4. CASE act[c].do = "write"
      <4>1. /\ ctl[l].cmd = IF Current(c).committed THEN "committed" ELSE "uncommitted"
            /\ ctl[l].reg = Current(c).reg /\ ctl[l].data = act[c].byte
        BY <3>1, <3>4 DEF Command
      <4>2. /\ Perform(l, ctl[l])
            /\ Current(c).committed => status'[l].type = "write_ack"
        BY <1>5, <4>1
      <4>3. Performed(l, Current(c).reg, act[c].byte)'
        <5>1. PICK t, r, byte : t = ctl[l] /\ r = Current(c).reg /\ byte = act[c].byte
          OBVIOUS
        <5>2. t.reg = r /\ t.data = byte /\ r \in Registers /\ Perform(l, t)
          BY <1>1, <4>1, <4>2, <5>1
        <5>3. Performed(l, r, byte)'
          BY <1>1, <5>2, PerformIs, Zenon
        <5>4. r = Current(c)'.reg /\ byte = act'[c].byte
          BY <2>2, <5>1
        <5> QED
          BY <5>3, <5>4 DEF Performed
      <4> QED
        BY <1>3, <2>2, <3>2, <3>4, <4>2, <4>3 DEF AtAck, Answered, Performed
    <3> QED
      BY <2>2, <3>2, <3>3, <3>4
  <2>5. TransactionOK(c)'
    <3>1. AtReset(c)'
      BY <1>3, <2>2 DEF AtReset
    <3> QED
      BY <2>1, <2>2, <2>3, <2>4, <3>1 DEF TransactionOK
  <2>6. ASSUME Prompt' PROVE TriesOK(c)' /\ (gaveUp' => refused' >= 3)
    <3>1. TriesOK(c) /\ (gaveUp => refused >= 3) /\ act[c].step = "ack"
      BY <1>2, <1>8, <2>1, <2>6 DEF TransactionInv, Prompt
    <3> QED
      BY <1>2, <2>2, <2>4, <3>1 DEF TriesOK
  <2> QED
    BY <1>4, <1>6, <2>2, <2>5, <2>6, OnlyOne
<1> QED
  BY <1>7, <1>8

LEMMA RefuseInv ==
  ASSUME TransactionInv, NEW l \in Lanes, Refuse(l)
  PROVE  TransactionInv'
<1>1. BusTypes /\ ContextTypes /\ OrderOK /\ Pending(l)
  BY DEF TransactionInv, Refuse
<1>2. /\ UNCHANGED <<kind, device, reg, sram, pll, orig, mod, op, i, act, early>>
      /\ UNCHANGED <<gaveUp, overlap, boot>>
      /\ ctl' = [ctl EXCEPT ![l] = Idle] /\ status' = [status EXCEPT ![l].error = TRUE]
      /\ refused' = refused + 1 /\ refused \in Nat
  BY <1>1 DEF Refuse, phy, past, ContextTypes
<1>3. /\ ctl'[l] = Idle /\ \A k \in Lanes \ {l} : ctl'[k] = ctl[k]
      /\ ctl' = [k \in Lanes |-> ctl'[k]] /\ ~Pending(l)'
      /\ \A k \in Lanes : Pending(k)' => Pending(k) /\ ctl'[k] = ctl[k]
  BY <1>1, <1>2 DEF BusTypes, Pending
<1>4. /\ ContextTypes' /\ OrderOK'
      /\ \A c \in Contexts : /\ Busy(c)' <=> Busy(c)
                             /\ Busy(c) => Current(c)' = Current(c) /\ Lane(c)' = Lane(c)
  BY <1>1, <1>2, DeviceTypes
<1>5. /\ StatusOK' /\ \A k \in Lanes \ {l} : status'[k] = status[k]
      /\ status'[l].error
  <2>1. StatusOK /\ IsAnswer(status[l])
    BY <1>1, StatusParts DEF BusTypes
  <2>2. PICK s : s = [status[l] EXCEPT !.error = TRUE]
    OBVIOUS
  <2>3. IsAnswer(s) /\ s.error = TRUE
    BY <2>1, <2>2, ErrorIs
  <2>4. status' = [status EXCEPT ![l] = s]
    BY <1>2, <2>2
  <2>5. StatusOK' /\ status'[l] = s /\ \A k \in Lanes \ {l} : status'[k] = status[k]
    BY <2>1, <2>3, <2>4, StatusIs, Zenon
  <2> QED
    BY <2>3, <2>5
<1>6. BusTypes'
  <2>1. /\ reg' = [k \in Lanes |-> [r \in Registers |-> reg'[k][r]]]
        /\ IsDividers(sram)' /\ IsDividers(pll)' /\ IsDividers(orig)' /\ IsDividers(boot)'
    BY <1>1, <1>2 DEF BusTypes, IsDividers, IsWord
  <2>2. \A k \in Lanes : Pending(k)' =>
          /\ ctl'[k].reg \in Registers
          /\ kind' = "c10" => ctl'[k].reg \in Modified2 \cup Quotients
    BY <1>1, <1>2, <1>3 DEF BusTypes
  <2> QED
    BY <1>3, <1>5, <2>1, <2>2 DEF BusTypes
<1>7. CASE overlap
  BY <1>2, <1>4, <1>6, <1>7 DEF TransactionInv
<1>8. CASE ~overlap
  <2>1. PICK c \in Contexts : /\ Busy(c) /\ Lane(c) = l /\ TransactionOK(c)
                              /\ act[c].step \in {"ack", "reset"} /\ ctl[l] = Command(c)
                              /\ act[c].step = "reset" => ~Prompt
    BY <1>1, <1>8, WhosePending, Zenon
  <2>2. act' = act /\ Busy(c)' /\ Current(c)' = Current(c) /\ Lane(c)' = l
    BY <1>2, <1>4, <2>1
  <2>3. \A k \in Lanes \ {l} : Quiet(k)'
    <3>1. \A k \in Lanes \ {l} : Quiet(k)
      BY <2>1 DEF TransactionOK
    <3> QED
      BY <1>2, <1>3, <1>5, <3>1 DEF Quiet, Prompt
  <2>4. TransactionOK(c)'
    BY <1>3, <1>5, <2>1, <2>2, <2>3 DEF TransactionOK, AtAck, AtReset
  <2>5. ASSUME Prompt' PROVE TriesOK(c)' /\ (gaveUp' => refused' >= 3)
    <3>1. /\ TriesOK(c) /\ (gaveUp => refused >= 3) /\ act[c].step = "ack"
          /\ act[c].try \in 1 .. 3
      BY <1>1, <1>2, <1>8, <2>1, <2>5 DEF TransactionInv, Prompt, ContextTypes, WorkOK
    <3> QED
      BY <1>2, <2>2, <3>1 DEF TriesOK
  <2> QED
    BY <1>4, <1>6, <2>2, <2>4, <2>5, OnlyOne
<1> QED
  BY <1>7, <1>8
\* The flag of an answer is cleared.
LEMMA ClearedIs ==
  ASSUME NEW s, IsAnswer(s), NEW t, t = Cleared(s)
  PROVE  /\ IsAnswer(t) /\ ~t.error
         /\ ~device.keeps => t = NoReply
<1>1. PICK u : u = IF device.keeps THEN s ELSE NoReply
  OBVIOUS
<1>2. IsAnswer(u)
  BY <1>1 DEF IsAnswer, NoReply
<1>3. t = [u EXCEPT !.error = FALSE]
  BY <1>1 DEF Cleared
<1>4. IsAnswer(t) /\ t.error = FALSE
  BY <1>2, <1>3, ErrorIs
<1>5. ~device.keeps => t = NoReply
  BY <1>1, <1>3 DEF NoReply
<1> QED
  BY <1>4, <1>5

\* On the lane whose flag is cleared nothing remains that could be taken for an
\* answer, once no command is under way there.
LEMMA ClearedQuiet ==
  ASSUME BusTypes, ContextTypes, NEW l \in Lanes, UNCHANGED <<kind, device>>,
         status' = [status EXCEPT ![l] = Cleared(@)]
  PROVE  /\ StatusOK' /\ \A k \in Lanes \ {l} : status'[k] = status[k]
         /\ ctl'[l] = Idle => Quiet(l)'
<1>1. StatusOK /\ IsAnswer(status[l])
  BY StatusParts DEF BusTypes
<1>2. PICK t : t = Cleared(status[l])
  OBVIOUS
<1>3. IsAnswer(t) /\ ~t.error /\ (~device.keeps => t = NoReply)
  BY <1>1, <1>2, ClearedIs
<1>4. status' = [status EXCEPT ![l] = t]
  BY <1>2
<1>5. StatusOK' /\ status'[l] = t /\ \A k \in Lanes \ {l} : status'[k] = status[k]
  BY <1>1, <1>3, <1>4, StatusIs, Zenon
<1>6. ~Prompt' => ~device.keeps
  BY DEF ContextTypes, Reliable, Prompt
<1> QED
  BY <1>3, <1>5, <1>6 DEF Quiet

\* What comes after a transaction finds the bus quiet.
LEMMA ConcludeInv ==
  ASSUME TransactionInv, NEW c \in Contexts, Busy(c), NEW byte, Conclude(c, byte),
         UNCHANGED <<kind, device, phy, faults, overlap, boot>>, gaveUp' \in BOOLEAN,
         StatusOK', ctl' = [l \in Lanes |-> ctl'[l]],
         \A l \in Lanes : Pending(l)' => Pending(l) /\ ctl'[l] = ctl[l],
         ~overlap => \A l \in Lanes : Quiet(l)',
         ~overlap /\ Prompt /\ gaveUp' => refused >= 3
  PROVE  TransactionInv'
<1>1. BusTypes /\ ContextTypes /\ OrderOK
  BY DEF TransactionInv
<1>2. /\ ContextTypes' /\ OrderOK' /\ IsDividers(orig)'
      /\ Busy(c)' => act'[c].step = "send" /\ act'[c].try = 1
  BY <1>1, ConcludeTypes DEF BusTypes
<1>3. /\ UNCHANGED <<reg, sram, pll>> /\ refused' = refused /\ (Prompt' <=> Prompt)
  BY DEF phy, faults, Prompt
<1>4. BusTypes'
  <2>1. /\ reg' = [k \in Lanes |-> [r \in Registers |-> reg'[k][r]]]
        /\ IsDividers(sram)' /\ IsDividers(pll)' /\ IsDividers(boot)'
    BY <1>1, <1>3 DEF BusTypes, IsDividers, IsWord
  <2>2. \A k \in Lanes : Pending(k)' =>
          /\ ctl'[k].reg \in Registers
          /\ kind' = "c10" => ctl'[k].reg \in Modified2 \cup Quotients
    BY <1>1 DEF BusTypes
  <2> QED
    BY <1>2, <2>1, <2>2 DEF BusTypes
<1>5. CASE overlap
  BY <1>2, <1>4, <1>5 DEF TransactionInv
<1>6. CASE ~overlap /\ Busy(c)'
  <2>1. Lane(c)' \in Lanes /\ refused' \in Nat
    <3>1. Lane(c)' \in Lanes
      <4>1. /\ ContextTypes' /\ kind' \in {"c10", "c20"} /\ op'[c] \in BusyOps
            /\ i'[c] \in Nat \ {0} /\ i'[c] <= Len(Accesses(op[c], orig, mod)')
        BY <1>2, <1>6, Cx0Assumption DEF ContextTypes, Busy, BusyOps, WorkOK
      <4>2. /\ kind \in {"c10", "c20"} /\ kind' = kind
        BY <4>1
      <4>3. /\ Len(Accesses(op'[c], orig', mod')) = Size(op'[c])
            /\ \A j \in 1 .. Size(op'[c]) : AccessOK(Accesses(op'[c], orig', mod')[j])
        BY <4>1, <4>2, AccessesOK, Zenon
      <4>4. i'[c] \in 1 .. Size(op'[c])
        <5>1. Len(Accesses(op[c], orig, mod)') = Size(op'[c])
          BY <4>2, <4>3, CurrentPrime, Zenon
        <5>2. Size(op'[c]) \in Nat
          BY DEF Size
        <5> QED
          BY <4>1, <5>1, <5>2
      <4>5. AccessOK(Accesses(op'[c], orig', mod')[i'[c]])
        BY <4>3, <4>4
      <4> QED
        BY <4>2, <4>5, CurrentPrime DEF AccessOK
    <3> QED
      BY <1>2, <3>1 DEF ContextTypes
  <2>2. TransactionOK(c)'
    BY <1>2, <1>6 DEF TransactionOK, AtSend
  <2>3. ASSUME Prompt' PROVE TriesOK(c)' /\ (gaveUp' => refused' >= 3)
    BY <1>2, <1>3, <1>6, <2>1, <2>3 DEF TriesOK
  <2> QED
    BY <1>2, <1>4, <1>6, <2>2, <2>3, OnlyOne
<1>7. CASE ~overlap /\ ~Busy(c)'
  <2>1. \A d \in Contexts \ {c} : ~Busy(d)'
    <3>1. \A d \in Contexts \ {c} : op'[d] = op[d]
      BY <1>1, ConcludeKeeps
    <3>2. \A d \in Contexts \ {c} : ~Busy(d)
      BY <1>1, <1>7, OneBusy
    <3> QED
      BY <3>1, <3>2 DEF Busy
  <2> QED
    BY <1>2, <1>3, <1>4, <1>7, <2>1, NoneBusy
<1> QED
  BY <1>5, <1>6, <1>7

LEMMA ClearInv ==
  ASSUME TransactionInv, NEW c \in Contexts, Clear(c)
  PROVE  TransactionInv'
<1>1. /\ BusTypes /\ ContextTypes /\ OrderOK /\ Busy(c) /\ act[c].step = "clear"
      /\ ~overlap => TransactionOK(c)
      /\ ~overlap /\ Prompt => (gaveUp => refused >= 3)
  BY DEF TransactionInv, Clear, May
<1>2. PICK l \in Lanes : l = Lane(c)
  BY <1>1, CurrentOK
<1>3. /\ UNCHANGED <<kind, device, ctl, phy, faults, overlap, boot, gaveUp>>
      /\ status' = [status EXCEPT ![l] = Cleared(@)]
      /\ Conclude(c, act[c].byte)
  BY <1>2 DEF Clear, past
<1>4. /\ StatusOK' /\ \A k \in Lanes \ {l} : status'[k] = status[k]
      /\ ctl'[l] = Idle => Quiet(l)'
  BY <1>1, <1>3, ClearedQuiet
<1>5. ASSUME ~overlap PROVE \A k \in Lanes : Quiet(k)'
  <2>1. ~Pending(l) /\ \A k \in Lanes \ {l} : Quiet(k)
    BY <1>1, <1>2, <1>5 DEF TransactionOK, AtClear
  <2>2. \A k \in Lanes \ {l} : Quiet(k)'
    BY <1>3, <1>4, <2>1 DEF Quiet, Prompt
  <2> QED
    BY <1>3, <1>4, <2>1, <2>2 DEF Pending
<1>6. /\ ctl' = [k \in Lanes |-> ctl'[k]]
      /\ \A k \in Lanes : Pending(k)' => Pending(k) /\ ctl'[k] = ctl[k]
      /\ gaveUp' \in BOOLEAN
  BY <1>1, <1>3 DEF BusTypes, Pending, ContextTypes
<1>7. PICK byte : byte = act[c].byte
  OBVIOUS
<1>8. Conclude(c, byte)
  BY <1>3, <1>7
<1>9. UNCHANGED <<kind, device, phy, faults, overlap, boot>>
  BY <1>3
<1>10. ~overlap /\ Prompt /\ gaveUp' => refused >= 3
  BY <1>1, <1>3
<1> QED
  BY <1>1, <1>4, <1>5, <1>6, <1>8, <1>9, <1>10, ConcludeInv, Zenon

LEMMA ResetInv ==
  ASSUME TransactionInv, NEW c \in Contexts, Reset(c)
  PROVE  TransactionInv'
<1>1. /\ BusTypes /\ ContextTypes /\ OrderOK /\ Busy(c) /\ act[c].step = "reset"
      /\ ~overlap => TransactionOK(c)
      /\ ~overlap /\ Prompt => TriesOK(c) /\ (gaveUp => refused >= 3)
  BY DEF TransactionInv, Reset, May
<1>2. PICK l \in Lanes : l = Lane(c)
  BY <1>1, CurrentOK
<1>3. /\ UNCHANGED <<kind, device, phy, faults, overlap, boot>>
      /\ UNCHANGED <<reg, sram, pll, refused, early>>
      /\ status' = [status EXCEPT ![l] = Cleared(@)] /\ ctl' = [ctl EXCEPT ![l] = Idle]
  BY <1>2 DEF Reset, phy, faults
<1>4. /\ StatusOK' /\ \A k \in Lanes \ {l} : status'[k] = status[k]
      /\ ctl'[l] = Idle => Quiet(l)'
  BY <1>1, <1>3, ClearedQuiet
<1>5. /\ ctl'[l] = Idle /\ \A k \in Lanes \ {l} : ctl'[k] = ctl[k]
      /\ ctl' = [k \in Lanes |-> ctl'[k]]
      /\ \A k \in Lanes : Pending(k)' => Pending(k) /\ ctl'[k] = ctl[k]
  BY <1>1, <1>3 DEF BusTypes, Pending
<1>6. ASSUME ~overlap PROVE \A k \in Lanes : Quiet(k)'
  <2>1. \A k \in Lanes \ {l} : Quiet(k)
    BY <1>1, <1>2, <1>6 DEF TransactionOK
  <2>2. \A k \in Lanes \ {l} : Quiet(k)'
    BY <1>3, <1>4, <1>5, <2>1 DEF Quiet, Prompt
  <2> QED
    BY <1>4, <1>5, <2>2
<1>7. ~overlap /\ Prompt => act[c].try <= refused
  BY <1>1 DEF TriesOK
<1>8. /\ act[c].try \in 1 .. 3 /\ refused \in Nat /\ Tries = 3
      /\ act[c] = [step |-> "reset", do |-> act[c].do, try |-> act[c].try, byte |-> act[c].byte]
  BY <1>1 DEF ContextTypes, WorkOK, Tries
<1>9. CASE act[c].try < 3
  <2> DEFINE r == [step |-> "send", do |-> act[c].do, try |-> act[c].try + 1,
                   byte |-> act[c].byte]
  <2>1. UNCHANGED <<orig, mod, op, i, gaveUp>>
    BY <1>8, <1>9 DEF Reset
  <2>2. act' = [act EXCEPT ![c] = r]
    <3>1. act' = [act EXCEPT ![c].step = "send", ![c].try = @ + 1]
      BY <1>8, <1>9 DEF Reset
    <3>2. PICK v : v = act[c]
      OBVIOUS
    <3>3. act' = [act EXCEPT ![c] = [[v EXCEPT !.step = "send"] EXCEPT !.try = v.try + 1]]
      BY <1>1, <1>8, <3>1, <3>2 DEF ContextTypes
    <3>4. [[v EXCEPT !.step = "send"] EXCEPT !.try = v.try + 1] = r
      <4>1. PICK d, n, y : d = act[c].do /\ n = act[c].try /\ y = act[c].byte
        OBVIOUS
      <4>2. v = [step |-> "reset", do |-> d, try |-> n, byte |-> y]
        BY <1>8, <3>2, <4>1, Zenon
      <4>3. PICK e : e = [v EXCEPT !.step = "send"]
        OBVIOUS
      <4>4. e = [step |-> "send", do |-> d, try |-> n, byte |-> y]
        BY <4>2, <4>3
      <4>5. [e EXCEPT !.try = v.try + 1] = [step |-> "send", do |-> d, try |-> n + 1, byte |-> y]
        BY <4>2, <4>4
      <4> QED
        BY <4>1, <4>3, <4>5, Zenon
    <3> QED
      BY <3>3, <3>4
  <2>3. /\ r.do = act[c].do /\ r.step = "send" /\ r.try = act[c].try + 1
        /\ r = [step |-> r.step, do |-> r.do, try |-> r.try, byte |-> r.byte]
    OBVIOUS
  <2> HIDE DEF r
  <2>4. r.try \in 1 .. 3 /\ r.step \in {"send", "ack", "clear", "reset"}
    BY <1>8, <1>9, <2>3
  <2>5. /\ ContextTypes' /\ OrderOK' /\ act'[c] = r /\ Busy(c)'
        /\ Current(c)' = Current(c) /\ Lane(c)' = Lane(c)
    <3>1. refused' \in Nat /\ early' \in Nat /\ gaveUp' \in BOOLEAN
      BY <1>1, <1>3, <2>1 DEF ContextTypes
    <3> QED
      BY <1>1, <1>3, <2>1, <2>2, <2>3, <2>4, <3>1, MoveTypes
  <2>6. BusTypes'
    <3>1. /\ reg' = [k \in Lanes |-> [r2 \in Registers |-> reg'[k][r2]]]
          /\ IsDividers(sram)' /\ IsDividers(pll)' /\ IsDividers(orig)' /\ IsDividers(boot)'
      BY <1>1, <1>3, <2>1 DEF BusTypes, IsDividers, IsWord
    <3>2. \A k \in Lanes : Pending(k)' =>
            /\ ctl'[k].reg \in Registers
            /\ kind' = "c10" => ctl'[k].reg \in Modified2 \cup Quotients
      BY <1>1, <1>3, <1>5 DEF BusTypes
    <3> QED
      BY <1>4, <1>5, <3>1, <3>2 DEF BusTypes
  <2>7. ASSUME ~overlap' PROVE TransactionOK(c)'
    BY <1>3, <1>6, <2>3, <2>5, <2>7 DEF TransactionOK, AtSend
  <2>8. ASSUME ~overlap', Prompt' PROVE TriesOK(c)' /\ (gaveUp' => refused' >= 3)
    <3>1. ~overlap /\ Prompt
      BY <1>3, <2>8 DEF Prompt
    <3> QED
      BY <1>1, <1>3, <1>7, <1>8, <2>1, <2>3, <2>5, <3>1 DEF TriesOK
  <2> QED
    BY <2>5, <2>6, <2>7, <2>8, OnlyOne
<1>10. CASE act[c].try = 3
  <2>1. PICK byte : byte = {}
    OBVIOUS
  <2>2. Conclude(c, byte) /\ gaveUp' = TRUE
    BY <1>8, <1>10, <2>1 DEF Reset
  <2>3. gaveUp' \in BOOLEAN /\ (~overlap /\ Prompt /\ gaveUp' => refused >= 3)
    BY <1>7, <1>10, <2>2
  <2>4. UNCHANGED <<kind, device, phy, faults, overlap, boot>>
    BY <1>3
  <2> QED
    BY <1>1, <1>4, <1>5, <1>6, <2>2, <2>3, <2>4, ConcludeInv, Zenon
<1> QED
  BY <1>8, <1>9, <1>10

\* An operation begins on a quiet bus.
LEMMA BeginTypes ==
  ASSUME BusTypes, ContextTypes, OrderOK, NEW c \in Contexts, ~Busy(c),
         NEW o \in {"return", "restore"}, Begin(c, o),
         UNCHANGED <<kind, device, bus, phy, orig, faults, gaveUp, boot>>,
         overlap' \in BOOLEAN,
         \A d \in Contexts \ {c} : Busy(d) => mod' = mod
  PROVE  /\ BusTypes' /\ ContextTypes' /\ Busy(c)'
         /\ act'[c].step = "send" /\ act'[c].try = 1
         /\ op'[c] = o /\ \A d \in Contexts \ {c} : op'[d] = op[d]
<1>1. /\ UNCHANGED <<ctl, status, reg, sram, pll, refused, early>>
      /\ op' = [op EXCEPT ![c] = o] /\ i' = [i EXCEPT ![c] = 1]
  BY DEF Begin, bus, phy, faults
<1>2. BusTypes'
  BY <1>1 DEF BusTypes, StatusOK, Pending, IsDividers, IsWord
<1>3. /\ op'[c] = o /\ i'[c] = 1 /\ op' \in [Contexts -> Ops] /\ i' \in [Contexts -> Nat \ {0}]
      /\ \A d \in Contexts \ {c} : op'[d] = op[d] /\ i'[d] = i[d]
  BY <1>1 DEF ContextTypes, Ops
<1>4. /\ ActsOK' /\ act'[c] = StartOf(Accesses(o, orig, mod')[1])
      /\ \A d \in Contexts \ {c} : act'[d] = act[d]
  <2> DEFINE r == StartOf(Accesses(o, orig, mod')[1])
  <2>1. act' = [act EXCEPT ![c] = r]
    BY DEF Begin
  <2>2. r = [step |-> r.step, do |-> r.do, try |-> r.try, byte |-> r.byte]
    BY StartOK, Zenon
  <2> HIDE DEF r
  <2>3. ActsOK' /\ act'[c] = r
    BY <2>1, <2>2, ActIs DEF ContextTypes, ActsOK
  <2>4. \A d \in Contexts \ {c} : act'[d] = act[d]
    BY <2>1 DEF ContextTypes
  <2> QED
    BY <2>3, <2>4 DEF r
<1>5. WorkOK(c)' /\ act'[c].step = "send" /\ act'[c].try = 1
  <2>1. kind \in {"c10", "c20"} /\ kind' = kind /\ op'[c] \in BusyOps /\ i'[c] \in 1 .. Size(op'[c])
    BY <1>3, Cx0Assumption DEF ContextTypes, BusyOps, Size
  <2>2. act'[c] = StartOf(Accesses(op'[c], orig', mod')[i'[c]])
    BY <1>3, <1>4
  <2> QED
    BY <2>1, <2>2, BeginOK, Zenon
<1>6. \A d \in Contexts : Busy(d)' => WorkOK(d)'
  BY <1>3, <1>4, <1>5, StaysOK DEF ContextTypes
<1>7. Busy(c)'
  BY <1>3 DEF Busy
<1>8. ContextTypes'
  <2>1. /\ kind' \in Kinds /\ device' \in Devices /\ Reliable'
        /\ refused' \in Nat /\ early' \in Nat /\ gaveUp' \in BOOLEAN
    BY <1>1 DEF ContextTypes, Reliable, Prompt
  <2> QED
    BY <1>3, <1>4, <1>6, <2>1 DEF ContextTypes, ActsOK
<1> QED
  BY <1>2, <1>3, <1>5, <1>7, <1>8

\* Of two contexts that do not overlap, the one that begins finds the bus quiet.
LEMMA BeginInv ==
  ASSUME TransactionInv, NEW c \in Contexts, ~Busy(c),
         NEW o \in {"return", "restore"}, Begin(c, o), OrderOK',
         UNCHANGED <<kind, device, bus, phy, orig, faults, gaveUp, boot>>,
         overlap' \in BOOLEAN,
         \A d \in Contexts \ {c} : Busy(d) => mod' = mod,
         ~overlap' => ~overlap /\ \A d \in Contexts : ~Busy(d)
  PROVE  TransactionInv'
<1>1. BusTypes /\ ContextTypes /\ OrderOK
  BY DEF TransactionInv
<1>2. /\ BusTypes' /\ ContextTypes' /\ Busy(c)'
      /\ act'[c].step = "send" /\ act'[c].try = 1
  BY <1>1, BeginTypes
<1>3. UNCHANGED <<ctl, status, refused>>
  BY DEF bus, faults
<1>4. ASSUME ~overlap' PROVE TransactionOK(c)'
  <2>1. \A l \in Lanes : Quiet(l)
    BY <1>4 DEF TransactionInv
  <2>2. \A l \in Lanes : Quiet(l)'
    BY <1>3, <2>1 DEF Quiet, Prompt
  <2> QED
    BY <1>2, <2>2 DEF TransactionOK, AtSend
<1>5. ASSUME ~overlap', Prompt' PROVE TriesOK(c)' /\ (gaveUp' => refused' >= 3)
  <2>1. gaveUp => refused >= 3
    BY <1>5 DEF TransactionInv, Prompt
  <2>2. refused' \in Nat
    BY <1>2 DEF ContextTypes
  <2> QED
    BY <1>2, <1>3, <2>1, <2>2 DEF TriesOK
<1> QED
  BY <1>2, <1>4, <1>5, OnlyOne

LEMMA ExpireInv ==
  ASSUME TransactionInv, Expire
  PROVE  TransactionInv'
<1>1. ContextTypes /\ OrderOK
  BY DEF TransactionInv
<1>2. /\ op["sync"] = "wait" /\ op["handler"] = "off" /\ Begin("handler", "return")
      /\ UNCHANGED <<kind, device, bus, phy, orig, faults, past>>
  BY DEF Expire
<1>3. ~overlap /\ (\A d \in Contexts : ~Busy(d)) /\ "handler" \in Contexts
  BY <1>1, <1>2 DEF OrderOK, Contexts, Busy
<1>4. UNCHANGED <<gaveUp, overlap, boot>> /\ overlap' \in BOOLEAN
  BY <1>1, <1>2 DEF past, ContextTypes
<1>5. OrderOK'
  <2>1. op' = [op EXCEPT !["handler"] = "return"]
    BY <1>2 DEF Begin
  <2>2. op'["handler"] = "return" /\ op'["sync"] = "wait"
    BY <1>1, <1>2, <2>1 DEF ContextTypes, Contexts
  <2> QED
    BY <1>2, <1>3, <1>4, <2>2 DEF OrderOK
<1> QED
  BY <1>2, <1>3, <1>4, <1>5, BeginInv

LEMMA CtrlCInv ==
  ASSUME TransactionInv, CtrlC
  PROVE  TransactionInv'
<1>1. ContextTypes /\ OrderOK
  BY DEF TransactionInv
<1>2. /\ op["sync"] = "wait" /\ op["handler"] # "end" /\ Prompt
      /\ op["handler"] # "off" => kind \in Overlapping /\ device.refusals = 0
      /\ overlap' = (op["handler"] # "off")
      /\ UNCHANGED <<kind, device, bus, phy, orig, mod, faults, gaveUp, boot>>
      /\ Begin("sync", "restore")
  BY DEF CtrlC
<1>3. ~overlap /\ ~Busy("sync") /\ "sync" \in Contexts /\ overlap' \in BOOLEAN
  BY <1>1, <1>2 DEF OrderOK, Contexts, Busy
<1>4. ASSUME ~overlap' PROVE \A d \in Contexts : ~Busy(d)
  BY <1>2, <1>4 DEF Contexts, Busy
<1>5. OrderOK'
  <2>1. op' = [op EXCEPT !["sync"] = "restore"]
    BY <1>2 DEF Begin
  <2>2. op'["sync"] = "restore" /\ op'["handler"] = op["handler"]
    BY <1>1, <2>1 DEF ContextTypes, Contexts
  <2> QED
    BY <1>1, <1>2, <2>2 DEF OrderOK, Prompt
<1> QED
  BY <1>2, <1>3, <1>4, <1>5, BeginInv

LEMMA DoneInv ==
  ASSUME TransactionInv, Done
  PROVE  TransactionInv'
<1>1. BusTypes /\ ContextTypes /\ OrderOK
  BY DEF TransactionInv
<1>2. /\ op["sync"] = "wait" /\ op["handler"] = "end" /\ op' = [op EXCEPT !["sync"] = "end"]
      /\ UNCHANGED <<kind, device, ctl, status, reg, sram, pll, orig, mod, i, act, refused, early>>
      /\ UNCHANGED <<gaveUp, overlap, boot>>
  BY DEF Done, bus, phy, faults, past
<1>3. /\ op'["sync"] = "end" /\ op'["handler"] = "end" /\ op' \in [Contexts -> Ops]
  BY <1>1, <1>2 DEF ContextTypes, Contexts, Ops
<1>4. ~overlap /\ (\A c \in Contexts : ~Busy(c)) /\ (\A c \in Contexts : ~Busy(c)')
  BY <1>1, <1>2, <1>3 DEF OrderOK, Contexts, Busy
<1>5. BusTypes'
  BY <1>1, <1>2 DEF BusTypes, StatusOK, Pending, IsDividers, IsWord
<1>6. ContextTypes' /\ OrderOK'
  <2>1. Reliable'
    BY <1>1, <1>2 DEF ContextTypes, Reliable, Prompt
  <2> QED
    BY <1>1, <1>2, <1>3, <1>4, <2>1 DEF ContextTypes, OrderOK
<1>7. (\A l \in Lanes : Quiet(l)') /\ (Prompt' /\ gaveUp' => refused' >= 3)
  BY <1>2, <1>4 DEF TransactionInv, Quiet, Prompt
<1> QED
  BY <1>4, <1>5, <1>6, <1>7, NoneBusy

LEMMA InitTransaction == Init => TransactionInv
<1> SUFFICES ASSUME Init PROVE TransactionInv
  OBVIOUS
<1>1. PICK d \in Boot : boot = d
  BY DEF Init
<1>2. IsDividers(boot)
  BY <1>1, Cx0Assumption DEF IsDividers, IsWord
<1>3. BusTypes
  <2>1. /\ ctl = [l \in Lanes |-> Idle] /\ status = [l \in Lanes |-> NoReply]
        /\ sram = boot /\ pll = boot
        /\ orig = [quot |-> [hi |-> {}, lo |-> {}], rem |-> [hi |-> {}, lo |-> {}]]
    BY DEF Init
  <2>2. StatusOK
    BY <2>1 DEF StatusOK, NoReply
  <2>3. IsDividers(orig) /\ IsDividers(sram) /\ IsDividers(pll)
    BY <1>2, <2>1 DEF IsDividers, IsWord
  <2>4. reg = [l \in Lanes |-> [r \in Registers |-> reg[l][r]]]
    BY DEF Init, Registers, Modified2, Quotients, Addresses
  <2>5. ctl = [l \in Lanes |-> ctl[l]] /\ \A l \in Lanes : ~Pending(l)
    BY <2>1 DEF Pending
  <2> QED
    BY <1>2, <2>2, <2>3, <2>4, <2>5 DEF BusTypes
<1>4. /\ op["sync"] = "read" /\ op["handler"] = "off" /\ op \in [Contexts -> Ops]
      /\ i["sync"] = 1 /\ i \in [Contexts -> Nat \ {0}]
      /\ kind \in {"c10", "c20"} /\ ~overlap /\ ~gaveUp /\ refused = 0
  BY Cx0Assumption DEF Init, Contexts, Ops
<1>5. act["sync"] = StartOf(Current("sync")) /\ ActsOK
  <2>1. act = [c \in Contexts |-> IF c = "sync" THEN StartOf(Current(c)) ELSE NoAct]
    BY DEF Init
  <2>2. PICK s : s = StartOf(Current("sync"))
    OBVIOUS
  <2>3. s = [step |-> s.step, do |-> s.do, try |-> s.try, byte |-> s.byte]
    BY <2>2, StartOK, Zenon
  <2>4. NoAct = [step |-> NoAct.step, do |-> NoAct.do, try |-> NoAct.try, byte |-> NoAct.byte]
    BY DEF NoAct
  <2>5. act["sync"] = s /\ act["handler"] = NoAct /\ act = [c \in Contexts |-> act[c]]
    BY <2>1, <2>2 DEF Contexts
  <2>6. \A c \in Contexts : act[c] = [step |-> act[c].step, do |-> act[c].do,
                                      try |-> act[c].try, byte |-> act[c].byte]
    BY <2>3, <2>4, <2>5, Zenon DEF Contexts
  <2> QED
    BY <2>2, <2>5, <2>6, Zenon DEF ActsOK
<1>6. WorkOK("sync") /\ act["sync"].step = "send" /\ act["sync"].try = 1
  <2>1. PICK a : a = Current("sync")
    OBVIOUS
  <2>2. Len(Accesses(op["sync"], orig, mod)) = Size(op["sync"])
    BY <1>4, AccessesOK, Zenon DEF BusyOps
  <2>3. i["sync"] <= Len(Accesses(op["sync"], orig, mod))
    <3>1. Size(op["sync"]) \in Nat /\ 1 <= Size(op["sync"])
      BY DEF Size
    <3> QED
      BY <1>4, <2>2, <3>1
  <2>4. /\ act["sync"].step = "send" /\ act["sync"].try = 1
        /\ act["sync"].do = IF a.do = "write" THEN "write" ELSE "read"
    BY <1>5, <2>1, StartOK
  <2> QED
    BY <2>1, <2>3, <2>4 DEF WorkOK
<1>7. ContextTypes
  <2>1. \A c \in Contexts : Busy(c) => WorkOK(c)
    BY <1>4, <1>6 DEF Contexts, Busy
  <2>2. /\ kind \in Kinds /\ device \in Devices /\ Reliable /\ early = 0
        /\ gaveUp = FALSE /\ overlap = FALSE
    BY DEF Init
  <2> QED
    BY <1>4, <1>5, <2>1, <2>2 DEF ContextTypes, ActsOK
<1>8. OrderOK
  BY <1>4 DEF OrderOK
<1>9. \A c \in Contexts : Busy(c) => c = "sync"
  BY <1>4 DEF Contexts, Busy
<1>10. \A l \in Lanes : Quiet(l)
  BY DEF Init, Quiet, NoReply
<1>11. TransactionOK("sync") /\ TriesOK("sync")
  BY <1>4, <1>6, <1>10 DEF TransactionOK, AtSend, TriesOK
<1> QED
  BY <1>3, <1>4, <1>7, <1>8, <1>9, <1>10, <1>11 DEF TransactionInv

LEMMA NextTransaction == TransactionInv /\ [Next]_vars => TransactionInv'
<1> SUFFICES ASSUME TransactionInv, [Next]_vars PROVE TransactionInv'
  OBVIOUS
<1>1. ASSUME NEW c \in Contexts, Step(c) PROVE TransactionInv'
  BY <1>1, SendInv, AckInv, ClearInv, ResetInv DEF Step
<1>2. ASSUME NEW l \in Lanes, Answer(l) \/ Refuse(l) PROVE TransactionInv'
  BY <1>2, AnswerInv, RefuseInv
<1>3. CASE Expire \/ Done \/ CtrlC
  BY <1>3, ExpireInv, DoneInv, CtrlCInv
<1>4. CASE UNCHANGED vars
  <2>1. /\ UNCHANGED <<kind, device, ctl, status, reg, sram, pll, orig, mod, op, i, act>>
        /\ UNCHANGED <<refused, early, gaveUp, overlap, boot>>
    BY <1>4 DEF vars, bus, phy, faults, past
  <2>2. BusTypes /\ ContextTypes /\ OrderOK
    BY DEF TransactionInv
  <2>3. /\ ContextTypes' /\ OrderOK'
        /\ \A c \in Contexts : /\ Busy(c)' <=> Busy(c)
                               /\ Busy(c) => Current(c)' = Current(c) /\ Lane(c)' = Lane(c)
    BY <2>1, <2>2, DeviceTypes DEF ContextTypes
  <2>4. BusTypes'
    BY <2>1, <2>2 DEF BusTypes, StatusOK, Pending, IsDividers, IsWord
  <2>5. \A l \in Lanes : Quiet(l) => Quiet(l)'
    BY <2>1 DEF Quiet, Prompt
  <2>6. ASSUME NEW c \in Contexts, Busy(c), ~overlap PROVE TransactionOK(c)'
    <3>1. TransactionOK(c) /\ Lane(c) = Lane(c)' /\ Current(c) = Current(c)'
      BY <2>3, <2>6 DEF TransactionInv
    <3>2. AtSend(c) => AtSend(c)'
      BY <2>5 DEF AtSend
    <3>3. AtAck(c) => AtAck(c)'
      BY <2>1, <3>1 DEF AtAck, Pending, Command, Answered, Performed, Prompt
    <3>4. (AtClear(c) => AtClear(c)') /\ (AtReset(c) => AtReset(c)')
      BY <2>1, <3>1 DEF AtClear, AtReset, Pending, Command, Performed, Prompt
    <3> QED
      BY <2>1, <2>5, <3>1, <3>2, <3>3, <3>4 DEF TransactionOK
  <2>7. ASSUME NEW c \in Contexts, Busy(c), ~overlap, Prompt PROVE TriesOK(c)'
    BY <2>1, <2>3, <2>7 DEF TransactionInv, TriesOK
  <2>8. Prompt' <=> Prompt
    BY <2>1 DEF Prompt
  <2> QED
    BY <2>1, <2>3, <2>4, <2>5, <2>6, <2>7, <2>8 DEF TransactionInv
<1> QED
  BY <1>1, <1>2, <1>3, <1>4 DEF Next

LEMMA TransactionAlways == Spec => []TransactionInv
<1> QED
  BY InitTransaction, NextTransaction, PTL DEF Spec

\* A byte that is taken for a register's value is that, and never the answer to
\* another command (intel_cx0_read, intel_cx0_wait_for_ack).
THEOREM OwnAnswers == Spec => []NoForeignByte
<1>1. TransactionInv => NoForeignByte
  BY DEF TransactionInv, TransactionOK, AtClear, NoForeignByte
<1> QED
  BY <1>1, TransactionAlways, PTL

\* Three tries suffice for a device that answers in time and refuses less than
\* three commands (__intel_cx0_read, __intel_cx0_write).
THEOREM ThreeTries == Spec => []TriesSuffice
<1>1. TransactionInv => TriesSuffice
  BY DEF TransactionInv, ContextTypes, TriesSuffice
<1> QED
  BY <1>1, TransactionAlways, PTL

-----------------------------------------------------------------------------
(* What each access of a reading and of a restoration is.                  *)

IsWrite(a, r, byte) == a.lane = 0 /\ a.do = "write" /\ a.reg = r /\ a.set = byte /\ a.into = << >>
IsFetch(a, r, f, half) == a.lane = 0 /\ a.do = "read" /\ a.reg = r /\ a.into = <<f, half>>

LEMMA Forms ==
  ASSUME NEW r, NEW byte, NEW f, NEW half
  PROVE  /\ IsWrite(Write(r, byte), r, byte) /\ IsWrite(Prepare(r, byte), r, byte)
         /\ IsFetch(Fetch(r, f, half), r, f, half)
BY DEF IsWrite, IsFetch, Write, Prepare, Fetch, Access

LEMMA C10Reads ==
  ASSUME ContextTypes, NEW c \in Contexts, kind = "c10", op[c] = "read"
  PROVE  /\ i[c] \in 1 .. 2
         /\ i[c] = 1 => IsFetch(Current(c), "QUOT_LOW", "quot", "lo")
         /\ i[c] = 2 => IsFetch(Current(c), "QUOT_HIGH", "quot", "hi")
<1>1. PICK p : p = C10Read
  OBVIOUS
<1>2. p[1] = Fetch("QUOT_LOW", "quot", "lo") /\ p[2] = Fetch("QUOT_HIGH", "quot", "hi")
  BY <1>1 DEF C10Read
<1>3. IsFetch(p[1], "QUOT_LOW", "quot", "lo") /\ IsFetch(p[2], "QUOT_HIGH", "quot", "hi")
  BY <1>2, Forms
<1>4. Current(c) = p[i[c]]
  BY <1>1 DEF Current, Accesses
<1>5. i[c] \in 1 .. 2
  BY CurrentOK DEF Busy, Size
<1> QED
  BY <1>3, <1>4, <1>5

LEMMA C10Restores ==
  ASSUME ContextTypes, NEW c \in Contexts, kind = "c10", op[c] = "restore"
  PROVE  /\ i[c] \in 1 .. 9
         /\ i[c] <= 6 => Current(c).do = "modify"
         /\ i[c] = 7 => IsWrite(Current(c), "QUOT_LOW", orig.quot.lo)
         /\ i[c] = 8 => IsWrite(Current(c), "QUOT_HIGH", orig.quot.hi)
         /\ i[c] = 9 => /\ Current(c).lane = 0 /\ Current(c).reg = "CONTROL"
                        /\ Current(c).do = "modify" /\ "update" \in Current(c).set
<1>1. PICK p, d : d = orig /\ p = C10Program(d)
  OBVIOUS
<1>2. /\ p[1] = Access(0, "modify", "CONTROL", {}, {"access"}, TRUE)
      /\ p[2] = Access(1, "modify", "CONTROL", {}, {"access"}, TRUE)
      /\ p[3] = Access(0, "modify", "CUSTOM_WIDTH", {"width"}, {}, TRUE)
      /\ p[4] = Access(1, "modify", "CUSTOM_WIDTH", {"width"}, {}, TRUE)
      /\ p[5] = Access(0, "modify", "CONTROL", {}, {"update"}, TRUE)
      /\ p[6] = Access(1, "modify", "CONTROL", {}, {"update"}, TRUE)
      /\ p[7] = Write("QUOT_LOW", d.quot.lo)
      /\ p[8] = Write("QUOT_HIGH", d.quot.hi)
      /\ p[9] = Access(0, "modify", "CONTROL", {}, {"master", "update"}, TRUE)
  BY <1>1, C10Table, Zenon
<1>3. /\ p[1].do = "modify" /\ p[2].do = "modify" /\ p[3].do = "modify"
      /\ p[4].do = "modify" /\ p[5].do = "modify" /\ p[6].do = "modify"
  BY <1>2 DEF Access
<1>4. IsWrite(p[7], "QUOT_LOW", d.quot.lo) /\ IsWrite(p[8], "QUOT_HIGH", d.quot.hi)
  BY <1>2, Forms
<1>5. p[9].lane = 0 /\ p[9].reg = "CONTROL" /\ p[9].do = "modify" /\ "update" \in p[9].set
  BY <1>2 DEF Access
<1>6. Current(c) = p[i[c]]
  BY <1>1 DEF Current, Accesses
<1>7. i[c] \in 1 .. 9
  BY CurrentOK DEF Busy, Size
<1> QED
  BY <1>1, <1>3, <1>4, <1>5, <1>6, <1>7

LEMMA C20Reads ==
  ASSUME ContextTypes, NEW c \in Contexts, kind = "c20", op[c] = "read"
  PROVE  /\ i[c] \in 1 .. 8
         /\ i[c] \in {1, 5} => IsWrite(Current(c), "RD_ADDRESS_H", {"page"})
         /\ i[c] = 2 => IsWrite(Current(c), "RD_ADDRESS_L", {"quot"})
         /\ i[c] = 6 => IsWrite(Current(c), "RD_ADDRESS_L", {"rem"})
         /\ i[c] = 3 => IsFetch(Current(c), "RD_DATA_H", "quot", "hi")
         /\ i[c] = 4 => IsFetch(Current(c), "RD_DATA_L", "quot", "lo")
         /\ i[c] = 7 => IsFetch(Current(c), "RD_DATA_H", "rem", "hi")
         /\ i[c] = 8 => IsFetch(Current(c), "RD_DATA_L", "rem", "lo")
<1>1. PICK p : p = C20Read
  OBVIOUS
<1>2. AreEight(p,
        Prepare("RD_ADDRESS_H", {"page"}), Write("RD_ADDRESS_L", {"quot"}),
        Fetch("RD_DATA_H", "quot", "hi"), Fetch("RD_DATA_L", "quot", "lo"),
        Prepare("RD_ADDRESS_H", {"page"}), Write("RD_ADDRESS_L", {"rem"}),
        Fetch("RD_DATA_H", "rem", "hi"), Fetch("RD_DATA_L", "rem", "lo"))
  BY <1>1, C20ReadTable, Zenon
<1>3. /\ IsWrite(p[1], "RD_ADDRESS_H", {"page"}) /\ IsWrite(p[2], "RD_ADDRESS_L", {"quot"})
      /\ IsFetch(p[3], "RD_DATA_H", "quot", "hi") /\ IsFetch(p[4], "RD_DATA_L", "quot", "lo")
  BY <1>2, Forms DEF AreEight
<1>4. /\ IsWrite(p[5], "RD_ADDRESS_H", {"page"}) /\ IsWrite(p[6], "RD_ADDRESS_L", {"rem"})
      /\ IsFetch(p[7], "RD_DATA_H", "rem", "hi") /\ IsFetch(p[8], "RD_DATA_L", "rem", "lo")
  BY <1>2, Forms DEF AreEight
<1>5. Current(c) = p[i[c]]
  BY <1>1 DEF Current, Accesses
<1>6. i[c] \in 1 .. 8
  BY CurrentOK DEF Busy, Size
<1> QED
  BY <1>3, <1>4, <1>5, <1>6

LEMMA C20Restores ==
  ASSUME ContextTypes, NEW c \in Contexts, kind = "c20", op[c] = "restore"
  PROVE  /\ i[c] \in 1 .. 12
         /\ i[c] \in {1, 5, 9} => IsWrite(Current(c), "WR_ADDRESS_H", {"page"})
         /\ i[c] = 2 => IsWrite(Current(c), "WR_ADDRESS_L", {"quot"})
         /\ i[c] = 3 => IsWrite(Current(c), "WR_DATA_H", orig.quot.hi)
         /\ i[c] = 4 => IsWrite(Current(c), "WR_DATA_L", orig.quot.lo)
         /\ i[c] = 6 => IsWrite(Current(c), "WR_ADDRESS_L", {"rem"})
         /\ i[c] = 7 => IsWrite(Current(c), "WR_DATA_H", orig.rem.hi)
         /\ i[c] = 8 => IsWrite(Current(c), "WR_DATA_L", orig.rem.lo)
         /\ i[c] = 10 => IsWrite(Current(c), "WR_ADDRESS_L", {"frac_update"})
         /\ i[c] = 11 => IsWrite(Current(c), "WR_DATA_H", {})
         /\ i[c] = 12 => IsWrite(Current(c), "WR_DATA_L", {"update"})
<1>1. PICK p, d : d = orig /\ p = C20Program(d)
  OBVIOUS
<1>2. AreTwelve(p,
           Prepare("WR_ADDRESS_H", {"page"}), Prepare("WR_ADDRESS_L", {"quot"}),
           Prepare("WR_DATA_H", d.quot.hi), Write("WR_DATA_L", d.quot.lo),
           Prepare("WR_ADDRESS_H", {"page"}), Prepare("WR_ADDRESS_L", {"rem"}),
           Prepare("WR_DATA_H", d.rem.hi), Write("WR_DATA_L", d.rem.lo),
           Prepare("WR_ADDRESS_H", {"page"}), Prepare("WR_ADDRESS_L", {"frac_update"}),
           Prepare("WR_DATA_H", {}), Write("WR_DATA_L", {"update"}))
  BY <1>1, C20ProgramTable, Zenon
<1>3. /\ IsWrite(p[1], "WR_ADDRESS_H", {"page"}) /\ IsWrite(p[2], "WR_ADDRESS_L", {"quot"})
      /\ IsWrite(p[3], "WR_DATA_H", d.quot.hi) /\ IsWrite(p[4], "WR_DATA_L", d.quot.lo)
  BY <1>2, Forms DEF AreTwelve
<1>4. /\ IsWrite(p[5], "WR_ADDRESS_H", {"page"}) /\ IsWrite(p[6], "WR_ADDRESS_L", {"rem"})
      /\ IsWrite(p[7], "WR_DATA_H", d.rem.hi) /\ IsWrite(p[8], "WR_DATA_L", d.rem.lo)
  BY <1>2, Forms DEF AreTwelve
<1>5. /\ IsWrite(p[9], "WR_ADDRESS_H", {"page"})
      /\ IsWrite(p[10], "WR_ADDRESS_L", {"frac_update"})
      /\ IsWrite(p[11], "WR_DATA_H", {}) /\ IsWrite(p[12], "WR_DATA_L", {"update"})
  BY <1>2, Forms DEF AreTwelve
<1>6. Current(c) = p[i[c]]
  BY <1>1 DEF Current, Accesses
<1>7. i[c] \in 1 .. 12
  BY CurrentOK DEF Busy, Size
<1> QED
  BY <1>1, <1>3, <1>4, <1>5, <1>6, <1>7

-----------------------------------------------------------------------------
(* What has been done so far, on a bus that a context has to itself.       *)

\* What a write leaves of what has been done before.
LEMMA PerformKeeps ==
  ASSUME BusTypes, ContextTypes, NEW c \in Contexts, Busy(c), act[c].do = "write", ByteOK(c),
         NEW l, l = Lane(c), NEW t, t.reg = Current(c).reg, t.data = act[c].byte,
         Perform(l, t), UNCHANGED <<kind, orig, boot>>, NEW n, n = i[c] - 1
  PROVE  /\ OthersKept => OthersKept'
         /\ op[c] = "read" /\ HasRead(n) => HasRead(n)'
         /\ op[c] = "restore" /\ HasRestored(n) => HasRestored(n)'
<1>1. /\ AccessOK(Current(c)) /\ l \in Lanes /\ kind \in {"c10", "c20"}
      /\ t.reg \in Registers /\ Current(c).do # "read"
  <2>1. AccessOK(Current(c)) /\ l \in Lanes /\ kind \in {"c10", "c20"}
    BY CurrentOK
  <2>2. Current(c).do # "read"
    BY DEF ContextTypes, WorkOK
  <2> QED
    BY <2>1, <2>2 DEF AccessOK, Registers
<1>2. /\ \A k \in Lanes \ {l} : reg'[k] = reg[k]
      /\ \A r \in Registers \ {t.reg, "RD_DATA_H", "RD_DATA_L"} : reg'[l][r] = reg[l][r]
      /\ t.reg # "RD_ADDRESS_L" =>
           \A r \in Registers \ {t.reg} : reg'[l][r] = reg[l][r]
      /\ t.reg # "WR_DATA_L" => sram' = sram
      /\ reg[l].WR_ADDRESS_L # {"quot"} => sram'.quot = sram.quot
      /\ reg[l].WR_ADDRESS_L # {"rem"} => sram'.rem = sram.rem
      /\ t.reg \notin {"CONTROL", "WR_DATA_L"} => pll' = pll
      /\ reg'[l][t.reg] = IF t.reg = "CONTROL" THEN t.data \ {"update"} ELSE t.data
      /\ IsDividers(sram)'
  <2>1. Performed(l, t.reg, t.data)'
    BY <1>1, PerformIs, Zenon
  <2>2. reg'[l][t.reg] = IF t.reg = "CONTROL" THEN t.data \ {"update"} ELSE t.data
    BY <2>1 DEF Performed
  <2> QED
    BY <1>1, <2>2, PerformIs
<1>3. ASSUME OthersKept PROVE OthersKept'
  <2>1. ASSUME NEW r \in Modified2 PROVE "other" \in reg'[l][r]
    <3>1. CASE t.reg = r
      <4>1. "other" \in act[c].byte
        BY <1>1, <3>1 DEF AccessOK, ByteOK
      <4> QED
        BY <1>2, <3>1, <4>1 DEF Modified2
    <3>2. CASE t.reg # r
      <4>1. r \in Registers \ {t.reg, "RD_DATA_H", "RD_DATA_L"} /\ "other" \in reg[l][r]
        BY <1>1, <1>3, <2>1, <3>2 DEF Registers, Modified2, OthersKept
      <4> QED
        BY <1>2, <4>1
    <3> QED
      BY <3>1, <3>2
  <2>2. "other" \in reg'[l]["CONTROL"] /\ "other" \in reg'[l]["CUSTOM_WIDTH"]
    BY <2>1 DEF Modified2
  <2> QED
    BY <1>2, <1>3, <2>2 DEF OthersKept
<1>4. ASSUME op[c] = "read", HasRead(n) PROVE HasRead(n)'
  <2>1. CASE kind = "c10"
    <3>1. FALSE
      BY <1>1, <1>4, <2>1, C10Reads DEF IsFetch
    <3> QED
      BY <3>1
  <2>2. CASE kind = "c20"
    <3>1. /\ i[c] \in 1 .. 8 /\ i[c] \notin {3, 4, 7, 8}
          /\ i[c] \in {1, 5} => t.reg = "RD_ADDRESS_H"
          /\ i[c] \in {2, 6} => t.reg = "RD_ADDRESS_L"
      BY <1>1, <1>4, <2>2, C20Reads DEF IsWrite, IsFetch
    <3>2. n \in {0, 4} \/ (n \in {1, 5} /\ t.reg = "RD_ADDRESS_L")
      BY <3>1
    <3>3. sram' = sram
      BY <1>2, <3>1
    <3>4. n \in {1, 5} => reg'[0].RD_ADDRESS_H = reg[0].RD_ADDRESS_H
      BY <1>1, <1>2, <3>2 DEF Registers, Addresses, Lanes
    <3> QED
      BY <1>4, <2>2, <3>2, <3>3, <3>4 DEF HasRead
  <2> QED
    BY <1>1, <2>1, <2>2
<1>5. ASSUME op[c] = "restore", HasRestored(n) PROVE HasRestored(n)'
  <2>1. CASE kind = "c10"
    <3>1. /\ i[c] \in 1 .. 9
          /\ i[c] = 8 => t.reg = "QUOT_HIGH"
          /\ i[c] = 9 => t.reg = "CONTROL"
      BY <1>5, <2>1, C10Restores DEF IsWrite
    <3>2. n \in 0 .. 8 /\ (n = 7 => t.reg = "QUOT_HIGH") /\ (n = 8 => t.reg = "CONTROL")
      BY <3>1
    <3>3. /\ n >= 7 => reg'[0].QUOT_LOW = reg[0].QUOT_LOW
          /\ n >= 8 => reg'[0].QUOT_HIGH = reg[0].QUOT_HIGH
      <4>1. n >= 7 => t.reg \in {"QUOT_HIGH", "CONTROL"}
        BY <3>2
      <4>2. n >= 8 => t.reg = "CONTROL"
        BY <3>2
      <4> QED
        BY <1>1, <1>2, <4>1, <4>2 DEF Registers, Quotients, Lanes
    <3> QED
      BY <1>5, <2>1, <3>2, <3>3 DEF HasRestored
  <2>2. CASE kind = "c20"
    <3>1. /\ i[c] \in 1 .. 12
          /\ i[c] \in {1, 5, 9} => t.reg = "WR_ADDRESS_H"
          /\ i[c] \in {2, 6, 10} => t.reg = "WR_ADDRESS_L"
          /\ i[c] \in {3, 7, 11} => t.reg = "WR_DATA_H"
          /\ i[c] \in {4, 8, 12} => t.reg = "WR_DATA_L"
      BY <1>5, <2>2, C20Restores DEF IsWrite
    <3>2. /\ n \in 0 .. 11
          /\ n \in {0, 4, 8} => t.reg = "WR_ADDRESS_H"
          /\ n \in {1, 5, 9} => t.reg = "WR_ADDRESS_L"
          /\ n \in {2, 6, 10} => t.reg = "WR_DATA_H"
          /\ n \in {3, 7, 11} => t.reg = "WR_DATA_L"
      BY <3>1
    <3>3. l = 0
      BY <1>5, <2>2, <3>1, C20Restores DEF IsWrite, Lane
    <3>4. /\ t.reg # "WR_ADDRESS_H" => reg'[0].WR_ADDRESS_H = reg[0].WR_ADDRESS_H
          /\ t.reg \notin {"WR_ADDRESS_H", "WR_ADDRESS_L"} =>
               reg'[0].WR_ADDRESS_L = reg[0].WR_ADDRESS_L
          /\ t.reg = "WR_DATA_L" => reg'[0].WR_DATA_H = reg[0].WR_DATA_H
      BY <1>1, <1>2, <3>3 DEF Registers, Addresses
    <3>5. {"rem"} # {"quot"} /\ {"frac_update"} # {"quot"} /\ {"frac_update"} # {"rem"}
      OBVIOUS
    <3>6. n >= 4 => sram'.quot = sram.quot
      <4>1. CASE n \in {7, 11}
        BY <1>2, <1>5, <2>2, <3>3, <3>5, <4>1 DEF HasRestored
      <4>2. CASE n \notin {7, 11}
        BY <1>2, <3>2, <4>2
      <4> QED
        BY <4>1, <4>2
    <3>7. n >= 8 => sram'.rem = sram.rem
      <4>1. CASE n = 11
        BY <1>2, <1>5, <2>2, <3>3, <3>5, <4>1 DEF HasRestored
      <4>2. CASE n # 11
        BY <1>2, <3>2, <4>2
      <4> QED
        BY <4>1, <4>2
    <3>8. n % 4 # 0 => t.reg # "WR_ADDRESS_H"
      BY <3>2
    <3>9. n \in {2, 3, 6, 7, 10, 11} => t.reg \notin {"WR_ADDRESS_H", "WR_ADDRESS_L"}
      BY <3>2
    <3> QED
      BY <1>5, <2>2, <3>2, <3>4, <3>6, <3>7, <3>8, <3>9 DEF HasRestored
  <2> QED
    BY <1>1, <2>1, <2>2
<1> QED
  BY <1>3, <1>4, <1>5

\* An access that is over has done its part.
LEMMA ReadFurther ==
  ASSUME BusTypes, ContextTypes, NEW c \in Contexts, op[c] = "read", AtClear(c), ByteOK(c),
         NEW n, n = i[c], HasRead(n - 1), NEW byte, byte = act[c].byte, Conclude(c, byte),
         UNCHANGED <<kind, reg, sram, boot>>
  PROVE  HasRead(n)'
<1>1. /\ kind \in {"c10", "c20"} /\ Busy(c) /\ WorkOK(c) /\ IsDividers(orig)
  BY Cx0Assumption DEF ContextTypes, BusTypes, Busy
<1>2. ASSUME NEW f \in {"quot", "rem"}, NEW h \in {"hi", "lo"}, NEW r,
             IsFetch(Current(c), r, f, h)
      PROVE  /\ orig'[f][h] = reg[0][r]
             /\ \A g \in {"quot", "rem"}, k \in {"hi", "lo"} :
                  <<g, k>> # <<f, h>> => orig'[g][k] = orig[g][k]
  <2>1. act[c].do = "read" /\ byte = reg[0][r]
    BY <1>1, <1>2 DEF WorkOK, AtClear, IsFetch, Lane
  <2>2. Current(c).into # << >> /\ Current(c).into[1] = f /\ Current(c).into[2] = h
    BY <1>2 DEF IsFetch
  <2>3. orig' = [orig EXCEPT ![f][h] = byte]
    BY <1>2, <2>2 DEF Conclude, IsFetch
  <2> QED
    <3>1. /\ orig'[f][h] = byte
          /\ \A g \in {"quot", "rem"}, k \in {"hi", "lo"} :
               <<g, k>> # <<f, h>> => orig'[g][k] = orig[g][k]
      BY <1>1, <2>3, IntoOK, Zenon
    <3> QED
      BY <2>1, <3>1, Zenon
<1>3. ASSUME NEW r, NEW b, IsWrite(Current(c), r, b)
      PROVE  orig' = orig /\ Performed(0, r, b)
  <2>1. act[c].do = "write" /\ act[c].byte = b
    BY <1>1, <1>3 DEF WorkOK, ByteOK, IsWrite
  <2> QED
    BY <1>3, <2>1 DEF Conclude, AtClear, IsWrite, Lane
<1>4. CASE kind = "c10"
  <2>1. CASE n = 1
    <3>1. IsFetch(Current(c), "QUOT_LOW", "quot", "lo")
      BY <1>4, <2>1, C10Reads
    <3>2. orig'["quot"]["lo"] = reg[0]["QUOT_LOW"]
      BY <1>2, <3>1
    <3> QED
      BY <1>4, <2>1, <3>2 DEF HasRead
  <2>2. CASE n = 2
    <3>1. IsFetch(Current(c), "QUOT_HIGH", "quot", "hi")
      BY <1>4, <2>2, C10Reads
    <3>2. orig'["quot"]["hi"] = reg[0]["QUOT_HIGH"] /\ orig'["quot"]["lo"] = orig["quot"]["lo"]
      BY <1>2, <3>1
    <3> QED
      BY <1>4, <2>2, <3>2 DEF HasRead
  <2> QED
    BY <1>4, <2>1, <2>2, C10Reads
<1>5. CASE kind = "c20"
  <2> DEFINE kept(g, k) == orig'[g][k] = orig[g][k]
  <2>1. CASE n \in {1, 5}
    <3>1. IsWrite(Current(c), "RD_ADDRESS_H", {"page"})
      BY <1>5, <2>1, C20Reads
    <3>2. orig' = orig /\ reg[0]["RD_ADDRESS_H"] = {"page"}
      BY <1>3, <3>1 DEF Performed
    <3> QED
      BY <1>5, <2>1, <3>2 DEF HasRead
  <2>2. CASE n \in {2, 6}
    <3>1. /\ n = 2 => IsWrite(Current(c), "RD_ADDRESS_L", {"quot"})
          /\ n = 6 => IsWrite(Current(c), "RD_ADDRESS_L", {"rem"})
      BY <1>5, C20Reads
    <3>2. orig' = orig /\ sram = boot /\ reg[0].RD_ADDRESS_H = {"page"}
      BY <1>3, <1>5, <2>2, <3>1 DEF HasRead
    <3>3. /\ n = 2 => reg[0].RD_DATA_H = boot.quot.hi /\ reg[0].RD_DATA_L = boot.quot.lo
          /\ n = 6 => reg[0].RD_DATA_H = boot.rem.hi /\ reg[0].RD_DATA_L = boot.rem.lo
      BY <1>3, <3>1, <3>2 DEF Performed
    <3> QED
      BY <1>5, <2>2, <3>2, <3>3 DEF HasRead
  <2>3. CASE n = 3
    <3>1. IsFetch(Current(c), "RD_DATA_H", "quot", "hi")
      BY <1>5, <2>3, C20Reads
    <3>2. orig'["quot"]["hi"] = reg[0]["RD_DATA_H"]
      BY <1>2, <3>1
    <3> QED
      BY <1>5, <2>3, <3>2 DEF HasRead
  <2>4. CASE n = 4
    <3>1. IsFetch(Current(c), "RD_DATA_L", "quot", "lo")
      BY <1>5, <2>4, C20Reads
    <3>2. orig'["quot"]["lo"] = reg[0]["RD_DATA_L"] /\ kept("quot", "hi")
      BY <1>2, <3>1
    <3> QED
      BY <1>5, <2>4, <3>2 DEF HasRead
  <2>5. CASE n = 7
    <3>1. IsFetch(Current(c), "RD_DATA_H", "rem", "hi")
      BY <1>5, <2>5, C20Reads
    <3>2. orig'["rem"]["hi"] = reg[0]["RD_DATA_H"] /\ kept("quot", "hi") /\ kept("quot", "lo")
      BY <1>2, <3>1
    <3> QED
      BY <1>5, <2>5, <3>2 DEF HasRead
  <2>6. CASE n = 8
    <3>1. IsFetch(Current(c), "RD_DATA_L", "rem", "lo")
      BY <1>5, <2>6, C20Reads
    <3>2. /\ orig'["rem"]["lo"] = reg[0]["RD_DATA_L"] /\ kept("quot", "hi") /\ kept("quot", "lo")
          /\ kept("rem", "hi")
      BY <1>2, <3>1
    <3> QED
      BY <1>5, <2>6, <3>2 DEF HasRead
  <2>7. n \in 1 .. 8
    BY <1>5, C20Reads
  <2> QED
    BY <2>1, <2>2, <2>3, <2>4, <2>5, <2>6, <2>7
<1> QED
  BY <1>1, <1>4, <1>5

\* The access is over for good: no byte is left to be written.
LEMMA RestoredFurther ==
  ASSUME BusTypes, ContextTypes, NEW c \in Contexts, op[c] = "restore", AtClear(c), ByteOK(c),
         SavedOK, kind = "c10" => \A l \in Lanes : "update" \notin reg[l].CONTROL,
         NEW n, n = i[c], HasRestored(n - 1), NEW byte, byte = act[c].byte,
         ~(Current(c).do = "modify" /\ act[c].do = "read" /\ Modified(byte, Current(c)) # byte)
  PROVE  HasRestored(n)
<1>1. /\ kind \in {"c10", "c20"} /\ Busy(c) /\ WorkOK(c) /\ IsDividers(orig)
  BY Cx0Assumption DEF ContextTypes, BusTypes, Busy
<1>3. ASSUME NEW r, NEW b, IsWrite(Current(c), r, b)
      PROVE  Performed(0, r, b)
  <2>1. act[c].do = "write" /\ act[c].byte = b
    BY <1>1, <1>3 DEF WorkOK, ByteOK, IsWrite
  <2> QED
    BY <1>3, <2>1 DEF AtClear, IsWrite, Lane
<1>4. CASE kind = "c10"
  <2>1. CASE n <= 6
    BY <1>4, <2>1, C10Restores DEF HasRestored
  <2>2. CASE n = 7
    <3>1. Performed(0, "QUOT_LOW", orig.quot.lo)
      BY <1>3, <1>4, <2>2, C10Restores
    <3>2. reg[0]["QUOT_LOW"] = boot.quot.lo
      BY <3>1 DEF Performed, SavedOK
    <3> QED
      BY <1>4, <2>2, <3>2 DEF HasRestored
  <2>3. CASE n = 8
    <3>1. Performed(0, "QUOT_HIGH", orig.quot.hi)
      BY <1>3, <1>4, <2>3, C10Restores
    <3>2. reg[0]["QUOT_HIGH"] = boot.quot.hi
      BY <3>1 DEF Performed, SavedOK
    <3> QED
      BY <1>4, <2>3, <3>2 DEF HasRestored
  <2>4. CASE n = 9
    <3>1. /\ Current(c).lane = 0 /\ Current(c).reg = "CONTROL"
          /\ Current(c).do = "modify" /\ "update" \in Current(c).set
      BY <1>4, <2>4, C10Restores
    <3>2. act[c].do = "write"
      <4>1. SUFFICES ASSUME act[c].do = "read" PROVE FALSE
        BY <1>1 DEF WorkOK
      <4>2. byte = reg[0].CONTROL /\ "update" \notin byte
        BY <1>4, <3>1, <4>1 DEF AtClear, Lane, Lanes
      <4>3. "update" \in Modified(byte, Current(c))
        BY <3>1 DEF Modified
      <4> QED
        BY <3>1, <4>1, <4>2, <4>3
    <3>3. Performed(0, "CONTROL", act[c].byte) /\ "update" \in act[c].byte
      BY <3>1, <3>2 DEF AtClear, Lane, ByteOK
    <3>4. pll.quot = [hi |-> reg[0].QUOT_HIGH, lo |-> reg[0].QUOT_LOW]
      BY <3>3 DEF Performed
    <3>5. pll.quot = boot.quot
      <4>1. reg[0].QUOT_LOW = boot.quot.lo /\ reg[0].QUOT_HIGH = boot.quot.hi
        BY <1>4, <2>4 DEF HasRestored
      <4>2. boot.quot = [hi |-> boot.quot.hi, lo |-> boot.quot.lo]
        BY DEF BusTypes, IsDividers, IsWord
      <4> QED
        BY <3>4, <4>1, <4>2, Zenon
    <3> QED
      BY <1>4, <2>4, <3>5 DEF HasRestored
  <2> QED
    BY <1>4, <2>1, <2>2, <2>3, <2>4, C10Restores
<1>5. CASE kind = "c20"
  <2>1. CASE n \in {1, 5, 9}
    <3>1. reg[0]["WR_ADDRESS_H"] = {"page"}
      BY <1>3, <1>5, <2>1, C20Restores DEF Performed
    <3> QED
      BY <1>5, <2>1, <3>1 DEF HasRestored
  <2>2. CASE n \in {2, 6, 10}
    <3>1. /\ n = 2 => IsWrite(Current(c), "WR_ADDRESS_L", {"quot"})
          /\ n = 6 => IsWrite(Current(c), "WR_ADDRESS_L", {"rem"})
          /\ n = 10 => IsWrite(Current(c), "WR_ADDRESS_L", {"frac_update"})
      BY <1>5, C20Restores
    <3>2. /\ n = 2 => reg[0]["WR_ADDRESS_L"] = {"quot"}
          /\ n = 6 => reg[0]["WR_ADDRESS_L"] = {"rem"}
          /\ n = 10 => reg[0]["WR_ADDRESS_L"] = {"frac_update"}
      BY <1>3, <3>1 DEF Performed
    <3> QED
      BY <1>5, <2>2, <3>2 DEF HasRestored
  <2>3. CASE n \in {3, 7, 11}
    <3>1. /\ n = 3 => IsWrite(Current(c), "WR_DATA_H", orig.quot.hi)
          /\ n = 7 => IsWrite(Current(c), "WR_DATA_H", orig.rem.hi)
      BY <1>5, C20Restores
    <3>2. /\ n = 3 => reg[0]["WR_DATA_H"] = boot.quot.hi
          /\ n = 7 => reg[0]["WR_DATA_H"] = boot.rem.hi
      <4>1. /\ n = 3 => Performed(0, "WR_DATA_H", orig.quot.hi)
            /\ n = 7 => Performed(0, "WR_DATA_H", orig.rem.hi)
        BY <1>3, <3>1, Zenon
      <4>2. /\ n = 3 => reg[0]["WR_DATA_H"] = orig.quot.hi
            /\ n = 7 => reg[0]["WR_DATA_H"] = orig.rem.hi
        BY <4>1 DEF Performed
      <4> QED
        BY <1>5, <4>2 DEF SavedOK
    <3> QED
      BY <1>5, <2>3, <3>2 DEF HasRestored
  <2>4. CASE n = 4
    <3>1. Performed(0, "WR_DATA_L", orig.quot.lo)
      BY <1>3, <1>5, <2>4, C20Restores
    <3>2. sram.quot = [hi |-> boot.quot.hi, lo |-> boot.quot.lo]
      BY <1>5, <2>4, <3>1 DEF Performed, SavedOK, HasRestored
    <3>3. boot.quot = [hi |-> boot.quot.hi, lo |-> boot.quot.lo]
      BY DEF BusTypes, IsDividers, IsWord
    <3>4. sram.quot = boot.quot
      BY <3>2, <3>3, Zenon
    <3> QED
      BY <1>5, <2>4, <3>4 DEF HasRestored
  <2>5. CASE n = 8
    <3>1. Performed(0, "WR_DATA_L", orig.rem.lo)
      BY <1>3, <1>5, <2>5, C20Restores
    <3>2. sram.rem = [hi |-> boot.rem.hi, lo |-> boot.rem.lo]
      BY <1>5, <2>5, <3>1 DEF Performed, SavedOK, HasRestored
    <3>3. boot.rem = [hi |-> boot.rem.hi, lo |-> boot.rem.lo]
      BY DEF BusTypes, IsDividers, IsWord
    <3>4. sram.rem = boot.rem
      BY <3>2, <3>3, Zenon
    <3> QED
      BY <1>5, <2>5, <3>4 DEF HasRestored
  <2>6. CASE n = 12
    <3>1. Performed(0, "WR_DATA_L", {"update"})
      BY <1>3, <1>5, <2>6, C20Restores
    <3>2. pll = sram /\ sram.quot = boot.quot /\ sram.rem = boot.rem
      BY <1>5, <2>6, <3>1 DEF Performed, HasRestored
    <3>3. sram = [quot |-> sram.quot, rem |-> sram.rem] /\ boot = [quot |-> boot.quot, rem |-> boot.rem]
      BY DEF BusTypes, IsDividers
    <3>4. sram = boot
      BY <3>2, <3>3, Zenon
    <3> QED
      BY <1>5, <2>6, <3>2, <3>4 DEF HasRestored
  <2>7. n \in 1 .. 12
    BY <1>5, C20Restores
  <2> QED
    BY <2>1, <2>2, <2>3, <2>4, <2>5, <2>6, <2>7
<1> QED
  BY <1>1, <1>4, <1>5

\* A new access has nothing to write but its own byte.
LEMMA StartByte ==
  ASSUME NEW c, NEW a, Current(c)' = a, act'[c] = StartOf(a)
  PROVE  ByteOK(c)'
<1>1. /\ act'[c].do = "write" => a.do = "write"
      /\ a.do = "write" => act'[c].byte = a.set
  BY StartOK
<1> QED
  BY <1>1 DEF ByteOK

\* Steps that leave the PHY and the operations alone.
LEMMA MoveProgress ==
  ASSUME TransactionInv, ProgressInv,
         UNCHANGED <<kind, reg, sram, pll, orig, mod, op, i, overlap, gaveUp, boot>>,
         \A c \in Contexts : Busy(c) =>
           /\ act'[c].do = act[c].do
           /\ act[c].do = "write" => act'[c].byte = act[c].byte
  PROVE  ProgressInv'
<1>1. \A c \in Contexts : /\ Busy(c)' <=> Busy(c)
                          /\ Busy(c) => Current(c)' = Current(c)
  BY StaysOK
<1>2. ASSUME ~overlap, ~gaveUp, NEW c \in Contexts, Busy(c)' PROVE ByteOK(c)'
  BY <1>1, <1>2 DEF ProgressInv, ByteOK
<1> QED
  BY <1>2 DEF ProgressInv, OthersKept, HasRead, HasRestored, SavedOK

LEMMA SendProgress ==
  ASSUME TransactionInv, ProgressInv, NEW c \in Contexts, Send(c)
  PROVE  ProgressInv'
<1>1. /\ UNCHANGED <<kind, reg, sram, pll, orig, mod, op, i, overlap, gaveUp, boot>>
      /\ act' = [act EXCEPT ![c].step = "ack"]
  BY DEF Send, Goto, phy, past
<1>2. \A d \in Contexts : act'[d].do = act[d].do /\ act'[d].byte = act[d].byte
  BY <1>1 DEF TransactionInv, ContextTypes
<1> QED
  BY <1>1, <1>2, MoveProgress

LEMMA AckProgress ==
  ASSUME TransactionInv, ProgressInv, NEW c \in Contexts, Ack(c)
  PROVE  ProgressInv'
<1>1. /\ UNCHANGED <<kind, reg, sram, pll, orig, mod, op, i, overlap, gaveUp, boot>>
      /\ \/ act' = [act EXCEPT ![c].step = "clear",
                               ![c].byte = IF act[c].do = "read" THEN status[Lane(c)].data ELSE @]
         \/ act' = [act EXCEPT ![c].step = "reset"]
  BY DEF Ack, Goto, phy, past, Lane
<1>2. \A d \in Contexts : /\ act'[d].do = act[d].do
                          /\ act[d].do = "write" => act'[d].byte = act[d].byte
  <2>1. CASE act' = [act EXCEPT ![c].step = "reset"]
    BY <2>1 DEF TransactionInv, ContextTypes
  <2>2. CASE act' = [act EXCEPT ![c].step = "clear",
                       ![c].byte = IF act[c].do = "read" THEN status[Lane(c)].data ELSE @]
    BY <2>2 DEF TransactionInv, ContextTypes
  <2> QED
    BY <1>1, <2>1, <2>2
<1> QED
  BY <1>1, <1>2, MoveProgress

LEMMA ResetProgress ==
  ASSUME TransactionInv, ProgressInv, NEW c \in Contexts, Reset(c)
  PROVE  ProgressInv'
<1>1. UNCHANGED <<kind, reg, sram, pll, overlap, boot>>
  BY DEF Reset, phy
<1>2. CASE act[c].try < Tries
  <2>1. /\ UNCHANGED <<orig, mod, op, i, gaveUp>>
        /\ act' = [act EXCEPT ![c].step = "send", ![c].try = @ + 1]
    BY <1>2 DEF Reset
  <2>2. \A d \in Contexts : act'[d].do = act[d].do /\ act'[d].byte = act[d].byte
    BY <2>1 DEF TransactionInv, ContextTypes
  <2> QED
    BY <1>1, <2>1, <2>2, MoveProgress
<1>3. CASE ~(act[c].try < Tries)
  <2>1. gaveUp'
    BY <1>3 DEF Reset
  <2> QED
    BY <1>1, <2>1 DEF ProgressInv
<1> QED
  BY <1>2, <1>3

LEMMA RefuseProgress ==
  ASSUME TransactionInv, ProgressInv, NEW l \in Lanes, Refuse(l)
  PROVE  ProgressInv'
<1>1. UNCHANGED <<kind, reg, sram, pll, orig, mod, op, i, act, overlap, gaveUp, boot>>
  BY DEF Refuse, phy, past
<1> QED
  BY <1>1, MoveProgress

LEMMA AnswerProgress ==
  ASSUME TransactionInv, ProgressInv, NEW l \in Lanes, Answer(l)
  PROVE  ProgressInv'
<1>1. /\ UNCHANGED <<kind, orig, mod, op, i, act, overlap, gaveUp, boot>>
      /\ Pending(l) /\ BusTypes /\ ContextTypes /\ OrderOK
      /\ \A c \in Contexts : Busy(c)' <=> Busy(c)
  BY DEF Answer, past, TransactionInv, Busy
<1>2. CASE UNCHANGED phy
  BY <1>1, <1>2, MoveProgress DEF phy
<1>3. CASE ctl[l].cmd # "read" /\ Perform(l, ctl[l])
  <2>1. PICK t : t = ctl[l]
    OBVIOUS
  <2>2. /\ Perform(l, t) /\ t.reg \in Registers
        /\ kind = "c10" => t.reg \in Modified2 \cup Quotients
    BY <1>1, <1>3, <2>1 DEF BusTypes
  <2>3. ASSUME kind = "c10"
        PROVE  pll'.rem = boot.rem /\ \A k \in Lanes : "update" \notin reg'[k].CONTROL
    <3>1. pll'.rem = pll.rem
      BY <1>1, <2>2, <2>3, PerformIs DEF Modified2, Quotients
    <3>2. \A k \in Lanes \ {l} : reg'[k] = reg[k]
      BY <1>1, <2>2, PerformIs
    <3>3. CASE t.reg = "CONTROL"
      <4>1. Performed(l, t.reg, t.data)'
        BY <1>1, <2>2, PerformIs, Zenon
      <4>2. reg'[l].CONTROL = t.data \ {"update"}
        BY <3>3, <4>1 DEF Performed
      <4> QED
        BY <2>3, <3>1, <3>2, <4>2 DEF ProgressInv
    <3>4. CASE t.reg # "CONTROL"
      <4>1. "CONTROL" \in Registers \ {t.reg, "RD_DATA_H", "RD_DATA_L"}
        BY <3>4 DEF Registers, Modified2
      <4>2. reg'[l]["CONTROL"] = reg[l]["CONTROL"]
        BY <1>1, <2>2, <4>1, PerformIs
      <4> QED
        BY <2>3, <3>1, <3>2, <4>2 DEF ProgressInv
    <3> QED
      BY <3>3, <3>4
  <2>4. ASSUME ~overlap, ~gaveUp
        PROVE  /\ OthersKept'
               /\ \A c \in Contexts : Busy(c)' => ByteOK(c)'
               /\ op'["sync"] = "read" => HasRead(i["sync"] - 1)'
               /\ op'["sync"] # "read" => SavedOK'
               /\ \A c \in Contexts : op'[c] = "restore" => HasRestored(i[c] - 1)'
               /\ op'["handler"] # "end" /\ op'["sync"] # "end"
    <3>1. PICK c \in Contexts : Busy(c) /\ Lane(c) = l /\ ctl[l] = Command(c)
      BY <1>1, <2>4, WhosePending
    <3>2. \A d \in Contexts : Busy(d) => d = c
      BY <1>1, <2>4, <3>1, OneBusy
    <3>3. act[c].do = "write" /\ t.reg = Current(c).reg /\ t.data = act[c].byte
      <4>1. act[c].do \in {"read", "write"}
        BY <1>1, <3>1 DEF ContextTypes, WorkOK
      <4> QED
        BY <1>3, <2>1, <3>1, <4>1 DEF Command
    <3>4. /\ OthersKept /\ ByteOK(c)
          /\ op["sync"] = "read" => HasRead(i["sync"] - 1)
          /\ op["sync"] # "read" => SavedOK
          /\ op[c] = "restore" => HasRestored(i[c] - 1)
      BY <2>4, <3>1 DEF ProgressInv
    <3>5. PICK n : n = i[c] - 1
      OBVIOUS
    <3>6. op[c] = "read" => c = "sync"
      BY <1>1 DEF OrderOK, Contexts
    <3>7. /\ OthersKept'
          /\ op[c] = "read" => HasRead(n)'
          /\ op[c] = "restore" => HasRestored(n)'
      <4>1. op[c] = "read" => HasRead(n)
        BY <3>4, <3>5, <3>6
      <4>2. op[c] = "restore" => HasRestored(n)
        BY <3>4, <3>5
      <4>3. UNCHANGED <<kind, orig, boot>>
        BY <1>1
      <4>4. /\ OthersKept => OthersKept'
            /\ op[c] = "read" /\ HasRead(n) => HasRead(n)'
            /\ op[c] = "restore" /\ HasRestored(n) => HasRestored(n)'
        BY <1>1, <2>2, <3>1, <3>3, <3>4, <3>5, <4>3, PerformKeeps
      <4> QED
        BY <3>4, <4>1, <4>2, <4>4
    <3>8. n = i'[c] - 1
      BY <1>1, <3>5
    <3>9. op["sync"] = "read" => c = "sync"
      BY <3>2 DEF Busy, Contexts
    <3>10. \A d \in Contexts : op[d] = "restore" => d = c
      BY <3>2 DEF Busy
    <3>11. SavedOK => SavedOK'
      BY <1>1 DEF SavedOK
    <3>12. \A d \in Contexts : Busy(d)' => ByteOK(d)'
      <4>1. \A d \in Contexts : Busy(d) => Current(d)' = Current(d)
        BY <1>1, StaysOK
      <4> QED
        BY <1>1, <3>2, <3>4, <4>1 DEF ByteOK
    <3>13. op["handler"] # "end" /\ op["sync"] # "end"
      BY <1>1, <2>4, <3>1 DEF OrderOK, Contexts, Busy
    <3>14. op["sync"] = "read" => HasRead(i["sync"] - 1)'
      BY <3>7, <3>8, <3>9
    <3>15. \A d \in Contexts : op[d] = "restore" => HasRestored(i[d] - 1)'
      BY <3>7, <3>8, <3>10
    <3> QED
      BY <1>1, <3>4, <3>7, <3>11, <3>12, <3>13, <3>14, <3>15
  <2> QED
    BY <1>1, <2>3, <2>4 DEF ProgressInv
<1> QED
  BY <1>2, <1>3 DEF Answer

LEMMA ClearProgress ==
  ASSUME TransactionInv, ProgressInv, NEW c \in Contexts, Clear(c)
  PROVE  ProgressInv'
<1>1. /\ UNCHANGED <<kind, reg, sram, pll, overlap, gaveUp, boot>> /\ act[c].step = "clear"
      /\ Busy(c) /\ BusTypes /\ ContextTypes /\ OrderOK /\ Conclude(c, act[c].byte)
  BY DEF Clear, May, phy, past, TransactionInv
<1> SUFFICES ASSUME ~overlap, ~gaveUp
             PROVE  /\ OthersKept'
                    /\ \A d \in Contexts : Busy(d)' => ByteOK(d)'
                    /\ op'["sync"] = "read" => HasRead(i["sync"] - 1)'
                    /\ op'["sync"] # "read" => SavedOK'
                    /\ \A d \in Contexts : op'[d] = "restore" => HasRestored(i[d] - 1)'
                    /\ op'["handler"] = "end" => pll' = boot'
                    /\ op'["sync"] = "end" => pll' = boot'
  BY <1>1 DEF ProgressInv
<1>2. /\ OthersKept /\ ByteOK(c)
      /\ op["sync"] = "read" => HasRead(i["sync"] - 1)
      /\ op["sync"] # "read" => SavedOK
      /\ op[c] = "restore" => HasRestored(i[c] - 1)
      /\ kind = "c10" => pll.rem = boot.rem /\ \A l \in Lanes : "update" \notin reg[l].CONTROL
  BY <1>1 DEF ProgressInv
<1>3. PICK n, byte : n = i[c] /\ byte = act[c].byte
  OBVIOUS
<1>4. /\ kind \in {"c10", "c20"} /\ op[c] \in BusyOps /\ n \in 1 .. Size(op[c])
      /\ Lane(c) \in Lanes /\ AccessOK(Current(c)) /\ AtClear(c) /\ WorkOK(c)
  BY <1>1, <1>3, CurrentOK DEF TransactionInv, TransactionOK, ContextTypes
<1>5. /\ \A d \in Contexts \ {c} : /\ ~Busy(d) /\ op'[d] = op[d] /\ ~Busy(d)'
                                   /\ op[d] \notin {"read", "restore", "end"}
                                   /\ op'[d] \notin {"read", "restore", "end"}
      /\ op[c] = "read" <=> op["sync"] = "read"
  <2>1. \A d \in Contexts \ {c} : ~Busy(d)
    BY <1>1, OneBusy
  <2>2. \A d \in Contexts \ {c} : op'[d] = op[d]
    BY <1>1, ConcludeKeeps
  <2>3. \A d \in Contexts \ {c} : op[d] \notin {"read", "restore", "end"}
    BY <1>1, <2>1 DEF OrderOK, Contexts, Busy
  <2>4. op[c] = "read" <=> op["sync"] = "read"
    BY <1>1, <2>3 DEF OrderOK, Contexts
  <2> QED
    BY <2>1, <2>2, <2>3, <2>4 DEF Busy
<1>6. OthersKept'
  BY <1>1, <1>2 DEF OthersKept
<1>7. op[c] = "read" => HasRead(n - 1)
  BY <1>2, <1>3, <1>5 DEF OrderOK, Contexts
<1>8. op[c] # "read" => orig' = orig /\ SavedOK /\ SavedOK'
  <2>1. op[c] # "read" => orig' = orig
    BY <1>1, ConcludeKeeps
  <2> QED
    BY <1>1, <1>2, <1>5, <2>1 DEF SavedOK
<1>9. CASE /\ Current(c).do = "modify" /\ act[c].do = "read"
           /\ act' = [act EXCEPT ![c] = [step |-> "send", do |-> "write", try |-> 1,
                                         byte |-> Modified(act[c].byte, Current(c))]]
           /\ UNCHANGED <<orig, mod, op, i>>
  <2>1. Current(c)' = Current(c)
    BY <1>1, <1>9, StaysOK
  <2>2. act'[c].do = "write" /\ act'[c].byte = Modified(byte, Current(c))
    BY <1>1, <1>3, <1>9 DEF ContextTypes
  <2>3. "other" \in byte /\ "other" \notin Current(c).clear
    BY <1>2, <1>3, <1>4, <1>9 DEF AtClear, AccessOK, OthersKept, Modified2
  <2>4. ByteOK(c)'
    BY <1>9, <2>1, <2>2, <2>3 DEF ByteOK, Modified
  <2>5. (HasRead(n - 1) => HasRead(n - 1)') /\ (HasRestored(n - 1) => HasRestored(n - 1)')
    BY <1>1, <1>9 DEF HasRead, HasRestored
  <2>6. op[c] = "restore" => HasRestored(n - 1)'
    BY <1>2, <1>3, <2>5
  <2>7. op[c] = "read" => HasRead(n - 1)' /\ c = "sync"
    BY <1>1, <1>7, <2>5 DEF OrderOK, Contexts
  <2>8. op' = op /\ i' = i /\ n = i'[c] /\ op[c] # "end"
    BY <1>3, <1>4, <1>9 DEF BusyOps
  <2>9. op'["sync"] # "read" => SavedOK'
    BY <1>5, <1>8, <2>8
  <2>10. \A d \in Contexts : op'[d] = "restore" => HasRestored(i[d] - 1)'
    BY <1>5, <2>6, <2>8
  <2>11. op'["sync"] = "read" => HasRead(i["sync"] - 1)'
    BY <1>5, <2>7, <2>8
  <2> QED
    BY <1>5, <1>6, <2>4, <2>8, <2>9, <2>10, <2>11 DEF Contexts
<1>10. ASSUME ~(Current(c).do = "modify" /\ act[c].do = "read"
                /\ Modified(byte, Current(c)) # byte)
       PROVE  /\ op[c] = "read" => HasRead(n)'
              /\ op[c] = "restore" => HasRestored(n) /\ HasRestored(n)'
  <2>1. ASSUME op[c] = "read" PROVE HasRead(n)'
    <3>1. HasRead(n - 1) /\ Conclude(c, byte) /\ UNCHANGED <<kind, reg, sram, boot>>
      BY <1>1, <1>3, <1>7, <2>1
    <3> QED
      BY <1>1, <1>2, <1>3, <1>4, <2>1, <3>1, ReadFurther
  <2>2. ASSUME op[c] = "restore" PROVE HasRestored(n) /\ HasRestored(n)'
    <3>1. HasRestored(n - 1)
      BY <1>2, <1>3, <2>2
    <3>2. SavedOK
      BY <1>8, <2>2
    <3>3. HasRestored(n)
      BY <1>1, <1>2, <1>3, <1>4, <1>10, <2>2, <3>1, <3>2, RestoredFurther
    <3>4. HasRestored(n)'
      BY <1>1, <3>3 DEF HasRestored
    <3> QED
      BY <3>3, <3>4
  <2> QED
    BY <2>1, <2>2
<1>11. CASE /\ i[c] < Size(op[c]) /\ op' = op /\ mod' = mod
            /\ i' = [i EXCEPT ![c] = i[c] + 1]
            /\ act' = [act EXCEPT ![c] = StartOf(Accesses(op[c], orig', mod)[i[c] + 1])]
            /\ ~(Current(c).do = "modify" /\ act[c].do = "read"
                 /\ Modified(byte, Current(c)) # byte)
  <2>1. i'[c] = n + 1 /\ op'[c] = op[c] /\ n = i'[c] - 1
    BY <1>1, <1>3, <1>4, <1>11 DEF ContextTypes
  <2>2. act'[c] = StartOf(Accesses(op'[c], orig', mod')[i'[c]])
    BY <1>1, <1>3, <1>11, <2>1 DEF ContextTypes
  <2>3. PICK a : a = Accesses(op'[c], orig', mod')[i'[c]]
    OBVIOUS
  <2>4. Current(c)' = a /\ act'[c] = StartOf(a)
    BY <1>1, <2>2, <2>3, CurrentPrime, Zenon
  <2>5. ByteOK(c)'
    BY <2>4, StartByte, Zenon
  <2>6. /\ op[c] = "read" => HasRead(n)'
        /\ op[c] = "restore" => HasRestored(n)'
    BY <1>10, <1>11
  <2>7. op'["sync"] # "read" => SavedOK'
    BY <1>5, <1>8, <1>11
  <2>8. \A d \in Contexts : op'[d] = "restore" => HasRestored(i[d] - 1)'
    BY <1>5, <2>1, <2>6
  <2>9. op'["sync"] = "read" => HasRead(i["sync"] - 1)'
    <3>1. op["sync"] = "read" => c = "sync"
      BY <1>5 DEF Contexts
    <3> QED
      BY <1>11, <2>1, <2>6, <3>1
  <2>10. \A d \in Contexts : op'[d] # "end"
    BY <1>4, <1>5, <1>11 DEF BusyOps
  <2> QED
    BY <1>5, <1>6, <2>5, <2>7, <2>8, <2>9, <2>10 DEF Contexts
<1>12. CASE /\ i[c] = Size(op[c])
            /\ op' = [op EXCEPT ![c] = NextOp(op[c])]
            /\ i' = [i EXCEPT ![c] = 1]
            /\ op[c] \in {"read", "return"} =>
                 act' = [act EXCEPT ![c] = StartOf(Accesses(NextOp(op[c]), orig', mod')[1])]
            /\ ~(Current(c).do = "modify" /\ act[c].do = "read"
                 /\ Modified(byte, Current(c)) # byte)
  <2>1. op'[c] = NextOp(op[c]) /\ i'[c] = 1
    BY <1>1, <1>12 DEF ContextTypes
  <2>2. Busy(c)' => op[c] \in {"read", "return"}
    BY <1>4, <2>1 DEF NextOp, BusyOps, Busy
  <2>3. Busy(c)' => ByteOK(c)'
    <3>1. SUFFICES ASSUME op[c] \in {"read", "return"} PROVE ByteOK(c)'
      BY <2>2
    <3>2. PICK a : a = Accesses(op'[c], orig', mod')[i'[c]]
      OBVIOUS
    <3>3. act'[c] = StartOf(a)
      BY <1>1, <1>12, <2>1, <3>1, <3>2 DEF ContextTypes
    <3>4. Current(c)' = a
      BY <1>1, <3>2, CurrentPrime, Zenon
    <3> QED
      BY <3>3, <3>4, StartByte, Zenon
  <2>4. ASSUME op[c] = "read" PROVE SavedOK'
    <3>1. HasRead(n)' /\ n = IF kind = "c10" THEN 2 ELSE 8
      BY <1>3, <1>10, <1>12, <2>4 DEF Size
    <3>2. IsDividers(orig)' /\ boot' = boot /\ IsDividers(boot)
      BY <1>1, ConcludeOrig DEF BusTypes
    <3>3. CASE kind = "c10"
      <4>1. orig'.quot.lo = boot.quot.lo /\ orig'.quot.hi = boot.quot.hi
        BY <1>1, <3>1, <3>2, <3>3 DEF HasRead
      <4>2. PICK q, r : q = orig'.quot /\ r = boot.quot
        OBVIOUS
      <4>3. q = [hi |-> q.hi, lo |-> q.lo] /\ r = [hi |-> r.hi, lo |-> r.lo]
        BY <3>2, <4>2, Zenon DEF IsDividers, IsWord
      <4>4. q = r
        BY <4>1, <4>2, <4>3, Zenon
      <4> QED
        BY <1>1, <3>2, <3>3, <4>2, <4>4 DEF SavedOK
    <3>4. CASE kind = "c20"
      <4>1. /\ orig'.quot.lo = boot.quot.lo /\ orig'.quot.hi = boot.quot.hi
            /\ orig'.rem.lo = boot.rem.lo /\ orig'.rem.hi = boot.rem.hi
        BY <1>1, <3>1, <3>2, <3>4 DEF HasRead
      <4>2. PICK q, r, u, v : /\ q = orig'.quot /\ r = boot.quot
                              /\ u = orig'.rem /\ v = boot.rem
        OBVIOUS
      <4>3. /\ q = [hi |-> q.hi, lo |-> q.lo] /\ r = [hi |-> r.hi, lo |-> r.lo]
            /\ u = [hi |-> u.hi, lo |-> u.lo] /\ v = [hi |-> v.hi, lo |-> v.lo]
        BY <3>2, <4>2, Zenon DEF IsDividers, IsWord
      <4>4. q = r /\ u = v
        BY <4>1, <4>2, <4>3, Zenon
      <4> QED
        BY <1>1, <3>2, <3>4, <4>2, <4>4 DEF SavedOK
    <3> QED
      BY <1>4, <3>3, <3>4
  <2>5. SavedOK'
    BY <1>8, <2>4
  <2>6. op'[c] = "end" => pll' = boot'
    <3>1. SUFFICES ASSUME op'[c] = "end" PROVE pll = boot
      BY <1>1
    <3>2. op[c] = "restore"
      BY <1>4, <2>1, <3>1 DEF NextOp, BusyOps
    <3>3. HasRestored(n) /\ n = IF kind = "c10" THEN 9 ELSE 12
      BY <1>3, <1>10, <1>12, <3>2 DEF Size
    <3>4. CASE kind = "c10"
      <4>1. pll.quot = boot.quot /\ pll.rem = boot.rem
        BY <1>2, <3>3, <3>4 DEF HasRestored
      <4>2. /\ pll = [quot |-> pll.quot, rem |-> pll.rem]
            /\ boot = [quot |-> boot.quot, rem |-> boot.rem]
        BY <1>1 DEF BusTypes, IsDividers
      <4> QED
        BY <4>1, <4>2, Zenon
    <3>5. CASE kind = "c20"
      BY <3>3, <3>5 DEF HasRestored
    <3> QED
      BY <1>4, <3>4, <3>5
  <2>7. op'[c] # "read"
    BY <1>4, <2>1 DEF NextOp, BusyOps
  <2>8. HasRestored(0)'
    BY DEF HasRestored
  <2>9. \A d \in Contexts : op'[d] = "restore" => HasRestored(i[d] - 1)'
    <3>1. \A d \in Contexts : op'[d] = "restore" => i'[d] - 1 = 0
      BY <1>5, <2>1
    <3> QED
      BY <2>8, <3>1
  <2>10. \A d \in Contexts : op'[d] = "end" => pll' = boot'
    BY <1>5, <2>6
  <2>11. \A d \in Contexts : op'[d] # "read"
    BY <1>5, <2>7
  <2> QED
    BY <1>5, <1>6, <2>3, <2>5, <2>9, <2>10, <2>11 DEF Contexts
<1> QED
  <2>1. \/ /\ Current(c).do = "modify" /\ act[c].do = "read"
           /\ Modified(byte, Current(c)) # byte
        \/ ~(Current(c).do = "modify" /\ act[c].do = "read"
             /\ Modified(byte, Current(c)) # byte)
    OBVIOUS
  <2>2. CASE /\ Current(c).do = "modify" /\ act[c].do = "read"
             /\ Modified(byte, Current(c)) # byte
    BY <1>1, <1>3, <1>9, <2>2 DEF Conclude
  <2>3. CASE ~(Current(c).do = "modify" /\ act[c].do = "read"
               /\ Modified(byte, Current(c)) # byte)
    BY <1>1, <1>3, <1>11, <1>12, <2>3, ConcludeCases
  <2> QED
    BY <2>2, <2>3

\* An operation begins with everything still to do.
LEMMA BeginProgress ==
  ASSUME TransactionInv, ProgressInv, NEW c \in Contexts, ~Busy(c),
         NEW o \in {"return", "restore"}, Begin(c, o),
         UNCHANGED <<kind, device, bus, phy, orig, faults, gaveUp, boot>>,
         overlap' \in BOOLEAN,
         \A d \in Contexts \ {c} : Busy(d) => mod' = mod,
         ~overlap' => ~overlap /\ \A d \in Contexts : ~Busy(d),
         c = "handler" \/ op["handler"] # "end", op[c] # "read", op["sync"] \notin {"read", "end"}
  PROVE  ProgressInv'
<1>1. /\ BusTypes /\ ContextTypes /\ OrderOK /\ UNCHANGED <<reg, sram, pll, kind, boot, orig>>
      /\ gaveUp' = gaveUp
  BY DEF TransactionInv, phy
<1>2. op'[c] = o /\ \A d \in Contexts \ {c} : op'[d] = op[d]
  BY <1>1, BeginTypes
<1>3. i'[c] = 1 /\ act'[c] = StartOf(Accesses(o, orig, mod')[1])
  BY <1>1 DEF Begin, ContextTypes
<1>4. ByteOK(c)'
  <2>1. PICK a : a = Accesses(op'[c], orig', mod')[i'[c]]
    OBVIOUS
  <2>2. act'[c] = StartOf(a)
    BY <1>1, <1>2, <1>3, <2>1
  <2>3. Current(c)' = a
    BY <1>1, <2>1, CurrentPrime, Zenon
  <2> QED
    BY <2>2, <2>3, StartByte, Zenon
<1>5. kind' = "c10" => /\ pll'.rem = boot'.rem
                       /\ \A l \in Lanes : "update" \notin reg'[l].CONTROL
  BY <1>1 DEF ProgressInv
<1>6. ASSUME ~overlap', ~gaveUp'
      PROVE  /\ OthersKept'
             /\ \A d \in Contexts : Busy(d)' => ByteOK(d)'
             /\ op'["sync"] = "read" => HasRead(i["sync"] - 1)'
             /\ op'["sync"] # "read" => SavedOK'
             /\ \A d \in Contexts : op'[d] = "restore" => HasRestored(i[d] - 1)'
             /\ op'["handler"] = "end" => pll' = boot'
             /\ op'["sync"] = "end" => pll' = boot'
  <2>1. \A d \in Contexts \ {c} : ~Busy(d)'
    BY <1>2, <1>6 DEF Busy
  <2>2. OthersKept /\ SavedOK
    BY <1>1, <1>6 DEF ProgressInv
  <2>3. OthersKept' /\ SavedOK'
    BY <1>1, <2>2 DEF OthersKept, SavedOK
  <2>4. op'["sync"] \notin {"read", "end"} /\ op'["handler"] # "end"
    BY <1>2 DEF Contexts
  <2>5. HasRestored(0)'
    BY DEF HasRestored
  <2>6. \A d \in Contexts : op'[d] = "restore" => d = c
    BY <2>1 DEF Busy
  <2>7. \A d \in Contexts : op'[d] = "restore" => i'[d] - 1 = 0
    BY <1>3, <2>6
  <2>8. \A d \in Contexts : op'[d] = "restore" => HasRestored(i[d] - 1)'
    BY <2>5, <2>7
  <2> QED
    BY <1>4, <2>1, <2>3, <2>4, <2>8
<1> QED
  BY <1>5, <1>6 DEF ProgressInv

LEMMA OtherProgress ==
  ASSUME TransactionInv, ProgressInv, Expire \/ CtrlC \/ Done
  PROVE  ProgressInv'
<1>1. BusTypes /\ ContextTypes /\ OrderOK
  BY DEF TransactionInv
<1>2. CASE Expire
  <2>1. /\ op["sync"] = "wait" /\ op["handler"] = "off" /\ Begin("handler", "return")
        /\ UNCHANGED <<kind, device, bus, phy, orig, faults, past>>
    BY <1>2 DEF Expire
  <2>2. ~overlap /\ (\A d \in Contexts : ~Busy(d)) /\ "handler" \in Contexts
    BY <1>1, <2>1 DEF OrderOK, Contexts, Busy
  <2>3. UNCHANGED <<gaveUp, overlap, boot>> /\ overlap' \in BOOLEAN
    BY <1>1, <2>1 DEF past, ContextTypes
  <2> QED
    BY <2>1, <2>2, <2>3, BeginProgress
<1>3. CASE CtrlC
  <2>1. /\ op["sync"] = "wait" /\ op["handler"] # "end"
        /\ overlap' = (op["handler"] # "off")
        /\ UNCHANGED <<kind, device, bus, phy, orig, mod, faults, gaveUp, boot>>
        /\ Begin("sync", "restore")
    BY <1>3 DEF CtrlC
  <2>2. ~overlap /\ ~Busy("sync") /\ "sync" \in Contexts /\ overlap' \in BOOLEAN
    BY <1>1, <2>1 DEF OrderOK, Contexts, Busy
  <2>3. ~overlap' => ~overlap /\ \A d \in Contexts : ~Busy(d)
    BY <2>1, <2>2 DEF Contexts, Busy
  <2> QED
    BY <2>1, <2>2, <2>3, BeginProgress
<1>4. CASE Done
  <2>1. /\ op["sync"] = "wait" /\ op["handler"] = "end" /\ op' = [op EXCEPT !["sync"] = "end"]
        /\ UNCHANGED <<kind, reg, sram, pll, orig, mod, i, act, gaveUp, overlap, boot>>
    BY <1>4 DEF Done, phy, past
  <2>2. op'["sync"] = "end" /\ op'["handler"] = "end"
    BY <1>1, <2>1 DEF ContextTypes, Contexts
  <2>3. \A d \in Contexts : ~Busy(d)' /\ op'[d] # "restore"
    BY <2>2 DEF Contexts, Busy
  <2> QED
    BY <2>1, <2>2, <2>3 DEF ProgressInv, OthersKept, SavedOK
<1> QED
  BY <1>2, <1>3, <1>4

LEMMA InitProgress == Init => ProgressInv
<1> SUFFICES ASSUME Init PROVE ProgressInv
  OBVIOUS
<1>1. /\ op["sync"] = "read" /\ op["handler"] = "off" /\ i["sync"] = 1
      /\ sram = boot /\ pll = boot /\ kind \in {"c10", "c20"}
  BY Cx0Assumption DEF Init, Contexts
<1>2. /\ \A l \in Lanes : /\ reg[l].CONTROL = {"other"} /\ "other" \in reg[l].CUSTOM_WIDTH
      /\ reg[0].QUOT_HIGH = boot.quot.hi /\ reg[0].QUOT_LOW = boot.quot.lo
  BY DEF Init, Lanes
<1>3. PICK a : a = Current("sync")
  OBVIOUS
<1>4. act["sync"] = StartOf(a)
  BY <1>3 DEF Init, Contexts
<1>5. ByteOK("sync")
  <2>1. /\ act["sync"].do = "write" => a.do = "write"
        /\ a.do = "write" => act["sync"].byte = a.set
    BY <1>4, StartOK
  <2> QED
    BY <1>3, <2>1 DEF ByteOK
<1>6. \A c \in Contexts : Busy(c) => ByteOK(c)
  BY <1>1, <1>5 DEF Contexts, Busy
<1>7. HasRead(0)
  BY <1>1, <1>2 DEF HasRead
<1>8. i["sync"] - 1 = 0
  BY <1>1
<1> QED
  BY <1>1, <1>2, <1>6, <1>7, <1>8 DEF ProgressInv, OthersKept, Contexts

LEMMA NextProgress == TransactionInv /\ ProgressInv /\ [Next]_vars => ProgressInv'
<1> SUFFICES ASSUME TransactionInv, ProgressInv, [Next]_vars PROVE ProgressInv'
  OBVIOUS
<1>1. ASSUME NEW c \in Contexts, Step(c) PROVE ProgressInv'
  BY <1>1, SendProgress, AckProgress, ClearProgress, ResetProgress DEF Step
<1>2. ASSUME NEW l \in Lanes, Answer(l) \/ Refuse(l) PROVE ProgressInv'
  BY <1>2, AnswerProgress, RefuseProgress
<1>3. CASE Expire \/ Done \/ CtrlC
  BY <1>3, OtherProgress
<1>4. CASE UNCHANGED vars
  <2>1. UNCHANGED <<kind, reg, sram, pll, orig, mod, op, i, act, overlap, gaveUp, boot>>
    BY <1>4 DEF vars, phy, past
  <2> QED
    BY <2>1, MoveProgress
<1> QED
  BY <1>1, <1>2, <1>3, <1>4 DEF Next

-----------------------------------------------------------------------------
(* When the thread and a handler restore a C10 at the same time.           *)

LEMMA C10First ==
  ASSUME kind = "c10", NEW c, op[c] = "program", i[c] = 1
  PROVE  Current(c).lane = 0 /\ Current(c).reg = "CONTROL" /\ Current(c).do = "modify"
<1>1. PICK p, d : d = mod /\ p = C10Program(d)
  OBVIOUS
<1>2. p[1] = Access(0, "modify", "CONTROL", {}, {"access"}, TRUE)
  BY <1>1, C10Table, Zenon
<1>3. Current(c) = p[1]
  BY <1>1 DEF Current, Accesses
<1> QED
  BY <1>2, <1>3 DEF Access

\* The parts of CalmInv that a step has to keep.
LEMMA CalmParts ==
  ASSUME TransactionInv, ProgressInv, CalmInv, Calm
  PROVE  /\ BusTypes /\ ContextTypes /\ OrderOK /\ kind = "c10" /\ Prompt
         /\ refused = 0 /\ (\A l \in Lanes : ~status[l].error)
         /\ NoUpdateLeft /\ CommandsOK /\ HandlerOK
         /\ \A c \in Contexts : Busy(c) =>
              /\ BytesOK(c) /\ WorkOK(c) /\ AccessOK(Current(c)) /\ Lane(c) \in Lanes
         /\ op["sync"] # "read" => orig.quot = boot.quot
         /\ op["sync"] \in {"read", "program"} => op["handler"] = "off"
<1>1. BusTypes /\ ContextTypes /\ OrderOK
  BY DEF TransactionInv
<1>2. \A c \in Contexts : Busy(c) => WorkOK(c) /\ AccessOK(Current(c)) /\ Lane(c) \in Lanes
  BY <1>1, CurrentOK DEF ContextTypes
<1>3. op["sync"] \in {"read", "program"} => op["handler"] = "off"
  BY <1>1 DEF OrderOK
<1> QED
  BY <1>1, <1>2, <1>3 DEF CalmInv, Calm

\* No context moves when another does, unless it is the one that reads.
LEMMA OthersStay ==
  ASSUME kind' = kind, NEW c \in Contexts, NEW d \in Contexts \ {c},
         op'[d] = op[d], i'[d] = i[d], act'[d] = act[d],
         Busy(d) => orig' = orig /\ mod' = mod
  PROVE  /\ Busy(d)' <=> Busy(d)
         /\ Busy(d) => /\ Current(d)' = Current(d) /\ Lane(d)' = Lane(d)
                       /\ BytesOK(d) => BytesOK(d)'
                       /\ Command(d)' = Command(d)
<1>1. /\ Busy(d)' <=> Busy(d)
      /\ Busy(d) => Current(d)' = Current(d) /\ Lane(d)' = Lane(d)
  BY StaysOK
<1> QED
  BY <1>1 DEF BytesOK, Command

LEMMA SendCalm ==
  ASSUME TransactionInv, ProgressInv, CalmInv, NEW c \in Contexts, Send(c)
  PROVE  CalmInv'
<1> SUFFICES ASSUME Calm
             PROVE  /\ refused' = 0 /\ (\A l \in Lanes : ~status'[l].error)
                    /\ NoUpdateLeft' /\ CommandsOK' /\ HandlerOK'
                    /\ \A d \in Contexts : Busy(d)' => BytesOK(d)'
                    /\ op'["sync"] # "read" => orig'.quot = boot'.quot
  BY DEF CalmInv, Calm, Prompt, Send
<1>1. /\ UNCHANGED <<kind, device, status, reg, sram, pll, orig, mod, op, i, refused, boot>>
      /\ Busy(c) /\ act[c].step = "send" /\ act' = [act EXCEPT ![c].step = "ack"]
      /\ ctl' = [ctl EXCEPT ![Lane(c)] = Command(c)]
  BY DEF Send, May, Goto, phy, faults, past, Command, Lane
<1>2. /\ BusTypes /\ ContextTypes /\ OrderOK /\ kind = "c10" /\ Prompt
      /\ refused = 0 /\ (\A l \in Lanes : ~status[l].error)
      /\ NoUpdateLeft /\ HandlerOK
      /\ Lane(c) \in Lanes
      /\ \A d \in Contexts : Busy(d) => BytesOK(d)
      /\ op["sync"] # "read" => orig.quot = boot.quot
      /\ op["sync"] \in {"read", "program"} => op["handler"] = "off"
  BY <1>1, CalmParts
<1>3. \A l \in Lanes : ctl[l] = Idle
  BY <1>2 DEF Send, May, Pending
<1>4. /\ act'[c].step = "ack" /\ act'[c].do = act[c].do /\ act'[c].byte = act[c].byte
      /\ act'[c].try = act[c].try
      /\ \A d \in Contexts \ {c} : act'[d] = act[d]
  BY <1>1, <1>2 DEF ContextTypes
<1>5. \A d \in Contexts : /\ Busy(d)' <=> Busy(d)
                          /\ Busy(d) => Current(d)' = Current(d) /\ Lane(d)' = Lane(d)
  BY <1>1, StaysOK
<1>6. ctl'[Lane(c)] = Command(c) /\ \A l \in Lanes \ {Lane(c)} : ctl'[l] = Idle
  BY <1>1, <1>2, <1>3 DEF BusTypes
<1>7. Command(c)' = Command(c) /\ Command(c) # Idle
  BY <1>1, <1>4, <1>5 DEF Command, Idle
<1>8. CommandsOK'
  <2>1. /\ Busy(c)' /\ act'[c].step = "ack" /\ Lane(c)' = Lane(c)
        /\ ctl'[Lane(c)] = Command(c)'
    BY <1>1, <1>4, <1>5, <1>6, <1>7
  <2>2. \A l \in Lanes : Pending(l)' => l = Lane(c)
    BY <1>6 DEF Pending
  <2> QED
    BY <2>1, <2>2 DEF CommandsOK
<1>9. \A d \in Contexts : Busy(d)' => BytesOK(d)'
  <2>1. \A d \in Contexts : Busy(d) => BytesOK(d)'
    BY <1>2, <1>4, <1>5 DEF BytesOK
  <2> QED
    BY <1>5, <2>1
<1>10. NoUpdateLeft'
  <2>1. Early => Early'
    <3>1. SUFFICES ASSUME op["sync"] = "program", i["sync"] = 1, act["sync"].do = "read",
                          act["sync"].try = 1, Early PROVE Early'
      BY <1>1 DEF Early
    <3>2. c = "sync"
      BY <1>1, <1>2, <3>1 DEF Contexts, Busy
    <3>3. Lane(c) = 0
      BY <1>2, <3>1, <3>2, C10First DEF Lane
    <3>4. Pending(0)'
      BY <1>6, <1>7, <3>3 DEF Pending
    <3> QED
      BY <1>1, <1>4, <3>1, <3>2, <3>4 DEF Early
  <2> QED
    BY <1>1, <1>2, <2>1 DEF NoUpdateLeft
<1>11. HandlerOK'
  <2>1. ASSUME op["handler"] = "restore", Written("handler")' PROVE Written("handler")
    <3>1. "handler" \in Contexts /\ Busy("handler")
      BY <2>1 DEF Contexts, Busy
    <3>2. CASE c = "handler"
      BY <1>4, <1>5, <1>6, <1>7, <2>1, <3>1, <3>2 DEF Written
    <3>3. CASE c # "handler"
      <4>1. Command("handler") # Idle
        BY DEF Command, Idle
      <4>2. act'["handler"] = act["handler"] /\ Lane("handler") \in Lanes
        BY <1>2, <1>4, <3>1, <3>3, CurrentOK
      <4> QED
        BY <1>3, <2>1, <4>1, <4>2 DEF Written
    <3> QED
      BY <3>2, <3>3
  <2> QED
    BY <1>1, <1>2, <2>1 DEF HandlerOK
<1> QED
  BY <1>1, <1>2, <1>8, <1>9, <1>10, <1>11

LEMMA AckCalm ==
  ASSUME TransactionInv, ProgressInv, CalmInv, NEW c \in Contexts, Ack(c)
  PROVE  CalmInv'
<1> SUFFICES ASSUME Calm
             PROVE  /\ refused' = 0 /\ (\A l \in Lanes : ~status'[l].error)
                    /\ NoUpdateLeft' /\ CommandsOK' /\ HandlerOK'
                    /\ \A d \in Contexts : Busy(d)' => BytesOK(d)'
                    /\ op'["sync"] # "read" => orig'.quot = boot'.quot
  BY DEF CalmInv, Calm, Prompt, Ack
<1>1. /\ UNCHANGED <<kind, device, ctl, status, reg, sram, pll, orig, mod, op, i, refused, boot>>
      /\ Busy(c) /\ act[c].step = "ack"
      /\ \/ act' = [act EXCEPT ![c].step = "clear",
                               ![c].byte = IF act[c].do = "read" THEN status[Lane(c)].data ELSE @]
         \/ act' = [act EXCEPT ![c].step = "reset"]
  BY DEF Ack, May, Goto, bus, phy, past, Lane
<1>2. /\ BusTypes /\ ContextTypes /\ OrderOK /\ kind = "c10" /\ Prompt
      /\ refused = 0 /\ (\A l \in Lanes : ~status[l].error)
      /\ NoUpdateLeft /\ HandlerOK
      /\ Lane(c) \in Lanes /\ WorkOK(c) /\ AccessOK(Current(c))
      /\ \A d \in Contexts : Busy(d) => BytesOK(d)
      /\ op["sync"] # "read" => orig.quot = boot.quot
      /\ op["sync"] \in {"read", "program"} => op["handler"] = "off"
  BY <1>1, CalmParts
<1>3. (\A l \in Lanes : ~Pending(l)) /\ (\A l \in Lanes : ~Pending(l)')
  BY <1>1, <1>2 DEF Ack, May, Pending
<1>4. /\ act'[c].do = act[c].do /\ act'[c].try = act[c].try
      /\ act'[c].step \in {"clear", "reset"}
      /\ act[c].do = "write" => act'[c].byte = act[c].byte
      /\ act[c].do = "read" /\ act'[c].step = "clear" => act'[c].byte = status[Lane(c)].data
      /\ \A d \in Contexts \ {c} : act'[d] = act[d]
  <2>1. CASE act' = [act EXCEPT ![c].step = "reset"]
    BY <1>2, <2>1 DEF ContextTypes
  <2>2. CASE act' = [act EXCEPT ![c].step = "clear",
                       ![c].byte = IF act[c].do = "read" THEN status[Lane(c)].data ELSE @]
    <3>1. act'[c].do = act[c].do /\ (act[c].do = "write" => act'[c].byte = act[c].byte)
      BY <2>2 DEF TransactionInv, ContextTypes
    <3>2. act'[c].try = act[c].try /\ act'[c].step = "clear"
      BY <2>2 DEF TransactionInv, ContextTypes
    <3>3. ASSUME act[c].do = "read" PROVE act'[c].byte = status[Lane(c)].data
      <4>1. PICK b : b = status[Lane(c)].data
        OBVIOUS
      <4>2. act' = [act EXCEPT ![c].step = "clear", ![c].byte = b]
        BY <2>2, <3>3, <4>1
      <4>3. act[c] = [step |-> act[c].step, do |-> act[c].do, try |-> act[c].try,
                      byte |-> act[c].byte]
        BY DEF TransactionInv, ContextTypes
      <4>4. PICK a, s, x, t, y : /\ a = act[c] /\ s = a.step /\ x = a.do /\ t = a.try
                                 /\ y = a.byte
        OBVIOUS
      <4>5. a = [step |-> s, do |-> x, try |-> t, byte |-> y]
        BY <4>3, <4>4, Zenon
      <4>6. act'[c] = [[a EXCEPT !.step = "clear"] EXCEPT !.byte = b]
        BY <4>2, <4>4 DEF TransactionInv, ContextTypes
      <4> QED
        BY <4>1, <4>5, <4>6
    <3>4. \A d \in Contexts \ {c} : act'[d] = act[d]
      BY <2>2 DEF TransactionInv, ContextTypes
    <3> QED
      BY <3>1, <3>2, <3>3, <3>4
  <2> QED
    BY <1>1, <2>1, <2>2
<1>5. \A d \in Contexts : /\ Busy(d)' <=> Busy(d)
                          /\ Busy(d) => Current(d)' = Current(d) /\ Lane(d)' = Lane(d)
  BY <1>1, StaysOK
<1>6. Early => op["sync"] = "read" /\ c = "sync"
  <2>1. Early => c = "sync"
    BY <1>1, <1>2 DEF Early, Contexts, Busy
  <2> QED
    BY <1>1, <1>3, <2>1 DEF Early, Lanes
<1>7. NoUpdateLeft'
  <2>1. Early => Early'
    BY <1>1, <1>6 DEF Early
  <2> QED
    BY <1>1, <1>2, <2>1 DEF NoUpdateLeft
<1>8. BytesOK(c)'
  <2>1. ASSUME act[c].do = "read", act'[c].step = "clear", Current(c).do = "modify"
        PROVE  "update" \notin act'[c].byte
    <3>1. ~Early
      <4>1. SUFFICES ASSUME op["sync"] = "read", c = "sync" PROVE FALSE
        BY <1>6
      <4>2. Current(c).do = "read"
        BY <1>2, <4>1, C10Reads DEF IsFetch
      <4> QED
        BY <2>1, <4>2
    <3> QED
      BY <1>2, <1>4, <2>1, <3>1 DEF NoUpdateLeft, Lanes
  <2> QED
    BY <1>1, <1>2, <1>4, <1>5, <2>1 DEF BytesOK
<1>9. \A d \in Contexts : Busy(d)' => BytesOK(d)'
  <2>1. \A d \in Contexts \ {c} : Busy(d) => BytesOK(d)'
    BY <1>2, <1>4, <1>5 DEF BytesOK
  <2> QED
    BY <1>5, <1>8, <2>1
<1>10. HandlerOK'
  <2>1. ASSUME op["handler"] = "restore", Written("handler")' PROVE Written("handler")
    <3>1. "handler" \in Contexts /\ Busy("handler")
      BY <2>1 DEF Contexts, Busy
    <3>2. Lane("handler") \in Lanes /\ Command("handler") # Idle
      BY <1>2, <3>1, CurrentOK DEF Command, Idle
    <3>3. ctl[Lane("handler")] = Idle
      BY <1>3, <3>2 DEF Pending
    <3>4. CASE c = "handler"
      BY <1>1, <1>4, <2>1, <3>2, <3>3, <3>4 DEF Written
    <3>5. CASE c # "handler"
      BY <1>4, <2>1, <3>1, <3>2, <3>3, <3>5 DEF Written
    <3> QED
      BY <3>4, <3>5
  <2> QED
    BY <1>1, <1>2, <2>1 DEF HandlerOK
<1>11. CommandsOK'
  BY <1>3 DEF CommandsOK
<1> QED
  BY <1>1, <1>2, <1>7, <1>9, <1>10, <1>11

\* What an answer to a write leaves: a restored byte, unless it is another register.
LEMMA RestoresBytes ==
  ASSUME BusTypes, ContextTypes, OrderOK, kind = "c10", NEW c \in Contexts, Busy(c),
         BytesOK(c), act[c].do = "write", orig.quot = boot.quot,
         op["handler"] \in {"restore", "end"},
         NEW l, l = Lane(c), NEW t, t.reg = Current(c).reg, t.data = act[c].byte,
         Perform(l, t)
  PROVE  /\ reg'[0].QUOT_LOW = reg[0].QUOT_LOW \/ reg'[0].QUOT_LOW = boot.quot.lo
         /\ reg'[0].QUOT_HIGH = reg[0].QUOT_HIGH \/ reg'[0].QUOT_HIGH = boot.quot.hi
         /\ \/ pll'.quot = pll.quot
            \/ pll'.quot = [hi |-> reg[0].QUOT_HIGH, lo |-> reg[0].QUOT_LOW]
<1>1. op[c] = "restore"
  BY DEF OrderOK, Contexts, Busy
<1>2. /\ AccessOK(Current(c)) /\ l \in Lanes /\ WorkOK(c) /\ Current(c).do # "read"
      /\ t.reg \in Modified2 \cup Quotients
      /\ Current(c).do = "modify" <=> t.reg \in Modified2
  BY CurrentOK DEF ContextTypes, WorkOK, AccessOK
<1>3. /\ Performed(l, t.reg, t.data)'
      /\ \A k \in Lanes \ {l} : reg'[k] = reg[k]
      /\ \A r \in Registers \ {t.reg, "RD_DATA_H", "RD_DATA_L"} : reg'[l][r] = reg[l][r]
      /\ t.reg \notin {"CONTROL", "WR_DATA_L"} => pll' = pll
      /\ t.reg = "CONTROL" => pll' = pll \/ (l = 0 /\ pll'.rem = pll.rem
              /\ pll'.quot = [hi |-> reg[0].QUOT_HIGH, lo |-> reg[0].QUOT_LOW])
  BY <1>2, PerformIs DEF Registers
<1>4. ASSUME t.reg \in Quotients
      PROVE  /\ l = 0 /\ act[c].byte = Current(c).set
             /\ t.reg = "QUOT_LOW" => Current(c).set = boot.quot.lo
             /\ t.reg = "QUOT_HIGH" => Current(c).set = boot.quot.hi
  <2>1. Current(c).do = "write"
    BY <1>2, <1>4 DEF Quotients, Modified2, AccessOK
  <2>2. act[c].byte = Current(c).set
    BY <2>1 DEF BytesOK
  <2>3. i[c] \in {7, 8}
    BY <1>1, <1>4, <2>1, C10Restores DEF Quotients
  <2> QED
    BY <1>1, <1>4, <2>2, <2>3, C10Restores DEF IsWrite, Lane
<1>5. ASSUME l = 0, NEW r \in Quotients, t.reg = r PROVE reg'[0][r] = t.data
  BY <1>3, <1>5 DEF Performed, Quotients
<1>6. ASSUME NEW r \in Quotients, t.reg # r PROVE reg'[0][r] = reg[0][r]
  <2>1. r \in Registers \ {t.reg, "RD_DATA_H", "RD_DATA_L"}
    BY <1>6 DEF Quotients, Registers
  <2> QED
    BY <1>2, <1>3, <2>1 DEF Lanes
<1>7. ASSUME NEW r \in Quotients, NEW byte,
             t.reg = r => Current(c).set = byte
      PROVE  reg'[0][r] = reg[0][r] \/ reg'[0][r] = byte
  BY <1>4, <1>5, <1>6, <1>7
<1>8. /\ reg'[0]["QUOT_LOW"] = reg[0]["QUOT_LOW"] \/ reg'[0]["QUOT_LOW"] = boot.quot.lo
      /\ reg'[0]["QUOT_HIGH"] = reg[0]["QUOT_HIGH"] \/ reg'[0]["QUOT_HIGH"] = boot.quot.hi
  BY <1>4, <1>7 DEF Quotients
<1>9. \/ pll'.quot = pll.quot
      \/ pll'.quot = [hi |-> reg[0].QUOT_HIGH, lo |-> reg[0].QUOT_LOW]
  BY <1>2, <1>3 DEF Modified2, Quotients
<1> QED
  BY <1>8, <1>9

LEMMA AnswerCalm ==
  ASSUME TransactionInv, ProgressInv, CalmInv, NEW l \in Lanes, Answer(l)
  PROVE  CalmInv'
<1> SUFFICES ASSUME Calm
             PROVE  /\ refused' = 0 /\ (\A k \in Lanes : ~status'[k].error)
                    /\ NoUpdateLeft' /\ CommandsOK' /\ HandlerOK'
                    /\ \A d \in Contexts : Busy(d)' => BytesOK(d)'
                    /\ op'["sync"] # "read" => orig'.quot = boot'.quot
  BY DEF CalmInv, Calm, Prompt, Answer
<1>1. /\ UNCHANGED <<kind, device, orig, mod, op, i, act, refused, boot>>
      /\ Pending(l) /\ ctl' = [ctl EXCEPT ![l] = Idle]
  BY DEF Answer, faults, past
<1>2. /\ BusTypes /\ ContextTypes /\ OrderOK /\ kind = "c10" /\ Prompt
      /\ refused = 0 /\ (\A k \in Lanes : ~status[k].error)
      /\ NoUpdateLeft /\ CommandsOK /\ HandlerOK
      /\ \A d \in Contexts : Busy(d) =>
           BytesOK(d) /\ WorkOK(d) /\ AccessOK(Current(d)) /\ Lane(d) \in Lanes
      /\ op["sync"] # "read" => orig.quot = boot.quot
  BY CalmParts
<1>3. PICK c \in Contexts : Busy(c) /\ act[c].step = "ack" /\ Lane(c) = l /\ ctl[l] = Command(c)
  BY <1>1, <1>2 DEF CommandsOK
<1>4. \A k \in Lanes : ctl'[k] = Idle
  <2>1. \A k \in Lanes \ {l} : ctl[k] = Idle
    BY <1>1, <1>2 DEF CommandsOK, Pending
  <2> QED
    BY <1>1, <1>2, <2>1 DEF BusTypes
<1>5. \A d \in Contexts : /\ Busy(d)' <=> Busy(d)
                          /\ Busy(d) => Current(d)' = Current(d) /\ Lane(d)' = Lane(d)
                                        /\ Command(d)' = Command(d)
  <2>1. \A d \in Contexts : /\ Busy(d)' <=> Busy(d)
                            /\ Busy(d) => Current(d)' = Current(d) /\ Lane(d)' = Lane(d)
    BY <1>1, StaysOK
  <2> QED
    BY <1>1, <2>1 DEF Command
<1>6. /\ ctl[l].reg = Current(c).reg
      /\ act[c].do = "read" => ctl[l].cmd = "read"
      /\ act[c].do = "write" => ctl[l].cmd = "committed" /\ ctl[l].data = act[c].byte
      /\ act[c].do \in {"read", "write"}
  BY <1>2, <1>3 DEF Command, AccessOK, WorkOK
<1>7. CommandsOK'
  BY <1>4 DEF CommandsOK, Pending
<1>8. \A d \in Contexts : Busy(d)' => BytesOK(d)'
  BY <1>1, <1>2, <1>5 DEF BytesOK
<1>9. l # 0 /\ Early => Early'
  BY <1>1, <1>2 DEF Early, CommandsOK, Lanes
<1>10. ASSUME op["handler"] = "restore", Written("handler")', ~Written("handler")
       PROVE  /\ act["handler"].do = "write" /\ Lane("handler") = l
              /\ ctl[l].reg = Current("handler").reg /\ ctl[l].data = act["handler"].byte
              /\ ctl[l].cmd = "committed"
  <2>1. "handler" \in Contexts /\ Busy("handler")
    BY <1>10 DEF Contexts, Busy
  <2>2. act["handler"].do = "write" /\ ctl[Lane("handler")] = Command("handler")
    BY <1>1, <1>5, <1>10, <2>1 DEF Written
  <2>3. Command("handler") # Idle /\ Lane("handler") \in Lanes
    BY <1>2, <2>1 DEF Command, Idle
  <2>4. Lane("handler") = l
    BY <1>2, <1>1, <2>2, <2>3 DEF CommandsOK, Pending
  <2> QED
    BY <1>2, <2>1, <2>2, <2>4 DEF Command, AccessOK
<1>11. CASE act[c].do = "read"
  <2>1. /\ status' = [status EXCEPT ![l] = [error |-> FALSE, type |-> "read_ack",
                                            data |-> reg[l][ctl[l].reg]]]
        /\ UNCHANGED <<reg, pll>>
    BY <1>6, <1>11 DEF Answer, phy
  <2>2. /\ status'[l].error = FALSE /\ status'[l].data = reg[l][Current(c).reg]
        /\ \A k \in Lanes \ {l} : status'[k] = status[k]
    <3>1. PICK s : s = [error |-> FALSE, type |-> "read_ack", data |-> reg[l][ctl[l].reg]]
      OBVIOUS
    <3>2. IsAnswer(s)
      BY <3>1 DEF IsAnswer
    <3>3. status' = [status EXCEPT ![l] = s]
      BY <2>1, <3>1
    <3>4. status'[l] = s /\ \A k \in Lanes \ {l} : status'[k] = status[k]
      BY <1>2, <3>2, <3>3, StatusIs, Zenon DEF BusTypes
    <3> QED
      BY <1>6, <3>1, <3>4
  <2>3. NoUpdateLeft'
    <3>1. CASE Current(c).do = "modify"
      <4>1. "update" \notin status'[l].data
        BY <1>2, <1>3, <2>2, <3>1 DEF AccessOK, Modified2, NoUpdateLeft
      <4> QED
        BY <1>2, <1>9, <2>1, <2>2, <4>1 DEF NoUpdateLeft, Lanes
    <3>2. CASE Current(c).do # "modify"
      <4>1. Current(c).do = "read"
        BY <1>2, <1>3, <1>11, <3>2 DEF AccessOK, WorkOK
      <4>2. op[c] = "read" /\ c = "sync"
        BY <1>2, <1>3, <4>1, CurrentOK DEF OrderOK, Contexts
      <4>3. l = 0
        BY <1>2, <1>3, <4>2, C10Reads DEF IsFetch, Lane
      <4>4. Early'
        BY <1>1, <4>2 DEF Early
      <4> QED
        BY <1>2, <2>1, <2>2, <4>3, <4>4 DEF NoUpdateLeft, Lanes
    <3> QED
      BY <3>1, <3>2
  <2>4. HandlerOK'
    <3>1. op["handler"] = "restore" /\ Written("handler")' => Written("handler")
      BY <1>6, <1>10, <1>11
    <3> QED
      BY <1>1, <1>2, <2>1, <3>1 DEF HandlerOK
  <2> QED
    BY <1>1, <1>2, <1>7, <1>8, <2>2, <2>3, <2>4
<1>12. CASE act[c].do = "write"
  <2>1. /\ status' = [status EXCEPT ![l] = [error |-> FALSE, type |-> "write_ack",
                                            data |-> {}]]
        /\ Perform(l, ctl[l])
    BY <1>6, <1>12 DEF Answer
  <2>2. PICK t : t = ctl[l]
    OBVIOUS
  <2>3. Perform(l, t) /\ t.reg = Current(c).reg /\ t.data = act[c].byte /\ t.reg \in Registers
    <3>1. Current(c).reg \in Registers
      BY <1>2, <1>3 DEF AccessOK, Registers
    <3> QED
      BY <1>6, <1>12, <2>1, <2>2, <3>1
  <2>4. /\ Performed(l, t.reg, t.data)'
        /\ \A k \in Lanes \ {l} : reg'[k] = reg[k]
        /\ \A r \in Registers \ {t.reg, "RD_DATA_H", "RD_DATA_L"} : reg'[l][r] = reg[l][r]
    BY <1>2, <2>3, PerformIs, Zenon
  <2>5. /\ status'[l].error = FALSE /\ status'[l].data = {}
        /\ \A k \in Lanes \ {l} : status'[k] = status[k]
    BY <1>2, <2>1 DEF BusTypes, StatusOK
  <2>6. NoUpdateLeft'
    <3>1. ASSUME NEW r \in Modified2 PROVE "update" \notin reg'[l][r]
      <4>1. CASE t.reg = r
        <5>1. reg'[l][r] = IF r = "CONTROL" THEN t.data \ {"update"} ELSE t.data
          BY <2>4, <4>1 DEF Performed
        <5>2. r = "CUSTOM_WIDTH" => "update" \notin t.data
          BY <1>2, <1>3, <1>12, <2>3, <4>1 DEF BytesOK
        <5> QED
          BY <3>1, <5>1, <5>2 DEF Modified2
      <4>2. CASE t.reg # r
        <5>1. r \in Registers \ {t.reg, "RD_DATA_H", "RD_DATA_L"}
          BY <3>1, <4>2 DEF Modified2, Registers
        <5> QED
          BY <1>2, <2>4, <3>1, <5>1 DEF NoUpdateLeft, Modified2
      <4> QED
        BY <4>1, <4>2
    <3>2. \A k \in Lanes : "update" \notin reg'[k].CONTROL /\ "update" \notin reg'[k].CUSTOM_WIDTH
      BY <1>2, <2>4, <3>1 DEF NoUpdateLeft, Modified2
    <3> QED
      BY <1>2, <1>9, <2>5, <3>2 DEF NoUpdateLeft, Lanes
  <2>7. HandlerOK'
    <3>1. SUFFICES ASSUME op["handler"] \in {"restore", "end"} PROVE HandlerOK'
      BY <1>1 DEF HandlerOK
    <3>2. op["sync"] # "read" /\ orig.quot = boot.quot
      BY <1>2, <3>1 DEF OrderOK
    <3>3. /\ reg'[0].QUOT_LOW = reg[0].QUOT_LOW \/ reg'[0].QUOT_LOW = boot.quot.lo
          /\ reg'[0].QUOT_HIGH = reg[0].QUOT_HIGH \/ reg'[0].QUOT_HIGH = boot.quot.hi
          /\ \/ pll'.quot = pll.quot
             \/ pll'.quot = [hi |-> reg[0].QUOT_HIGH, lo |-> reg[0].QUOT_LOW]
      BY <1>2, <1>3, <1>12, <2>3, <3>1, <3>2, RestoresBytes
    <3>4. PICK b : b = boot.quot /\ b = [hi |-> b.hi, lo |-> b.lo]
      BY <1>2 DEF BusTypes, IsDividers, IsWord
    <3>5. CASE op["handler"] = "end"
      BY <1>1, <1>2, <3>3, <3>4, <3>5 DEF HandlerOK
    <3>6. CASE op["handler"] = "restore"
      <4> DEFINE n == i["handler"]
      <4>1. "handler" \in Contexts /\ Busy("handler") /\ n \in 1 .. 9
        BY <1>2, <3>6, C10Restores DEF Contexts, Busy
      <4>2. ASSUME Written("handler")', ~Written("handler"), n \in {7, 8, 9}
            PROVE  /\ l = 0 /\ t.reg = Current("handler").reg
                   /\ Current("handler").set \subseteq t.data
                   /\ Current("handler").do = "write" => t.data = Current("handler").set
        <5>1. /\ act["handler"].do = "write" /\ Lane("handler") = l
              /\ t.reg = Current("handler").reg /\ t.data = act["handler"].byte
          BY <1>10, <2>2, <3>6, <4>2
        <5>2. Lane("handler") = 0
          BY <1>2, <3>6, <4>1, <4>2, C10Restores DEF IsWrite, Lane
        <5> QED
          BY <1>2, <4>1, <5>1, <5>2 DEF BytesOK
      <4>3. ASSUME n > 7 \/ (n = 7 /\ Written("handler")')
            PROVE  reg'[0].QUOT_LOW = boot.quot.lo
        <5>1. CASE n > 7 \/ (n = 7 /\ Written("handler"))
          BY <1>2, <3>3, <3>6, <5>1 DEF HandlerOK
        <5>2. CASE n = 7 /\ ~Written("handler")
          <6>1. IsWrite(Current("handler"), "QUOT_LOW", orig.quot.lo)
            BY <1>2, <3>6, <4>1, <5>2, C10Restores
          <6>2. l = 0 /\ t.reg = "QUOT_LOW" /\ t.data = boot.quot.lo
            BY <3>2, <4>2, <4>3, <5>2, <6>1 DEF IsWrite
          <6> QED
            BY <2>4, <6>2 DEF Performed
        <5> QED
          BY <4>3, <5>1, <5>2
      <4>4. ASSUME n > 8 \/ (n = 8 /\ Written("handler")')
            PROVE  reg'[0].QUOT_HIGH = boot.quot.hi
        <5>1. CASE n > 8 \/ (n = 8 /\ Written("handler"))
          BY <1>2, <3>3, <3>6, <5>1 DEF HandlerOK
        <5>2. CASE n = 8 /\ ~Written("handler")
          <6>1. IsWrite(Current("handler"), "QUOT_HIGH", orig.quot.hi)
            BY <1>2, <3>6, <4>1, <5>2, C10Restores
          <6>2. l = 0 /\ t.reg = "QUOT_HIGH" /\ t.data = boot.quot.hi
            BY <3>2, <4>2, <4>4, <5>2, <6>1 DEF IsWrite
          <6> QED
            BY <2>4, <6>2 DEF Performed
        <5> QED
          BY <4>4, <5>1, <5>2
      <4>5. ASSUME n = 9, Written("handler")' PROVE pll'.quot = boot.quot
        <5>1. CASE Written("handler")
          BY <1>2, <3>3, <3>4, <3>6, <4>5, <5>1 DEF HandlerOK
        <5>2. CASE ~Written("handler")
          <6>1. l = 0 /\ t.reg = "CONTROL" /\ "update" \in t.data
            BY <1>2, <3>6, <4>1, <4>2, <4>5, <5>2, C10Restores
          <6>2. pll'.quot = [hi |-> reg'[0].QUOT_HIGH, lo |-> reg'[0].QUOT_LOW]
            BY <2>4, <6>1 DEF Performed
          <6> QED
            BY <3>4, <4>3, <4>4, <4>5, <6>2
        <5> QED
          BY <5>1, <5>2
      <4> QED
        BY <1>1, <3>6, <4>3, <4>4, <4>5 DEF HandlerOK
    <3> QED
      BY <1>2, <3>1, <3>5, <3>6
  <2> QED
    BY <1>1, <1>2, <1>7, <1>8, <2>5, <2>6, <2>7
<1> QED
  BY <1>6, <1>11, <1>12

\* A transaction is over.
LEMMA ConcludeCalm ==
  ASSUME TransactionInv, ProgressInv, CalmInv, Calm, TransactionInv', ProgressInv',
         NEW c \in Contexts, Busy(c), act[c].step \in {"clear", "reset"},
         NEW byte, Conclude(c, byte),
         Current(c).do = "modify" /\ act[c].do = "read" => "update" \notin byte,
         act[c].do = "write" => Written(c),
         UNCHANGED <<kind, device, reg, pll, refused, overlap, boot>>,
         \A l \in Lanes : ctl[l] = Idle /\ ctl'[l] = Idle,
         \A l \in Lanes : /\ ~status'[l].error
                          /\ "update" \in status'[l].data => "update" \in status[l].data
  PROVE  CalmInv'
<1>1. /\ BusTypes /\ ContextTypes /\ OrderOK /\ kind = "c10" /\ Prompt
      /\ refused = 0
      /\ NoUpdateLeft /\ CommandsOK /\ HandlerOK
      /\ \A d \in Contexts : Busy(d) =>
           BytesOK(d) /\ WorkOK(d) /\ AccessOK(Current(d)) /\ Lane(d) \in Lanes
      /\ op["sync"] # "read" => orig.quot = boot.quot
      /\ op["sync"] \in {"read", "program"} => op["handler"] = "off"
  BY CalmParts
<1>2. /\ op[c] # "read" => orig' = orig /\ mod' = mod
      /\ \A d \in Contexts \ {c} : Busy(d) => op[c] # "read"
      /\ \A d \in Contexts \ {c} : op'[d] = op[d] /\ i'[d] = i[d] /\ act'[d] = act[d]
  BY <1>1, ConcludeKeeps
<1>3. \/ /\ Current(c).do = "modify" /\ act[c].do = "read"
         /\ act' = [act EXCEPT ![c] = [step |-> "send", do |-> "write", try |-> 1,
                                       byte |-> Modified(byte, Current(c))]]
         /\ UNCHANGED <<orig, mod, op, i>>
      \/ /\ i[c] < Size(op[c]) /\ op' = op /\ mod' = mod
         /\ i' = [i EXCEPT ![c] = i[c] + 1]
         /\ act' = [act EXCEPT ![c] = StartOf(Accesses(op[c], orig', mod)[i[c] + 1])]
      \/ /\ i[c] = Size(op[c])
         /\ op' = [op EXCEPT ![c] = NextOp(op[c])]
         /\ i' = [i EXCEPT ![c] = 1]
         /\ op[c] \in {"read", "return"} =>
              act' = [act EXCEPT ![c] = StartOf(Accesses(NextOp(op[c]), orig', mod')[1])]
         /\ op[c] \in {"program", "restore"} => act' = [act EXCEPT ![c] = NoAct]
  BY <1>1, ConcludeCases
<1> DEFINE a == Accesses(op'[c], orig', mod')[i'[c]]
<1>4. \/ /\ Current(c).do = "modify" /\ act[c].do = "read"
         /\ act'[c] = [step |-> "send", do |-> "write", try |-> 1,
                       byte |-> Modified(byte, Current(c))]
         /\ UNCHANGED <<orig, mod, op, i>>
      \/ /\ i[c] < Size(op[c]) /\ op' = op
         /\ i'[c] = i[c] + 1 /\ act'[c] = StartOf(a)
      \/ /\ i[c] = Size(op[c]) /\ op'[c] = NextOp(op[c]) /\ i'[c] = 1
         /\ op[c] \in {"read", "return"} => act'[c] = StartOf(a)
         /\ op[c] \in {"program", "restore"} => act'[c] = NoAct
  <2>1. op \in [Contexts -> Ops] /\ i \in [Contexts -> Nat \ {0}] /\ DOMAIN act = Contexts
    BY <1>1 DEF ContextTypes
  <2> QED
    BY <1>3, <2>1
<1>5. op[c] \in BusyOps /\ i[c] \in 1 .. Size(op[c])
  BY <1>1, CurrentOK
<1>6. op["sync"] = "read" => c = "sync"
  BY <1>1 DEF Busy, Contexts
<1>7. op'["sync"] # "read" => orig'.quot = boot'.quot
  <2>1. CASE op["sync"] # "read"
    <3>1. op[c] # "read"
      BY <1>1, <2>1 DEF OrderOK, Contexts
    <3> QED
      BY <1>1, <1>2, <2>1, <3>1
  <2>2. CASE op["sync"] = "read"
    <3>1. ~overlap' /\ Prompt'
      BY <1>1, <2>2 DEF OrderOK, Prompt
    <3>2. ~gaveUp'
      BY <1>1, <3>1 DEF TransactionInv
    <3> QED
      BY <3>1, <3>2 DEF ProgressInv, SavedOK
  <2> QED
    BY <2>1, <2>2
<1>8. Early => Early'
  <2>1. SUFFICES ASSUME op["sync"] = "read", c = "sync" PROVE Early'
    <3>1. Early => op["sync"] = "read"
      BY <1>1 DEF Early, Contexts, Busy
    <3> QED
      BY <1>6, <2>1, <3>1
  <2>2. Current(c).do = "read"
    BY <1>1, <2>1, C10Reads DEF IsFetch
  <2>3. CASE op'[c] = op[c]
    BY <2>1, <2>3 DEF Early
  <2>4. CASE op'[c] # op[c]
    <3>1. op'[c] = "program" /\ i'[c] = 1 /\ act'[c] = StartOf(a)
      BY <1>4, <2>1, <2>2, <2>4 DEF NextOp
    <3>2. a.do = "modify"
      <4>1. PICK p, d : d = mod' /\ p = C10Program(d)
        OBVIOUS
      <4>2. p[1] = Access(0, "modify", "CONTROL", {}, {"access"}, TRUE)
        BY <4>1, C10Table, Zenon
      <4>3. a = p[1]
        BY <1>1, <3>1, <4>1 DEF Accesses
      <4> QED
        BY <4>2, <4>3 DEF Access
    <3>3. act'[c].do = "read" /\ act'[c].try = 1 /\ act'[c].step = "send"
      BY <3>1, <3>2, StartOK
    <3> QED
      BY <2>1, <3>1, <3>3 DEF Early
  <2> QED
    BY <2>3, <2>4
<1>9. NoUpdateLeft'
  BY <1>1, <1>8 DEF NoUpdateLeft, Lanes
<1>10. CommandsOK'
  BY DEF CommandsOK, Pending
<1>11. Current(c)' = a
  BY CurrentPrime, Zenon
<1>12. Busy(c)' => BytesOK(c)'
  <2>1. SUFFICES ASSUME Busy(c)' PROVE BytesOK(c)'
    OBVIOUS
  <2>2. CASE /\ Current(c).do = "modify" /\ act[c].do = "read"
             /\ act'[c] = [step |-> "send", do |-> "write", try |-> 1,
                           byte |-> Modified(byte, Current(c))]
             /\ UNCHANGED <<orig, mod, op, i>>
    <3>1. Current(c)' = Current(c)
      BY <2>2, StaysOK
    <3>2. PICK b, m : b = Current(c) /\ m = Modified(byte, b)
      OBVIOUS
    <3>3. b.set \subseteq m /\ (b.reg = "CUSTOM_WIDTH" => "update" \notin m)
      BY <1>1, <2>2, <3>2 DEF Modified, AccessOK
    <3>4. act'[c].step = "send" /\ act'[c].byte = m
      BY <2>2, <3>2
    <3> QED
      BY <2>2, <3>1, <3>2, <3>3, <3>4 DEF BytesOK
  <2>3. CASE act'[c] = StartOf(a) /\ i'[c] \in 1 .. Size(op'[c]) /\ op'[c] \in BusyOps
    <3>1. AccessOK(a)
      BY <1>1, <2>3, AccessesOK, Zenon
    <3>2. /\ act'[c].step = "send"
          /\ act'[c].do = "write" => a.do = "write" /\ act'[c].byte = a.set
      <4> HIDE DEF a
      <4> QED
        BY <2>3, StartOK
    <3>3. a.do = "write" => a.reg # "CUSTOM_WIDTH"
      BY <3>1 DEF AccessOK, Modified2
    <3> HIDE DEF a
    <3> QED
      BY <1>11, <3>2, <3>3 DEF BytesOK
  <2> QED
    <3>1. op[c] \in {"program", "restore"} => NextOp(op[c]) \in {"wait", "end"}
      BY DEF NextOp
    <3>2. op[c] \in {"read", "return"} => NextOp(op[c]) \in {"program", "restore"}
      BY DEF NextOp
    <3> QED
      BY <1>4, <1>5, <2>1, <2>2, <2>3, <3>1, <3>2 DEF Busy, BusyOps, Size
<1>13. \A d \in Contexts : Busy(d)' => BytesOK(d)'
  BY <1>1, <1>2, <1>12, OthersStay
<1>14. HandlerOK'
  <2>1. CASE c = "sync"
    <3>1. "handler" \in Contexts \ {c}
      BY <2>1 DEF Contexts
    <3>2. Busy("handler") => /\ Current("handler")' = Current("handler")
                             /\ Lane("handler")' = Lane("handler")
                             /\ Command("handler")' = Command("handler")
      BY <1>2, <3>1, OthersStay
    <3>3. ASSUME op["handler"] = "restore", Written("handler")' PROVE Written("handler")
      <4>1. Busy("handler") /\ Lane("handler") \in Lanes
        BY <1>1, <3>1, <3>3 DEF Busy
      <4>2. Command("handler") # Idle
        BY <1>1, <3>1, <4>1 DEF Command, Idle
      <4> QED
        BY <1>2, <3>1, <3>2, <3>3, <4>1, <4>2 DEF Written
    <3> QED
      BY <1>1, <1>2, <3>1, <3>3 DEF HandlerOK
  <2>2. CASE c = "handler"
    <3> DEFINE n == i["handler"]
    <3>1. CASE op[c] # "restore"
      <4>1. op[c] = "return"
        BY <1>1, <2>2, <3>1 DEF OrderOK, Busy
      <4>2. op'[c] = "return" \/ (op'[c] = "restore" /\ i'[c] = 1)
        BY <1>4, <4>1 DEF NextOp
      <4> QED
        BY <2>2, <4>2 DEF HandlerOK
    <3>2. CASE op[c] = "restore"
      <4>1. /\ n \in 1 .. 9 /\ Size("restore") = 9
            /\ n = 7 => IsWrite(Current(c), "QUOT_LOW", orig.quot.lo)
            /\ n = 8 => IsWrite(Current(c), "QUOT_HIGH", orig.quot.hi)
            /\ n = 9 => Current(c).do = "modify" /\ "update" \in Current(c).set
        BY <1>1, <2>2, <3>2, C10Restores DEF Size
      <4>2. n \in {7, 8} => Written(c)
        BY <1>1, <4>1 DEF WorkOK, IsWrite
      <4>3. /\ n >= 7 => i'[c] = n \/ reg[0].QUOT_LOW = boot.quot.lo
            /\ n >= 8 => i'[c] = n \/ reg[0].QUOT_HIGH = boot.quot.hi
        BY <1>1, <2>2, <3>2, <4>1, <4>2 DEF HandlerOK
      <4>4. CASE act'[c].step = "send" /\ act'[c].try = 1 /\ op'[c] = "restore" /\ i'[c] = n
        BY <1>1, <2>2, <3>2, <4>4 DEF HandlerOK, Written
      <4>5. CASE act'[c].step = "send" /\ act'[c].try = 1 /\ op'[c] = "restore" /\ i'[c] = n + 1
                 /\ n < 9
        BY <1>1, <2>2, <3>2, <4>1, <4>3, <4>5 DEF HandlerOK, Written
      <4>6. CASE op'[c] = "end" /\ n = 9
        <5>1. ~(Current(c).do = "modify" /\ act[c].do = "read" /\ Modified(byte, Current(c)) # byte)
          BY <3>2, <4>6 DEF Conclude
        <5>2. act[c].do # "read"
          BY <4>1, <4>6, <5>1 DEF Modified
        <5>3. Written(c)
          BY <1>1, <5>2 DEF WorkOK
        <5> QED
          BY <1>1, <2>2, <3>2, <4>6, <5>3 DEF HandlerOK
      <4> QED
        <5>1. StartOf(a).step = "send" /\ StartOf(a).try = 1
          BY StartOK
        <5> HIDE DEF a
        <5> QED
          BY <1>4, <2>2, <3>2, <4>1, <4>4, <4>5, <4>6, <5>1 DEF NextOp
    <3> QED
      BY <3>1, <3>2
  <2> QED
    BY <2>1, <2>2 DEF Contexts
<1> HIDE DEF a
<1> QED
  BY <1>1, <1>7, <1>9, <1>10, <1>13, <1>14 DEF CalmInv

\* The flag that is cleared takes nothing with it that is looked at again.
LEMMA ClearedData ==
  ASSUME BusTypes, NEW l \in Lanes, status' = [status EXCEPT ![l] = Cleared(@)],
         \A k \in Lanes : ~status[k].error
  PROVE  \A k \in Lanes : /\ ~status'[k].error
                          /\ "update" \in status'[k].data => "update" \in status[k].data
<1>1. StatusOK /\ IsAnswer(status[l])
  BY StatusParts DEF BusTypes
<1>2. PICK s : s = status[l]
  OBVIOUS
<1>3. PICK u : u = IF device.keeps THEN s ELSE NoReply
  OBVIOUS
<1>4. IsAnswer(u) /\ ("update" \in u.data => "update" \in s.data)
  BY <1>1, <1>2, <1>3 DEF IsAnswer, NoReply
<1>5. PICK t : t = [u EXCEPT !.error = FALSE]
  OBVIOUS
<1>6. IsAnswer(t) /\ t.error = FALSE /\ t.data = u.data
  BY <1>4, <1>5, ErrorIs
<1>7. status' = [status EXCEPT ![l] = t]
  BY <1>2, <1>3, <1>5 DEF Cleared
<1>8. status'[l] = t /\ \A k \in Lanes \ {l} : status'[k] = status[k]
  BY <1>1, <1>6, <1>7, StatusIs, Zenon
<1> QED
  BY <1>2, <1>4, <1>6, <1>8

LEMMA ClearCalm ==
  ASSUME TransactionInv, ProgressInv, CalmInv, NEW c \in Contexts, Clear(c)
  PROVE  CalmInv'
<1> SUFFICES ASSUME Calm PROVE CalmInv'
  BY DEF CalmInv, Calm, Prompt, Clear
<1>1. TransactionInv' /\ ProgressInv'
  BY ClearInv, ClearProgress
<1>2. /\ BusTypes /\ Prompt /\ (\A l \in Lanes : ~status[l].error)
      /\ \A d \in Contexts : Busy(d) => BytesOK(d) /\ Lane(d) \in Lanes
  BY CalmParts
<1>3. Busy(c) /\ act[c].step = "clear" /\ \A l \in Lanes : ctl[l] = Idle
  BY <1>2 DEF Clear, May, Pending
<1>4. PICK l \in Lanes : l = Lane(c)
  BY <1>2, <1>3
<1>5. /\ status' = [status EXCEPT ![l] = Cleared(@)]
      /\ UNCHANGED <<kind, device, ctl, reg, pll, refused, overlap, boot>>
  BY <1>4 DEF Clear, phy, faults, past
<1>6. PICK byte : byte = act[c].byte
  OBVIOUS
<1>7. Conclude(c, byte)
  BY <1>6 DEF Clear
<1>8. \A k \in Lanes : /\ ~status'[k].error
                       /\ "update" \in status'[k].data => "update" \in status[k].data
  BY <1>2, <1>5, ClearedData
<1>9. /\ Current(c).do = "modify" /\ act[c].do = "read" => "update" \notin byte
      /\ act[c].do = "write" => Written(c)
  BY <1>2, <1>3, <1>6 DEF BytesOK, Written
<1>10. \A k \in Lanes : ctl[k] = Idle /\ ctl'[k] = Idle
  BY <1>3, <1>5
<1> QED
  BY <1>1, <1>3, <1>5, <1>7, <1>8, <1>9, <1>10, ConcludeCalm, Zenon

LEMMA ResetCalm ==
  ASSUME TransactionInv, ProgressInv, CalmInv, NEW c \in Contexts, Reset(c)
  PROVE  CalmInv'
<1> SUFFICES ASSUME Calm PROVE CalmInv'
  BY DEF CalmInv, Calm, Prompt, Reset
<1>1. TransactionInv' /\ ProgressInv'
  BY ResetInv, ResetProgress
<1>2. /\ BusTypes /\ ContextTypes /\ OrderOK /\ Prompt /\ kind = "c10"
      /\ refused = 0 /\ (\A l \in Lanes : ~status[l].error)
      /\ NoUpdateLeft /\ HandlerOK
      /\ \A d \in Contexts : Busy(d) => BytesOK(d) /\ WorkOK(d) /\ Lane(d) \in Lanes
      /\ op["sync"] # "read" => orig.quot = boot.quot
      /\ op["sync"] \in {"read", "program"} => op["handler"] = "off"
  BY CalmParts
<1>3. Busy(c) /\ act[c].step = "reset" /\ \A l \in Lanes : ctl[l] = Idle
  BY <1>2 DEF Reset, May, Pending
<1>4. PICK l \in Lanes : l = Lane(c)
  BY <1>2, <1>3
<1>5. /\ status' = [status EXCEPT ![l] = Cleared(@)] /\ ctl' = [ctl EXCEPT ![l] = Idle]
      /\ UNCHANGED <<kind, device, reg, pll, refused, overlap, boot>>
  BY <1>4 DEF Reset, phy, faults
<1>6. \A k \in Lanes : /\ ~status'[k].error
                       /\ "update" \in status'[k].data => "update" \in status[k].data
  BY <1>2, <1>5, ClearedData
<1>7. \A k \in Lanes : ctl[k] = Idle /\ ctl'[k] = Idle
  BY <1>2, <1>3, <1>5 DEF BusTypes
<1>8. CASE act[c].try < Tries
  <2>1. /\ UNCHANGED <<orig, mod, op, i>>
        /\ act' = [act EXCEPT ![c].step = "send", ![c].try = @ + 1]
    BY <1>8 DEF Reset
  <2>2. /\ act'[c].do = act[c].do /\ act'[c].byte = act[c].byte /\ act'[c].step = "send"
        /\ \A d \in Contexts \ {c} : act'[d] = act[d]
    BY <1>2, <2>1 DEF ContextTypes
  <2>3. \A d \in Contexts : /\ Busy(d)' <=> Busy(d)
                            /\ Busy(d) => Current(d)' = Current(d) /\ Lane(d)' = Lane(d)
    BY <1>5, <2>1, StaysOK
  <2>4. Early => Early'
    BY <1>2, <1>3, <2>1 DEF Early, Contexts, Busy
  <2>5. NoUpdateLeft'
    BY <1>2, <1>5, <1>6, <2>4 DEF NoUpdateLeft, Lanes
  <2>6. CommandsOK'
    BY <1>7 DEF CommandsOK, Pending
  <2>7. \A d \in Contexts : Busy(d)' => BytesOK(d)'
    <3>1. \A d \in Contexts : Busy(d) => BytesOK(d)'
      BY <1>2, <2>2, <2>3 DEF BytesOK
    <3> QED
      BY <2>3, <3>1
  <2>8. HandlerOK'
    <3>1. ASSUME op["handler"] = "restore", Written("handler")' PROVE Written("handler")
      <4>1. "handler" \in Contexts /\ Busy("handler")
        BY <3>1 DEF Contexts, Busy
      <4>2. Lane("handler") \in Lanes /\ Command("handler") # Idle
        BY <1>2, <4>1, CurrentOK DEF Command, Idle
      <4>3. CASE c = "handler"
        BY <1>3, <2>2, <3>1, <4>3 DEF Written
      <4>4. CASE c # "handler"
        BY <1>7, <2>2, <3>1, <4>1, <4>2, <4>4 DEF Written
      <4> QED
        BY <4>3, <4>4
    <3> QED
      BY <1>2, <1>5, <2>1, <3>1 DEF HandlerOK
  <2> QED
    BY <1>2, <1>5, <1>6, <2>1, <2>5, <2>6, <2>7, <2>8 DEF CalmInv
<1>9. CASE ~(act[c].try < Tries)
  <2>1. PICK byte : byte = {}
    OBVIOUS
  <2>2. Conclude(c, byte)
    BY <1>9, <2>1 DEF Reset
  <2>3. /\ Current(c).do = "modify" /\ act[c].do = "read" => "update" \notin byte
        /\ act[c].do = "write" => Written(c)
    BY <1>3, <2>1 DEF Written
  <2> QED
    BY <1>1, <1>3, <1>5, <1>6, <1>7, <2>2, <2>3, ConcludeCalm, Zenon
<1> QED
  BY <1>8, <1>9

LEMMA RefuseCalm ==
  ASSUME TransactionInv, CalmInv, NEW l \in Lanes, Refuse(l)
  PROVE  CalmInv'
BY DEF Refuse, CalmInv, Calm, Prompt

LEMMA BeginCalm ==
  ASSUME TransactionInv, ProgressInv, CalmInv, NEW c \in Contexts, ~Busy(c),
         NEW o \in {"return", "restore"}, Begin(c, o), c = "handler" => o = "return",
         UNCHANGED <<kind, device, bus, phy, orig, faults, boot>>,
         \A d \in Contexts \ {c} : Busy(d) => mod' = mod, op["sync"] = "wait"
  PROVE  CalmInv'
<1> SUFFICES ASSUME Calm PROVE CalmInv'
  BY DEF CalmInv, Calm, Prompt
<1>1. /\ BusTypes /\ ContextTypes /\ OrderOK /\ kind = "c10" /\ Prompt
      /\ refused = 0 /\ (\A l \in Lanes : ~status[l].error)
      /\ NoUpdateLeft /\ CommandsOK /\ HandlerOK
      /\ \A d \in Contexts : Busy(d) => BytesOK(d) /\ Lane(d) \in Lanes
      /\ orig.quot = boot.quot
  BY CalmParts
<1>2. UNCHANGED <<kind, ctl, status, reg, pll, orig, refused, boot>>
  BY DEF bus, phy, faults
<1>3. /\ op'[c] = o /\ i'[c] = 1 /\ act'[c] = StartOf(Accesses(o, orig', mod')[1])
      /\ \A d \in Contexts \ {c} : op'[d] = op[d] /\ i'[d] = i[d] /\ act'[d] = act[d]
  BY <1>1, <1>2 DEF Begin, ContextTypes
<1>4. \A d \in Contexts \ {c} :
        /\ Busy(d)' <=> Busy(d)
        /\ Busy(d) => /\ Current(d)' = Current(d) /\ Lane(d)' = Lane(d)
                      /\ BytesOK(d) => BytesOK(d)'
                      /\ Command(d)' = Command(d)
  BY <1>2, <1>3, OthersStay
<1>5. BytesOK(c)'
  <2>1. PICK a : a = Accesses(op'[c], orig', mod')[i'[c]]
    OBVIOUS
  <2>2. act'[c] = StartOf(a)
    BY <1>3, <2>1
  <2>3. Current(c)' = a
    BY <1>2, <2>1, CurrentPrime, Zenon
  <2>4. op'[c] \in BusyOps /\ i'[c] \in 1 .. Size(op'[c])
    BY <1>3 DEF BusyOps, Size
  <2>5. AccessOK(a)
    BY <1>1, <2>1, <2>4, AccessesOK, Zenon
  <2>6. /\ act'[c].step = "send"
        /\ act'[c].do = "write" => a.do = "write" /\ act'[c].byte = a.set
    BY <2>2, StartOK
  <2>7. a.do = "write" => a.reg # "CUSTOM_WIDTH"
    BY <2>5 DEF AccessOK, Modified2
  <2> QED
    BY <2>3, <2>6, <2>7 DEF BytesOK
<1>6. \A d \in Contexts : Busy(d)' => BytesOK(d)'
  BY <1>1, <1>4, <1>5
<1>7. NoUpdateLeft'
  BY <1>1, <1>2 DEF NoUpdateLeft, Early
<1>8. CommandsOK'
  <2>1. ASSUME NEW l \in Lanes, Pending(l)'
        PROVE  /\ \E d \in Contexts : /\ Busy(d)' /\ act'[d].step = "ack" /\ Lane(d)' = l
                                      /\ ctl'[l] = Command(d)'
               /\ \A k \in Lanes \ {l} : ~Pending(k)'
    <3>1. Pending(l)
      BY <1>2, <2>1 DEF Pending
    <3>2. PICK d \in Contexts : Busy(d) /\ act[d].step = "ack" /\ Lane(d) = l /\ ctl[l] = Command(d)
      BY <1>1, <3>1 DEF CommandsOK
    <3>3. d \in Contexts \ {c}
      BY <3>2
    <3>4. \A k \in Lanes \ {l} : ~Pending(k)'
      BY <1>1, <1>2, <3>1 DEF CommandsOK, Pending
    <3> QED
      BY <1>2, <1>3, <1>4, <3>2, <3>3, <3>4
  <2> QED
    BY <2>1 DEF CommandsOK
<1>9. HandlerOK'
  <2>1. CASE c = "handler"
    BY <1>3, <2>1 DEF HandlerOK
  <2>2. CASE c # "handler"
    <3>1. "handler" \in Contexts \ {c}
      BY <2>2 DEF Contexts
    <3>2. op["handler"] = "restore" => (Written("handler")' <=> Written("handler"))
      BY <1>2, <1>3, <1>4, <3>1 DEF Written, Busy
    <3> QED
      BY <1>1, <1>2, <1>3, <3>1, <3>2 DEF HandlerOK
  <2> QED
    BY <2>1, <2>2
<1> QED
  BY <1>1, <1>2, <1>6, <1>7, <1>8, <1>9 DEF CalmInv

LEMMA StillCalm ==
  ASSUME TransactionInv, ProgressInv, CalmInv,
         UNCHANGED <<kind, device, ctl, status, reg, pll, orig, mod, i, act, refused, boot>>,
         op'["handler"] = op["handler"],
         op' = op \/ (op["sync"] = "wait" /\ op'["sync"] = "end" /\ op["handler"] = "end")
  PROVE  CalmInv'
<1> SUFFICES ASSUME Calm PROVE CalmInv'
  BY DEF CalmInv, Calm, Prompt
<1>1. /\ BusTypes /\ ContextTypes /\ OrderOK /\ kind = "c10" /\ Prompt
      /\ refused = 0 /\ (\A l \in Lanes : ~status[l].error)
      /\ NoUpdateLeft /\ CommandsOK /\ HandlerOK
      /\ \A d \in Contexts : Busy(d) => BytesOK(d)
      /\ op["sync"] # "read" => orig.quot = boot.quot
  BY CalmParts
<1>2. \A d \in Contexts : Busy(d)' \/ Busy(d) => op'[d] = op[d]
  BY DEF Contexts, Busy
<1>3. \A d \in Contexts :
        /\ Busy(d)' <=> Busy(d)
        /\ Busy(d) => /\ Current(d)' = Current(d) /\ Lane(d)' = Lane(d)
                      /\ Command(d)' = Command(d)
  <2>1. \A d \in Contexts : op'[d] = op[d] =>
          /\ Busy(d)' <=> Busy(d)
          /\ Busy(d) => Current(d)' = Current(d) /\ Lane(d)' = Lane(d)
    BY StaysOK
  <2> QED
    BY <1>2, <2>1 DEF Command
<1>4. \A d \in Contexts : Busy(d)' => BytesOK(d)'
  BY <1>1, <1>3 DEF BytesOK
<1>5. NoUpdateLeft'
  BY <1>1 DEF NoUpdateLeft, Early, Pending
<1>6. CommandsOK'
  BY <1>1, <1>3 DEF CommandsOK, Pending
<1>7. HandlerOK'
  <2>1. op["handler"] = "restore" => (Written("handler")' <=> Written("handler"))
    BY <1>3 DEF Written, Contexts, Busy
  <2> QED
    BY <1>1, <2>1 DEF HandlerOK
<1>8. op'["sync"] # "read" => orig'.quot = boot'.quot
  BY <1>1
<1> QED
  BY <1>1, <1>4, <1>5, <1>6, <1>7, <1>8 DEF CalmInv

LEMMA InitCalm == Init => CalmInv
<1> SUFFICES ASSUME Init, Calm PROVE CalmInv
  BY DEF CalmInv
<1>1. TransactionInv /\ ContextTypes
  BY InitTransaction DEF TransactionInv
<1>2. /\ op["sync"] = "read" /\ op["handler"] = "off" /\ refused = 0
      /\ \A l \in Lanes : /\ reg[l].CONTROL = {"other"}
                          /\ reg[l].CUSTOM_WIDTH = {"other", "width"}
                          /\ ctl[l] = Idle /\ status[l] = NoReply
  BY DEF Init, Contexts
<1>3. PICK a : a = Current("sync")
  OBVIOUS
<1>4. act["sync"] = StartOf(a)
  BY <1>3 DEF Init, Contexts
<1>5. AccessOK(a)
  BY <1>1, <1>2, <1>3, CurrentOK DEF Contexts, Busy
<1>6. BytesOK("sync")
  <2>1. /\ act["sync"].step = "send"
        /\ act["sync"].do = "write" => a.do = "write" /\ act["sync"].byte = a.set
    BY <1>4, StartOK
  <2>2. a.do = "write" => a.reg # "CUSTOM_WIDTH"
    BY <1>5 DEF AccessOK, Modified2
  <2> QED
    BY <1>3, <2>1, <2>2 DEF BytesOK
<1>7. \A c \in Contexts : Busy(c) => BytesOK(c)
  BY <1>2, <1>6 DEF Contexts, Busy
<1>8. NoUpdateLeft /\ CommandsOK /\ HandlerOK /\ \A l \in Lanes : ~status[l].error
  BY <1>2 DEF NoUpdateLeft, CommandsOK, HandlerOK, Pending, NoReply, Lanes, Early
<1> QED
  BY <1>2, <1>7, <1>8 DEF CalmInv

LEMMA NextCalm == TransactionInv /\ ProgressInv /\ CalmInv /\ [Next]_vars => CalmInv'
<1> SUFFICES ASSUME TransactionInv, ProgressInv, CalmInv, [Next]_vars PROVE CalmInv'
  OBVIOUS
<1>1. ASSUME NEW c \in Contexts, Step(c) PROVE CalmInv'
  BY <1>1, SendCalm, AckCalm, ClearCalm, ResetCalm DEF Step
<1>2. ASSUME NEW l \in Lanes, Answer(l) \/ Refuse(l) PROVE CalmInv'
  BY <1>2, AnswerCalm, RefuseCalm
<1>3. CASE Expire
  <2>1. /\ op["sync"] = "wait" /\ op["handler"] = "off" /\ Begin("handler", "return")
        /\ UNCHANGED <<kind, device, bus, phy, orig, faults, boot>>
    BY <1>3 DEF Expire, past
  <2>2. "handler" \in Contexts /\ \A d \in Contexts : ~Busy(d)
    BY <2>1 DEF Contexts, Busy
  <2> QED
    BY <2>1, <2>2, BeginCalm
<1>4. CASE CtrlC
  <2>1. /\ op["sync"] = "wait" /\ Begin("sync", "restore") /\ mod' = mod
        /\ UNCHANGED <<kind, device, bus, phy, orig, faults, boot>>
    BY <1>4 DEF CtrlC
  <2>2. "sync" \in Contexts /\ ~Busy("sync")
    BY <2>1 DEF Contexts, Busy
  <2> QED
    BY <2>1, <2>2, BeginCalm
<1>5. CASE Done
  <2>1. /\ UNCHANGED <<kind, device, ctl, status, reg, pll, orig, mod, i, act, refused, boot>>
        /\ op["sync"] = "wait" /\ op["handler"] = "end" /\ op' = [op EXCEPT !["sync"] = "end"]
    BY <1>5 DEF Done, bus, phy, faults, past
  <2>2. op'["sync"] = "end" /\ op'["handler"] = op["handler"]
    BY <2>1 DEF TransactionInv, ContextTypes, Contexts
  <2> QED
    BY <2>1, <2>2, StillCalm
<1>6. CASE UNCHANGED vars
  <2>1. /\ UNCHANGED <<kind, device, ctl, status, reg, pll, orig, mod, i, act, refused, boot>>
        /\ op' = op
    BY <1>6 DEF vars, bus, phy, faults, past
  <2> QED
    BY <2>1, StillCalm
<1> QED
  BY <1>1, <1>2, <1>3, <1>4, <1>5, <1>6 DEF Next

\* Once thread and handler are through, the PLL has the dividers that the display
\* driver programmed and no foreign bit of the registers is lost, unless an access was
\* given up (phys::reset_phy_regs with C10 and C20); a C10 has them back even if
\* both restore it at once. Two that restore a C20 at once are excluded.
THEOREM RestoredInTheEnd ==
  ASSUME Overlapping \subseteq {"c10"}
  PROVE  Spec => []RestoredExactly
<1>1. TransactionInv /\ ProgressInv /\ CalmInv => RestoredExactly
  <2> SUFFICES ASSUME TransactionInv, ProgressInv, CalmInv, Ended PROVE RestoredExactly
    BY DEF RestoredExactly
  <2>1. OrderOK /\ BusTypes
    BY DEF TransactionInv
  <2>2. ASSUME ~overlap, ~gaveUp PROVE pll = boot /\ OthersKept
    BY <2>2 DEF ProgressInv, Ended
  <2>3. ASSUME overlap PROVE pll = boot
    <3>1. Calm /\ op["handler"] = "end"
      BY <2>1, <2>3 DEF OrderOK, Calm, Prompt, Ended
    <3>2. pll.quot = boot.quot /\ pll.rem = boot.rem
      BY <3>1 DEF CalmInv, HandlerOK, ProgressInv, Calm
    <3> QED
      BY <2>1, <3>2 DEF BusTypes, IsDividers, IsWord
  <2> QED
    BY <2>2, <2>3 DEF RestoredExactly
<1>2. Init => TransactionInv /\ ProgressInv /\ CalmInv
  BY InitTransaction, InitProgress, InitCalm
<1>3. TransactionInv /\ ProgressInv /\ CalmInv /\ [Next]_vars
        => (TransactionInv /\ ProgressInv /\ CalmInv)'
  BY NextTransaction, NextProgress, NextCalm
<1> QED
  BY <1>1, <1>2, <1>3, PTL DEF Spec

=============================================================================
