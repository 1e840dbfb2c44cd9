------------------------------- MODULE Cx0Bus -------------------------------
(***************************************************************************)
(* The PHYs of the CX0 family: C10 (lib/c10.cpp) and C20 (lib/c20.cpp).    *)
(* Their registers are reached byte by byte over a message bus, one for    *)
(* each lane (lib/cx0_helper.cpp): the code writes a command to a control  *)
(* register, and finds the answer in a status register.  It takes three    *)
(* tries; then a read yields 0, a write has no effect, and nobody is told. *)
(*                                                                         *)
(* Two contexts use the bus of a PHY: its thread, and the handler of its   *)
(* timer.  They meet when Ctrl+C makes the thread restore the PHY while a  *)
(* handler is at it already.                                               *)
(*                                                                         *)
(* A byte is the set of its bits that are 1, hence 0 is {}.                *)
(***************************************************************************)
EXTENDS Integers, Sequences

CONSTANTS
  Kinds,        \* "c10", "c20": what the PHY may be
  Devices,      \* how its end of the bus may behave
  Boot,         \* the dividers the display driver may have programmed
  Goals,        \* the dividers calculate_feedback_dividers may find
  Overlapping   \* bound: the kinds for which both contexts may be at it at once

\* late: the answers it may not have given when the code looks for them; with none it
\* has always answered before the code's next access. keeps: an answer whose flag has
\* been cleared can still be read. refusals: the commands it may answer with an error.
ASSUME Cx0Assumption ==
  /\ Kinds \subseteq {"c10", "c20"}
  /\ Devices \subseteq [late : Nat, keeps : BOOLEAN, refusals : Nat]
  /\ \A d \in Boot \cup Goals :
       d = [quot |-> [hi |-> d.quot.hi, lo |-> d.quot.lo],
            rem  |-> [hi |-> d.rem.hi,  lo |-> d.rem.lo]]
  /\ Overlapping \subseteq Kinds

Lanes    == {0, 1}
Contexts == {"sync", "handler"}

\* Variant: there is one try less.
Tries_Two == 2

Tries == 3

VARIABLES
  kind, device,  \* constants of each behaviour
  ctl,           \* the command in each lane's control register
  status,        \* the answer in its status register
  reg,           \* the PHY's registers, by lane and name
  sram,          \* C20: the divider registers behind them
  pll,           \* the dividers in effect
  orig, mod,     \* pll_state_orig and pll_state_mod
  op, i,         \* each context's operation, and which access of it
  act,           \* the transaction it is in
  refused, early, \* commands answered with an error, and looks that came too early
  gaveUp,        \* history: some access has used up its tries
  overlap,       \* history: both contexts have been at it
  boot           \* history: the dividers before anything was done

bus  == <<ctl, status>>
phy  == <<reg, sram, pll>>
faults == <<refused, early>>
past == <<gaveUp, overlap, boot>>
vars == <<kind, device, bus, phy, orig, mod, op, i, act, faults, past>>

Idle    == [cmd |-> "none", reg |-> "none", data |-> {}]
NoReply == [error |-> FALSE, type |-> "none", data |-> {}]

-----------------------------------------------------------------------------
(* The operations, as sequences of accesses to bytes.                      *)

Access(lane, do, r, clear, set, committed) ==
  [lane |-> lane, do |-> do, reg |-> r, clear |-> clear, set |-> set,
   committed |-> committed, into |-> << >>]

Write(r, byte)    == Access(0, "write", r, {}, byte, TRUE)
Prepare(r, byte)  == Access(0, "write", r, {}, byte, FALSE)
Fetch(r, f, half) == [Access(0, "read", r, {}, {}, TRUE) EXCEPT !.into = <<f, half>>]

OnBothLanes(r, clear, set) ==
  << Access(0, "modify", r, clear, set, TRUE), Access(1, "modify", r, clear, set, TRUE) >>

C10Read == << Fetch("QUOT_LOW", "quot", "lo"), Fetch("QUOT_HIGH", "quot", "hi") >>

C10Program(d) ==
  OnBothLanes("CONTROL", {}, {"access"})
  \o OnBothLanes("CUSTOM_WIDTH", {"width"}, {})
  \o OnBothLanes("CONTROL", {}, {"update"})
  \o << Write("QUOT_LOW", d.quot.lo), Write("QUOT_HIGH", d.quot.hi),
        Access(0, "modify", "CONTROL", {}, {"master", "update"}, TRUE) >>

\* A register of the SRAM is addressed by two bytes: the page and the register.
SramRead(f) ==
  << Prepare("RD_ADDRESS_H", {"page"}), Write("RD_ADDRESS_L", {f}),
     Fetch("RD_DATA_H", f, "hi"), Fetch("RD_DATA_L", f, "lo") >>

SramWrite(f, word) ==
  << Prepare("WR_ADDRESS_H", {"page"}), Prepare("WR_ADDRESS_L", {f}),
     Prepare("WR_DATA_H", word.hi), Write("WR_DATA_L", word.lo) >>

C20Read == SramRead("quot") \o SramRead("rem")

C20Program(d) ==
  SramWrite("quot", d.quot) \o SramWrite("rem", d.rem)
  \o SramWrite("frac_update", [hi |-> {}, lo |-> {"update"}])

\* The modified values are programmed, the saved ones restored.
Accesses(o, saved, modified) ==
  LET d == IF o = "restore" THEN saved ELSE modified
  IN  CASE o = "read" -> IF kind = "c10" THEN C10Read ELSE C20Read
        [] o # "read" -> IF kind = "c10" THEN C10Program(d) ELSE C20Program(d)

Busy(c)    == op[c] \in {"read", "program", "return", "restore"}
Current(c) == Accesses(op[c], orig, mod)[i[c]]

\* program_phy and, when the timer expires, reset_phy_regs.
NextOp(o) ==
  CASE o = "read"    -> "program"
    [] o = "program" -> "wait"
    [] o = "return"  -> "restore"
    [] o = "restore" -> "end"

\* What an access starts with: a read-modify-write reads.
StartOf(a) ==
  [step |-> "send", do |-> IF a.do = "write" THEN "write" ELSE "read",
   try |-> 1, byte |-> IF a.do = "write" THEN a.set ELSE {}]

NoAct == [step |-> "none", do |-> "read", try |-> 1, byte |-> {}]

-----------------------------------------------------------------------------

\* What the code cannot tell apart does not occur: every answer is there when it
\* looks or, if all writes are committed, old answers cannot be taken for new ones.
Prompt   == device.late = 0
Reliable == Prompt \/ (kind = "c10" /\ ~device.keeps)

Init ==
  /\ kind \in Kinds /\ device \in Devices /\ Reliable
  /\ boot \in Boot
  /\ ctl = [l \in Lanes |-> Idle]
  /\ status = [l \in Lanes |-> NoReply]
  /\ reg = [l \in Lanes |->
       [CONTROL |-> {"other"}, CUSTOM_WIDTH |-> {"other", "width"},
        QUOT_HIGH |-> boot.quot.hi, QUOT_LOW |-> boot.quot.lo,
        RD_ADDRESS_H |-> {}, RD_ADDRESS_L |-> {}, RD_DATA_H |-> {}, RD_DATA_L |-> {},
        WR_ADDRESS_H |-> {}, WR_ADDRESS_L |-> {}, WR_DATA_H |-> {}, WR_DATA_L |-> {}]]
  /\ sram = boot /\ pll = boot
  /\ orig = [quot |-> [hi |-> {}, lo |-> {}], rem |-> [hi |-> {}, lo |-> {}]]
  /\ mod = orig
  /\ op = [c \in Contexts |-> IF c = "sync" THEN "read" ELSE "off"]
  /\ i = [c \in Contexts |-> 1]
  /\ act = [c \in Contexts |-> IF c = "sync" THEN StartOf(Current(c)) ELSE NoAct]
  /\ refused = 0 /\ early = 0
  /\ gaveUp = FALSE /\ overlap = FALSE

-----------------------------------------------------------------------------
(* A transaction: a command, a look at the status, the flag cleared.       *)

Lane(c)    == Current(c).lane
Pending(l) == ctl[l] # Idle

\* The waits for a register read it once, whatever they find: the code is never
\* held up, and only a prompt device is through when it goes on.
May(c, step) ==
  /\ Busy(c) /\ act[c].step = step
  /\ Prompt => \A l \in Lanes : ~Pending(l)

Cleared(s) == [(IF device.keeps THEN s ELSE NoReply) EXCEPT !.error = FALSE]

Goto(c, step) == act' = [act EXCEPT ![c].step = step]

\* The next access of c, or its next operation with newly computed dividers.
Advance(c) ==
  LET last == i[c] = Len(Accesses(op[c], orig, mod))
      next == IF last THEN NextOp(op[c]) ELSE op[c]
  IN  /\ op' = [op EXCEPT ![c] = next]
      /\ i' = [i EXCEPT ![c] = IF last THEN 1 ELSE @ + 1]
      /\ IF last /\ next = "program"
         THEN mod' \in Goals
         ELSE UNCHANGED mod
      /\ act' = [act EXCEPT ![c] =
           IF next \in {"wait", "end"} THEN NoAct
           ELSE StartOf(Accesses(next, orig', mod')[i'[c]])]

\* Variant: the bits that are not to be set are lost.
Modified_SetOnly(byte, a) == a.set

Modified(byte, a) == (byte \ a.clear) \cup a.set

\* The transaction of c is over, and has read byte: a modified value is written
\* unless it is the old one.
Conclude(c, byte) ==
  LET a == Current(c)
  IN  \/ /\ a.do = "modify" /\ act[c].do = "read" /\ Modified(byte, a) # byte
         /\ act' = [act EXCEPT ![c] = [step |-> "send", do |-> "write", try |-> 1,
                                       byte |-> Modified(byte, a)]]
         /\ UNCHANGED <<orig, mod, op, i>>
      \/ /\ ~(a.do = "modify" /\ act[c].do = "read" /\ Modified(byte, a) # byte)
         /\ orig' = IF a.into = << >> THEN orig
                    ELSE [orig EXCEPT ![a.into[1]][a.into[2]] = byte]
         /\ Advance(c)

Send(c) ==
  LET a == Current(c)
  IN  /\ May(c, "send")
      /\ ctl' = [ctl EXCEPT ![a.lane] =
           [cmd |-> IF act[c].do = "read" THEN "read"
                    ELSE IF a.committed THEN "committed" ELSE "uncommitted",
            reg |-> a.reg,
            data |-> IF act[c].do = "read" THEN {} ELSE act[c].byte]]
      /\ Goto(c, "ack")
      /\ UNCHANGED <<kind, device, status, phy, orig, mod, op, i, faults, past>>

\* Variant: any answer will do.
Accepted_AnyType(do, committed, s) == ~s.error

\* intel_cx0_wait_for_ack does not look at the flag that says that an answer is
\* there, only at what the answer would be; an uncommitted write has none.
Accepted(do, committed, s) ==
  /\ ~s.error
  /\ do = "read" => s.type = "read_ack"
  /\ do = "write" /\ committed => s.type = "write_ack"

Ack(c) ==
  LET a == Current(c)
      s == status[a.lane]
  IN  /\ May(c, "ack")
      /\ Pending(a.lane) => early < device.late
      /\ early' = IF Pending(a.lane) THEN early + 1 ELSE early
      /\ IF Accepted(act[c].do, a.committed, s)
         THEN act' = [act EXCEPT ![c].step = "clear",
                                 ![c].byte = IF act[c].do = "read" THEN s.data ELSE @]
         ELSE Goto(c, "reset")
      /\ UNCHANGED <<kind, device, bus, phy, orig, mod, op, i, refused, past>>

\* intel_clear_response_ready_flag.
Clear(c) ==
  /\ May(c, "clear")
  /\ status' = [status EXCEPT ![Lane(c)] = Cleared(@)]
  /\ Conclude(c, act[c].byte)
  /\ UNCHANGED <<kind, device, ctl, phy, faults, past>>

\* intel_cx0_bus_reset, once or twice in a row. A read that is given up is 0.
Reset(c) ==
  LET l == Lane(c)
  IN  /\ May(c, "reset")
      /\ ctl' = [ctl EXCEPT ![l] = Idle]
      /\ status' = [status EXCEPT ![l] = Cleared(@)]
      /\ IF act[c].try < Tries
         THEN /\ act' = [act EXCEPT ![c].step = "send", ![c].try = @ + 1]
              /\ UNCHANGED <<orig, mod, op, i, gaveUp>>
         ELSE /\ Conclude(c, {})
              /\ gaveUp' = TRUE
      /\ UNCHANGED <<kind, device, phy, faults, overlap, boot>>

-----------------------------------------------------------------------------
(* The device.                                                             *)

\* The register of the SRAM that two address bytes select.
Selected(h, l) == IF h = {"page"} THEN l ELSE {}

\* The registers change in effect when the code asks for an update, and the
\* request is taken back.
Perform(l, t) ==
  LET after == [reg[l] EXCEPT ![t.reg] = IF t.reg = "CONTROL" THEN t.data \ {"update"}
                                         ELSE t.data]
      cell  == Selected(after.WR_ADDRESS_H, after.WR_ADDRESS_L)
      wanted == Selected(after.RD_ADDRESS_H, after.RD_ADDRESS_L)
      word  == [hi |-> after.WR_DATA_H, lo |-> after.WR_DATA_L]
  IN  /\ sram' = CASE t.reg = "WR_DATA_L" /\ cell = {"quot"} -> [sram EXCEPT !.quot = word]
                   [] t.reg = "WR_DATA_L" /\ cell = {"rem"}  -> [sram EXCEPT !.rem = word]
                   [] OTHER -> sram
      /\ pll' = CASE t.reg = "CONTROL" /\ l = 0 /\ "update" \in t.data ->
                       [pll EXCEPT !.quot = [hi |-> after.QUOT_HIGH, lo |-> after.QUOT_LOW]]
                  [] t.reg = "WR_DATA_L" /\ cell = {"frac_update"} -> sram
                  [] OTHER -> pll
      /\ reg' = [reg EXCEPT ![l] =
           IF t.reg = "RD_ADDRESS_L" /\ wanted \in {{"quot"}, {"rem"}}
           THEN LET f == IF wanted = {"quot"} THEN "quot" ELSE "rem"
                IN  [after EXCEPT !.RD_DATA_H = sram[f].hi, !.RD_DATA_L = sram[f].lo]
           ELSE after]

Answer(l) ==
  /\ Pending(l)
  /\ ctl' = [ctl EXCEPT ![l] = Idle]
  /\ \/ /\ ctl[l].cmd = "read"
        /\ status' = [status EXCEPT ![l] = [error |-> FALSE, type |-> "read_ack",
                                            data |-> reg[l][ctl[l].reg]]]
        /\ UNCHANGED phy
     \/ /\ ctl[l].cmd = "committed"
        /\ status' = [status EXCEPT ![l] = [error |-> FALSE, type |-> "write_ack",
                                            data |-> {}]]
        /\ Perform(l, ctl[l])
     \/ /\ ctl[l].cmd = "uncommitted"
        /\ Perform(l, ctl[l])
        /\ UNCHANGED status
  /\ UNCHANGED <<kind, device, orig, mod, op, i, act, faults, past>>

Refuse(l) ==
  /\ Pending(l)
  /\ refused < device.refusals
  /\ refused' = refused + 1
  /\ ctl' = [ctl EXCEPT ![l] = Idle]
  /\ status' = [status EXCEPT ![l].error = TRUE]
  /\ UNCHANGED <<kind, device, phy, orig, mod, op, i, act, early, past>>

-----------------------------------------------------------------------------
(* When the operations begin.                                              *)

Begin(c, o) ==
  /\ op' = [op EXCEPT ![c] = o]
  /\ i' = [i EXCEPT ![c] = 1]
  /\ act' = [act EXCEPT ![c] = StartOf(Accesses(o, orig, mod')[1])]

\* The timer expires, and the clock goes back by the dividers computed for it.
Expire ==
  /\ op["sync"] = "wait" /\ op["handler"] = "off"
  /\ mod' \in Goals
  /\ Begin("handler", "return")
  /\ UNCHANGED <<kind, device, bus, phy, orig, faults, past>>

\* The flag is up: wait_until_done returns.
Done ==
  /\ op["sync"] = "wait" /\ op["handler"] = "end"
  /\ op' = [op EXCEPT !["sync"] = "end"]
  /\ UNCHANGED <<kind, device, bus, phy, orig, mod, i, act, faults, past>>

\* After Ctrl+C the thread restores the registers itself, whatever a handler is
\* doing; one that has not begun never does, the timer is deleted. As a bound, this
\* is a device that answers in time, and one that refuses nothing if the two meet.
CtrlC ==
  /\ op["sync"] = "wait" /\ op["handler"] # "end" /\ Prompt
  /\ op["handler"] # "off" => kind \in Overlapping /\ device.refusals = 0
  /\ overlap' = (op["handler"] # "off")
  /\ UNCHANGED <<kind, device, bus, phy, orig, mod, faults, gaveUp, boot>>
  /\ Begin("sync", "restore")

Ended == op["sync"] = "end" /\ op["handler"] \in {"off", "end"}

Step(c) == Send(c) \/ Ack(c) \/ Clear(c) \/ Reset(c)

Next ==
  \/ \E c \in Contexts : Step(c)
  \/ \E l \in Lanes : Answer(l) \/ Refuse(l)
  \/ Expire \/ Done \/ CtrlC
  \/ Ended /\ UNCHANGED vars

Spec == Init /\ [][Next]_vars

-----------------------------------------------------------------------------
(* Properties.                                                             *)

\* A byte that is taken for a register's value is that, and never the answer to
\* another command, though nothing but its type is compared.
NoForeignByte ==
  ~overlap => \A c \in Contexts :
    Busy(c) /\ act[c].step = "clear" /\ act[c].do = "read" =>
      act[c].byte = reg[Lane(c)][Current(c).reg]

\* Three tries are enough (cx0_helper.cpp:400, 483) for a device that answers in
\* time, as long as it refuses less than three commands.
TriesSuffice ==
  Prompt /\ ~overlap /\ refused < 3 => ~gaveUp

OthersKept ==
  \A l \in Lanes : "other" \in reg[l].CONTROL /\ "other" \in reg[l].CUSTOM_WIDTH

\* Once the saved bytes have been written back the PLL runs as it did, and no other
\* bit of the registers is lost, unless an access was given up. With a C10 that
\* answers in time and refuses nothing it does so even if the thread and a
\* handler have restored it at the same time.
RestoredExactly ==
  Ended =>
    /\ ~overlap /\ ~gaveUp => pll = boot /\ OthersKept
    /\ overlap => pll = boot

=============================================================================
