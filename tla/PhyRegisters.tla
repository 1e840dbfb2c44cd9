---------------------------- MODULE PhyRegisters ----------------------------
(***************************************************************************)
(* The PHY classes and the divider values they find for a clock: Combo     *)
(* (lib/combo.cpp), Dekel (lib/dkl.cpp), DP M & N (lib/dp_m_n.cpp), C10    *)
(* and C20 (lib/c10.cpp, c20.cpp).  Each PHY's thread reads its registers, *)
(* turns a clock into divider values, writes them, and later writes the    *)
(* saved ones back, as program_phy and reset_phy_regs of lib/phy.cpp make  *)
(* it do.  The bus to the registers of C10 and C20 is left to Cx0Bus: here *)
(* they are read and written at once.                                      *)
(*                                                                         *)
(* A Dekel PHY is seen through an aperture. An index register, one for     *)
(* four PHYs, says which part of it shows; when DIV0 reads 0 the code      *)
(* takes it that the wrong part does, and writes the index register.       *)
(*                                                                         *)
(* A clock is (int * Radix + frac) * Sub + rem units: an integer and a     *)
(* fractional divider, and Sub - 1 clocks between two of its values. In    *)
(* M & N it is M, int its upper and frac its lower bits. C10 and C20 have  *)
(* a multiplier (int), a quotient (frac) and a remainder (rem), as a       *)
(* fraction of the quotient's unit, whose denominator is taken to be Sub.  *)
(***************************************************************************)
EXTENDS Integers

CONSTANTS
  Phys,        \* the PHYs, each with the thread that works on it
  Kinds,       \* "combo", "dkl", "mn", "c10", "c20": what they may be
  IndexOf,     \* the index register of each PHY, if it is a Dekel PHY
  NoPhy,       \* an index register that shows the PLL of none of them
  Radix,       \* the fractional divider is 0 .. Radix - 1
  IntMax,      \* the greatest integer divider of a Dekel PHY
  Sub,         \* clocks per value of the fractional divider
  Boot,        \* the dividers the display driver may have programmed
  Changes      \* what may be added to the clock

ASSUME RegisterAssumption ==
  /\ Kinds \subseteq {"combo", "dkl", "mn", "c10", "c20"}
  /\ NoPhy \notin Phys
  /\ Radix \in Nat \ {0} /\ IntMax \in Nat \ {0} /\ Sub \in Nat \ {0}
  /\ Boot \subseteq [int : 1 .. IntMax, frac : 0 .. Radix - 1, rem : 0 .. Sub - 1]
  /\ Changes \subseteq Int

VARIABLES
  kind,    \* what each PHY is: a constant of each behaviour
  bank,    \* its PLL's registers
  index,   \* the PHY that each index register shows
  orig,    \* orig_val
  mod,     \* mod_val
  clock,   \* what calculate_pll_clock returned
  target,  \* the clock asked for
  op,      \* the operation each thread is in: its place in Script
  at,      \* and where in it
  div0,    \* the value of DIV0 it has read last
  boot,    \* history: the dividers before the first operation
  disturbed \* history: the PHYs whose aperture another one shifted under an operation

history == <<boot, disturbed>>
vars == <<kind, bank, index, orig, mod, clock, target, op, at, div0, history>>

\* What program_phy and then reset_phy_regs call: there, back, and exactly back.
Script == << "read", "clock", "dividers", "program", "dividers", "program", "restore" >>
Op(p)  == Script[op[p]]

Places == 1 .. 7
Indexes == {IndexOf[p] : p \in Phys}
Zero == [int |-> 0, frac |-> 0, rem |-> 0]

ClockOf(d) == (d.int * Radix + d.frac) * Sub + d.rem

\* The clock that calculate_pll_clock finds: Combo and Dekel read their registers
\* again, the others use what they have saved.
PllClock(p, d) == ClockOf(IF kind[p] \in {"combo", "dkl"} THEN d ELSE orig[p])

Least(a, b) == IF a < b THEN a ELSE b

-----------------------------------------------------------------------------
(* calculate_feedback_dividers.                                            *)

Unit == Radix * Sub
RoundDiv(a, b) == (2 * a + b) \div (2 * b)

\* Combo, and M & N: the remainder is cut off.
CutDividers(c) == [int |-> c \div Unit, frac |-> (c % Unit) \div Sub, rem |-> 0]

\* Variant: the fraction is not brought into its range.
DklDividers_NoLimit(c) ==
  LET i == Least(c \div Unit, IntMax)
  IN  [int |-> i, frac |-> RoundDiv(c - i * Unit, Sub), rem |-> 0]

\* Variant: the integer part is rounded like the fraction.
DklDividers_RoundedInt(c) ==
  LET i == Least(RoundDiv(c, Unit), IntMax)
      f == RoundDiv(c - i * Unit, Sub)
  IN  [int |-> i, frac |-> IF f < 0 THEN 0 ELSE Least(f, Radix - 1), rem |-> 0]

\* The fraction is rounded, and kept within its bits.
DklDividers(c) ==
  LET i == Least(c \div Unit, IntMax)
  IN  [int |-> i, frac |-> Least(RoundDiv(c - i * Unit, Sub), Radix - 1), rem |-> 0]

\* C10: only the quotient changes. Its upper byte is stored as one, so that a clock
\* beyond its range wraps.
C10Quotient(old, c) == (c - old.rem) \div Sub - old.int * Radix
C10Dividers(old, c) == [old EXCEPT !.frac = C10Quotient(old, c) % Radix]

\* C20: the quotient, of two integer steps, is rounded. When it is rounded up the
\* remainder is negative and becomes, without a sign, the greatest there is: one
\* more unit. (What converting a negative quotient yields is undefined in C++; the
\* x86-64 processors with these PHYs make it wrap.)
C20Quotient(old, c) == RoundDiv(c - old.int * Unit, Sub)
C20Dividers(old, c) ==
  LET left == c - old.int * Unit - C20Quotient(old, c) * Sub
  IN  [old EXCEPT !.frac = C20Quotient(old, c) % (2 * Radix),
                  !.rem  = IF left < 0 THEN Sub ELSE left]

\* The new modified values. A DIV0 of 0 makes the prediv factor 0 and the
\* divider infinite; how that converts to an integer is undefined.
NewDividers(p, c) ==
  CASE kind[p] \in {"combo", "mn"} -> {CutDividers(c)}
    [] kind[p] = "c10" -> {C10Dividers(orig[p], c)}
    [] kind[p] = "c20" -> {C20Dividers(orig[p], c)}
    [] kind[p] = "dkl" /\ div0[p] # 0 -> {DklDividers(c)}
    [] OTHER -> {[int |-> IntMax, frac |-> f, rem |-> 0] : f \in 0 .. Radix - 1}

-----------------------------------------------------------------------------

Init ==
  /\ kind \in [Phys -> Kinds]
  /\ bank \in [Phys -> Boot]
  /\ \A p \in Phys : bank[p].rem # 0 => kind[p] \in {"c10", "c20"}
  /\ boot = bank
  /\ index \in [Indexes -> Phys \cup {NoPhy}]
  /\ orig = [p \in Phys |-> Zero]
  /\ mod = orig
  /\ clock = [p \in Phys |-> 0]
  /\ target = clock
  /\ op = [p \in Phys |-> 1]
  /\ at = [p \in Phys |-> "begin"]
  /\ div0 = [p \in Phys |-> 0]
  /\ disturbed = {}

\* A Dekel PHY's PLL shows in its aperture; other registers always do.
Shows(p) == kind[p] = "dkl" => index[IndexOf[p]] = p

\* An aperture that shows something else reads 0, and keeps the PLL from writes.
Read(p, field) == IF Shows(p) THEN bank[p][field] ELSE 0
Written(p, field, v) ==
  IF Shows(p) THEN [bank EXCEPT ![p][field] = v] ELSE bank

Goto(p, place) == at' = [at EXCEPT ![p] = place]

\* The next operation; after the last one a new synchronisation may begin.
Advance(p) ==
  /\ op' = [op EXCEPT ![p] = IF @ = 7 THEN 1 ELSE @ + 1]
  /\ Goto(p, "begin")

\* What the operations that do not write leave behind, given the dividers they
\* have read. program_phy gives up on a clock that reads 0.
Conclude(p, d) ==
  \/ /\ Op(p) = "read"
     /\ orig' = [orig EXCEPT ![p] = d]
     /\ mod' = IF kind[p] = "combo" THEN mod ELSE [mod EXCEPT ![p] = d]
     /\ Advance(p)
     /\ UNCHANGED <<clock, target>>
  \/ /\ Op(p) = "clock"
     /\ clock' = [clock EXCEPT ![p] = PllClock(p, d)]
     /\ IF PllClock(p, d) > 0
        THEN Advance(p)
        ELSE op' = [op EXCEPT ![p] = 1] /\ Goto(p, "begin")
     /\ UNCHANGED <<orig, mod, target>>
  \/ /\ Op(p) = "dividers"
     /\ \E change \in Changes :
          /\ clock[p] + change > 0
          /\ target' = [target EXCEPT ![p] =
                          IF op[p] = 3 THEN clock[p] + change ELSE clock[p]]
     /\ \E n \in NewDividers(p, target'[p]) : mod' = [mod EXCEPT ![p] = n]
     /\ Advance(p)
     /\ UNCHANGED <<orig, clock>>

Writing(p) == Op(p) \in {"program", "restore"}

\* program_mmio(true) writes the modified values, program_mmio(false) the saved.
Values(p) == IF Op(p) = "restore" THEN orig[p] ELSE mod[p]

-----------------------------------------------------------------------------
(* All but Dekel: what changes is in one register, or behind Cx0Bus.       *)

Direct(p) ==
  /\ kind[p] # "dkl"
  /\ IF Writing(p)
     THEN /\ bank' = [bank EXCEPT ![p] = Values(p)]
          /\ Advance(p)
          /\ UNCHANGED <<orig, mod, clock, target>>
     ELSE /\ Conclude(p, bank[p])
          /\ UNCHANGED bank
  /\ UNCHANGED <<kind, index, div0, history>>

-----------------------------------------------------------------------------
(* Dekel: DIV0 is read first, and perhaps once more.                       *)

Probe(p) ==
  /\ kind[p] = "dkl" /\ at[p] = "begin"
  /\ div0' = [div0 EXCEPT ![p] = Read(p, "int")]
  /\ Goto(p, CASE div0'[p] = 0 -> "select"
               [] div0'[p] # 0 -> IF Writing(p) THEN "div0" ELSE "bias")
  /\ UNCHANGED <<kind, bank, index, orig, mod, clock, target, op, history>>

\* The other PHYs that the index register serves and that have seen their aperture
\* already, in an operation that has still to use it.
Robbed(p) ==
  {q \in Phys \ {p} : IndexOf[q] = IndexOf[p] /\ at[q] \in {"again", "bias", "div0"}}

\* Variant: the value read before is used.
Select_NoReread(p) ==
  /\ at[p] = "select"
  /\ index' = [index EXCEPT ![IndexOf[p]] = p]
  /\ disturbed' = disturbed \cup Robbed(p)
  /\ Goto(p, IF Writing(p) THEN "div0" ELSE "bias")
  /\ UNCHANGED <<kind, bank, orig, mod, clock, target, op, div0, boot>>

\* The whole register is written: the other PHYs it serves no longer show.
Select(p) ==
  /\ at[p] = "select"
  /\ index' = [index EXCEPT ![IndexOf[p]] = p]
  /\ disturbed' = disturbed \cup Robbed(p)
  /\ Goto(p, IF Writing(p) THEN "div0" ELSE "again")
  /\ UNCHANGED <<kind, bank, orig, mod, clock, target, op, div0, boot>>

Reread(p) ==
  /\ at[p] = "again"
  /\ div0' = [div0 EXCEPT ![p] = Read(p, "int")]
  /\ Goto(p, "bias")
  /\ UNCHANGED <<kind, bank, index, orig, mod, clock, target, op, history>>

\* The fraction is read, and the operation concludes.
ReadBias(p) ==
  /\ at[p] = "bias" /\ ~Writing(p)
  /\ Conclude(p, [int |-> div0[p], frac |-> Read(p, "frac"), rem |-> 0])
  /\ UNCHANGED <<kind, bank, index, div0, history>>

WriteDiv0(p) ==
  /\ at[p] = "div0"
  /\ bank' = Written(p, "int", Values(p).int)
  /\ Goto(p, "bias")
  /\ UNCHANGED <<kind, index, orig, mod, clock, target, op, div0, history>>

\* Variant: the saved fraction is written.
WriteBias_Saved(p) ==
  /\ at[p] = "bias" /\ Writing(p)
  /\ bank' = Written(p, "frac", orig[p].frac)
  /\ Advance(p)
  /\ UNCHANGED <<kind, index, orig, mod, clock, target, div0, history>>

WriteBias(p) ==
  /\ at[p] = "bias" /\ Writing(p)
  /\ bank' = Written(p, "frac", Values(p).frac)
  /\ Advance(p)
  /\ UNCHANGED <<kind, index, orig, mod, clock, target, div0, history>>

-----------------------------------------------------------------------------

\* After Ctrl+C, the loop of set_pll_clock does not lead back to the old clock:
\* reset_phy_regs writes the saved registers at once.
CutShort(p) ==
  /\ op[p] = 5 /\ at[p] = "begin"
  /\ op' = [op EXCEPT ![p] = 7]
  /\ UNCHANGED <<kind, bank, index, orig, mod, clock, target, at, div0, history>>

\* A bound: what becomes of a PHY that was disturbed is followed no further.
Step(p) ==
  /\ p \notin disturbed
  /\ \/ Direct(p) \/ CutShort(p)
     \/ Probe(p) \/ Select(p) \/ Reread(p)
     \/ ReadBias(p) \/ WriteDiv0(p) \/ WriteBias(p)

Next == \E p \in Phys : Step(p)

Spec == Init /\ [][Next]_vars

-----------------------------------------------------------------------------
(* Properties.                                                             *)

FracTop(p)  == IF kind[p] = "c20" THEN 2 * Radix - 1 ELSE Radix - 1
Dividers(p) == [int : 0 .. IntMax, frac : 0 .. FracTop(p), rem : 0 .. Sub]

\* Every variable has the type of what it stands for: divider values stay within
\* the bits that hold them.
TypeOK ==
  /\ kind \in [Phys -> Kinds]
  /\ boot \in [Phys -> Boot] /\ disturbed \subseteq Phys
  /\ \A p \in Phys : {bank[p], orig[p], mod[p]} \subseteq Dividers(p)
  /\ index \in [Indexes -> Phys \cup {NoPhy}]
  /\ clock \in [Phys -> Nat] /\ target \in [Phys -> Nat]
  /\ op \in [Phys -> Places]
  /\ at \in [Phys -> {"begin", "select", "again", "bias", "div0"}]
  /\ div0 \in [Phys -> 0 .. IntMax]

\* A PHY's operation that writes has the effect it reports: its last write leaves
\* the PLL with the values it was to have, all of them - whatever PHYs share its
\* index register, as long as none writes that in the middle of the operation.
WritesArrive ==
  [][\A p \in Phys \ disturbed : Writing(p) /\ op'[p] # op[p] => bank'[p] = Values(p)]_vars

\* The clocks the registers can hold: C10 and C20 do not change the multiplier.
Reachable(p) ==
  CASE kind[p] = "c10" -> C10Quotient(orig[p], target[p]) \in 0 .. Radix - 1
    [] kind[p] = "c20" -> C20Quotient(orig[p], target[p]) \in 0 .. 2 * Radix - 1
    [] OTHER           -> target[p] < (IntMax + 1) * Unit

\* C20 may be a unit further off, for the remainder that is negative.
Precision(p) == IF kind[p] = "c20" THEN 2 * Sub ELSE Sub

\* The PLL runs at the clock that set_pll_clock asked for, to the precision of the
\* fraction: the integer and the fraction carry over into each other, and what it
\* computed them from was read through its own aperture (dkl.cpp:294-297).
HoldsTarget ==
  \A p \in Phys \ disturbed : op[p] = 5 /\ at[p] = "begin" /\ Reachable(p) =>
    LET held == ClockOf(bank[p])
    IN  held - Precision(p) < target[p] /\ target[p] < held + Precision(p)

\* When the saved registers have been written back nothing is left of any
\* rounding on the way (phy.cpp:90-93), nor was anything but this PHY's registers
\* ever saved.
RestoredExactly ==
  \A p \in Phys \ disturbed : op[p] = 1 /\ at[p] = "begin" => bank[p] = boot[p]

=============================================================================
