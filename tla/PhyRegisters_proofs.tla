------------------------- MODULE PhyRegisters_proofs -------------------------
(***************************************************************************)
(* Proofs about PhyRegisters: for any PHYs, however they share their index *)
(* registers, any widths of the dividers and any change of the clock.      *)
(***************************************************************************)
EXTENDS PhyRegisters, TLAPS

-----------------------------------------------------------------------------
(* Division.                                                               *)

\* What division by a positive number yields.
LEMMA Division ==
  \A a \in Int : \A b \in Nat \ {0} :
    \E q \in Int : \E r \in 0 .. b - 1 :
      a \div b = q /\ a % b = r /\ a = b * q + r /\ (a \in Nat => q \in Nat)
<1> SUFFICES ASSUME NEW a \in Int, NEW b \in Nat \ {0}
             PROVE  /\ a \div b \in Int /\ a % b \in 0 .. b - 1
                    /\ a = b * (a \div b) + (a % b)
                    /\ a \in Nat => a \div b \in Nat
  BY Zenon
<1>1. a \div b \in Int /\ a % b \in 0 .. b - 1 /\ a = b * (a \div b) + (a % b)
  OBVIOUS
<1>2. a \in Nat => a \div b \in Nat
  OBVIOUS
<1> QED
  BY <1>1, <1>2

LEMMA ProductLess ==
  ASSUME NEW x \in Int, NEW y \in Int, NEW b \in Nat \ {0}
  PROVE  /\ b * x < b * y => x < y
         /\ x < y => b * x + b <= b * y
         /\ x \in Nat => b * x \in Nat
<1>1. b * x \in Int /\ b * y \in Int /\ b * (y - x) = b * y - b * x
  OBVIOUS
<1>2. ASSUME NEW z \in Nat \ {0} PROVE b * z >= b
  OBVIOUS
<1>3. ASSUME NEW z \in Nat PROVE b * z \in Nat
  OBVIOUS
<1>4. x < y => b * x + b <= b * y
  <2>1. ASSUME x < y PROVE y - x \in Nat \ {0}
    BY <2>1
  <2> QED
    BY <1>1, <1>2, <2>1
<1>5. b * x < b * y => x < y
  <2>1. ASSUME ~(x < y) PROVE x - y \in Nat /\ b * (x - y) = b * x - b * y
    BY <2>1
  <2>2. ASSUME ~(x < y) PROVE b * (x - y) \in Nat
    BY <1>3, <2>1, <2>2
  <2> QED
    BY <1>1, <2>1, <2>2
<1> QED
  BY <1>3, <1>4, <1>5

\* RoundDiv is at most half of the divisor away.
LEMMA Rounding ==
  ASSUME NEW a \in Int, NEW b \in Nat \ {0}
  PROVE  /\ RoundDiv(a, b) \in Int
         /\ 2 * a - b <= 2 * (b * RoundDiv(a, b)) /\ 2 * (b * RoundDiv(a, b)) <= 2 * a + b
         /\ a \in Nat => RoundDiv(a, b) \in Nat
<1> DEFINE n == 2 * a + b
           m == 2 * b
<1>1. n \in Int /\ m \in Nat \ {0} /\ (a \in Nat => n \in Nat)
  OBVIOUS
<1>2. RoundDiv(a, b) = n \div m
  BY DEF RoundDiv
<1> HIDE DEF n, m
<1>3. PICK q \in Int, s \in 0 .. m - 1 :
        n \div m = q /\ n % m = s /\ n = m * q + s /\ (n \in Nat => q \in Nat)
  BY <1>1, Division, Zenon
<1>4. m * q = 2 * (b * q) /\ b * q \in Int
  BY <1>3 DEF m
<1> QED
  BY <1>1, <1>2, <1>3, <1>4 DEF n, m

\* The numbers that the constants are.
LEMMA Widths ==
  /\ Radix \in Nat \ {0} /\ IntMax \in Nat \ {0} /\ Sub \in Nat \ {0}
  /\ Unit \in Nat \ {0} /\ Unit = Sub * Radix
<1>1. Radix \in Nat \ {0} /\ IntMax \in Nat \ {0} /\ Sub \in Nat \ {0}
  BY RegisterAssumption DEF RegisterAssumption
<1>2. Sub * Radix \in Nat \ {0} /\ Radix * Sub = Sub * Radix
  BY <1>1
<1> QED
  BY <1>1, <1>2 DEF Unit

\* What a clock made of dividers is.
LEMMA ClockIs ==
  ASSUME NEW d \in [int : Int, frac : Int, rem : Int]
  PROVE  /\ Unit * d.int \in Int /\ Sub * d.frac \in Int /\ ClockOf(d) \in Int
         /\ ClockOf(d) = Unit * d.int + Sub * d.frac + d.rem
         /\ d.int \in Nat /\ d.frac \in Nat /\ d.rem \in Nat => ClockOf(d) \in Nat
<1>1. PICK i \in Int, f \in Int, r \in Int : d.int = i /\ d.frac = f /\ d.rem = r
  OBVIOUS
<1>2. ClockOf(d) = (i * Radix + f) * Sub + r
  BY <1>1 DEF ClockOf
<1>3. /\ (i * Radix + f) * Sub = (Sub * Radix) * i + Sub * f
      /\ Unit * i \in Int /\ Sub * f \in Int
  BY Widths
<1>4. i \in Nat /\ f \in Nat => Unit * i \in Nat /\ Sub * f \in Nat
  BY Widths, ProductLess
<1> QED
  BY <1>1, <1>2, <1>3, <1>4, Widths

-----------------------------------------------------------------------------
(* The dividers that are found for a clock, and the clock they hold.       *)

LEMMA CutHolds ==
  ASSUME NEW c \in Nat
  PROVE  /\ CutDividers(c) \in [int : Nat, frac : 0 .. Radix - 1, rem : {0}]
         /\ ClockOf(CutDividers(c)) <= c /\ c < ClockOf(CutDividers(c)) + Sub
         /\ c < (IntMax + 1) * Unit => CutDividers(c).int <= IntMax
<1>0. c \in Int /\ Unit \in Nat \ {0} /\ Sub \in Nat \ {0}
  BY Widths
<1>1. PICK i \in Int, r \in 0 .. Unit - 1 :
        c \div Unit = i /\ c % Unit = r /\ c = Unit * i + r /\ (c \in Nat => i \in Nat)
  BY <1>0, Division, Zenon
<1>a. i \in Nat /\ r \in Nat /\ r \in Int /\ r < Unit
  BY <1>0, <1>1
<1>2. PICK f \in Int, s \in 0 .. Sub - 1 :
        r \div Sub = f /\ r % Sub = s /\ r = Sub * f + s /\ (r \in Nat => f \in Nat)
  BY <1>0, <1>a, Division, Zenon
<1> DEFINE d == CutDividers(c)
<1>3. d = [int |-> i, frac |-> f, rem |-> 0]
  BY <1>1, <1>2 DEF CutDividers
<1>b. f \in Nat
  BY <1>a, <1>2
<1> HIDE DEF d
<1>4. f < Radix
  <2>1. Sub * f \in Int /\ Sub * f < Sub * Radix
    BY <1>a, <1>b, <1>1, <1>2, Widths
  <2> QED
    BY <1>2, <2>1, Widths, ProductLess
<1>5. /\ ClockOf(d) = Unit * i + Sub * f
      /\ Unit * i \in Int /\ Sub * f \in Int /\ ClockOf(d) \in Int
  <2>1. d \in [int : Int, frac : Int, rem : Int] /\ d.int = i /\ d.frac = f /\ d.rem = 0
    BY <1>3
  <2> QED
    BY <2>1, ClockIs
<1>6. ClockOf(d) <= c /\ c < ClockOf(d) + Sub
  BY <1>a, <1>b, <1>1, <1>2, <1>5, Widths
<1>7. c < (IntMax + 1) * Unit => i <= IntMax
  <2>1. SUFFICES ASSUME c < (IntMax + 1) * Unit PROVE i < IntMax + 1
    BY <1>a, <1>1, Widths
  <2>2. (IntMax + 1) * Unit = Unit * (IntMax + 1) /\ Unit * (IntMax + 1) \in Int
    BY Widths
  <2>3. Unit * i < Unit * (IntMax + 1)
    BY <1>a, <1>1, <1>5, <2>1, <2>2
  <2> QED
    BY <1>a, <1>1, <2>3, Widths, ProductLess
<1>8. d \in [int : Nat, frac : 0 .. Radix - 1, rem : {0}] /\ d.int = i
  BY <1>a, <1>b, <1>1, <1>2, <1>3, <1>4, Widths
<1> QED
  BY <1>6, <1>7, <1>8 DEF d

\* Dekel: within its bits for every clock, and as near as its bits allow.
LEMMA DklHolds ==
  ASSUME NEW c \in Nat
  PROVE  /\ DklDividers(c) \in [int : 0 .. IntMax, frac : 0 .. Radix - 1, rem : {0}]
         /\ c < (IntMax + 1) * Unit =>
              /\ ClockOf(DklDividers(c)) - Sub < c
              /\ c < ClockOf(DklDividers(c)) + Sub
<1> DEFINE q == c \div Unit
           i == Least(q, IntMax)
           r == c - i * Unit
           g == RoundDiv(r, Sub)
           f == Least(g, Radix - 1)
           d == DklDividers(c)
<1> HIDE DEF q, i, r, g, f, d
<1>0. PICK q0 \in Int, s \in 0 .. Unit - 1 :
        c \div Unit = q0 /\ c % Unit = s /\ c = Unit * q0 + s /\ (c \in Nat => q0 \in Nat)
  <2>1. c \in Int /\ Unit \in Nat \ {0}
    BY Widths
  <2> QED
    BY <2>1, Division, Zenon
<1>1. q \in Nat /\ s \in Nat /\ s < Unit /\ c = Unit * q + s
  <2>1. q = q0
    BY <1>0, Zenon DEF q
  <2> QED
    BY <1>0, <2>1, Widths
<1>2. i \in 0 .. IntMax /\ i <= q /\ (q <= IntMax => i = q)
  BY <1>1, Widths DEF i, Least
<1>3. d = [int |-> i, frac |-> f, rem |-> 0]
  BY DEF DklDividers, q, i, r, g, f, d
<1>4. /\ i \in Nat /\ i * Unit = Unit * i /\ Unit * i \in Nat /\ Unit * q \in Nat
      /\ Unit * i <= Unit * q
  <2>1. i \in Nat /\ q \in Nat /\ i * Unit = Unit * i /\ Unit * i \in Nat /\ Unit * q \in Nat
    BY <1>1, <1>2, Widths, ProductLess
  <2>2. i < q => Unit * i + Unit <= Unit * q
    BY <1>1, <1>2, Widths, ProductLess
  <2> QED
    BY <1>2, <2>1, <2>2, Widths
<1>5. r \in Nat
  BY <1>1, <1>4, Widths DEF r
<1>6. /\ g \in Nat
      /\ 2 * r - Sub <= 2 * (Sub * g) /\ 2 * (Sub * g) <= 2 * r + Sub
  BY <1>5, Widths, Rounding DEF g
<1>7. f \in 0 .. Radix - 1 /\ f <= g /\ (g <= Radix - 1 => f = g) /\ (g > Radix - 1 => f = Radix - 1)
  BY <1>6, Widths DEF f, Least
<1>8. ASSUME c < (IntMax + 1) * Unit
      PROVE  ClockOf(d) - Sub < c /\ c < ClockOf(d) + Sub
  <2>1. q <= IntMax
    <3>1. (IntMax + 1) * Unit = Unit * (IntMax + 1) /\ Unit * (IntMax + 1) \in Int
      BY Widths
    <3>2. Unit * q < Unit * (IntMax + 1)
      BY <1>1, <1>4, <1>8, <3>1, Widths
    <3>3. q < IntMax + 1
      BY <1>1, <3>2, Widths, ProductLess
    <3> QED
      BY <1>1, <3>3, Widths
  <2>2. i = q
    BY <1>2, <2>1
  <2>3. r < Unit /\ c = Unit * i + r
    BY <1>1, <1>4, <2>2, Widths DEF r
  <2>4. ClockOf(d) = Unit * i + Sub * f /\ Sub * f \in Int /\ ClockOf(d) \in Int
    <3>1. d \in [int : Int, frac : Int, rem : Int] /\ d.int = i /\ d.frac = f /\ d.rem = 0
      BY <1>2, <1>3, <1>7, Widths
    <3> QED
      BY <3>1, ClockIs
  <2>5. Sub * g \in Int
    BY <1>6, Widths
  <2>6. CASE g <= Radix - 1
    <3>1. f = g
      BY <1>7, <2>6
    <3>2. r - Sub < Sub * g /\ Sub * g < r + Sub
      BY <1>5, <1>6, <2>5, Widths
    <3> QED
      BY <1>4, <1>5, <2>3, <2>4, <3>1, <3>2, Widths
  <2>7. CASE g > Radix - 1
    <3>1. f = Radix - 1 /\ f \in Int /\ Sub * (Radix - 1) = Sub * Radix - Sub /\ Sub * Radix \in Int
      BY <1>7, <2>7, Widths
    <3>2. Sub * Radix <= Sub * g
      <4>1. Radix < g => Sub * Radix + Sub <= Sub * g
        BY <1>6, Widths, ProductLess
      <4>2. g = Radix \/ Radix < g
        BY <1>6, <2>7, Widths
      <4> QED
        BY <2>5, <3>1, <4>1, <4>2, Widths
    <3>3. Sub * f = Unit - Sub
      BY <3>1, Widths
    <3>4. 2 * r + Sub >= 2 * Unit
      BY <1>5, <1>6, <2>5, <3>1, <3>2, Widths
    <3> QED
      BY <1>4, <1>5, <2>3, <2>4, <3>3, <3>4, Widths
  <2> QED
    BY <1>6, <2>6, <2>7, Widths
<1>9. d \in [int : 0 .. IntMax, frac : 0 .. Radix - 1, rem : {0}]
  BY <1>2, <1>3, <1>7
<1> QED
  BY <1>8, <1>9 DEF d

LEMMA SmallRemainder ==
  ASSUME NEW a \in Int, NEW b \in Nat \ {0}, a \in 0 .. b - 1
  PROVE  a % b = a
  OBVIOUS

\* C10: what is left of the clock is less than a unit of the quotient.
LEMMA C10Holds ==
  ASSUME NEW c \in Nat, NEW old \in [int : Nat, frac : Int, rem : Nat]
  PROVE  /\ C10Dividers(old, c) \in [int : Nat, frac : 0 .. Radix - 1, rem : Nat]
         /\ C10Dividers(old, c).int = old.int /\ C10Dividers(old, c).rem = old.rem
         /\ C10Quotient(old, c) \in 0 .. Radix - 1 =>
              /\ ClockOf(C10Dividers(old, c)) <= c
              /\ c < ClockOf(C10Dividers(old, c)) + Sub
<1> DEFINE d == C10Dividers(old, c)
           q == C10Quotient(old, c)
<1>1. PICK i \in Nat, r \in Nat : old.int = i /\ old.rem = r
  OBVIOUS
<1>2. PICK k \in Int, s \in 0 .. Sub - 1 :
        (c - r) \div Sub = k /\ (c - r) % Sub = s /\ c - r = Sub * k + s
                             /\ (c - r \in Nat => k \in Nat)
  <2>1. c - r \in Int /\ Sub \in Nat \ {0}
    BY Widths
  <2> QED
    BY <2>1, Division, Zenon
<1>3. q = k - i * Radix /\ q \in Int
  <2>1. q = k - i * Radix
    BY <1>1, <1>2, Zenon DEF C10Quotient
  <2> HIDE DEF q
  <2> QED
    BY <2>1, Widths
<1>4. /\ d = [old EXCEPT !.frac = q % Radix]
      /\ d.int = i /\ d.rem = r /\ d.frac = q % Radix
  BY <1>1 DEF C10Dividers
<1> HIDE DEF q, d
<1>5. q % Radix \in 0 .. Radix - 1
  BY <1>3, Widths
<1>6. d \in [int : Nat, frac : 0 .. Radix - 1, rem : Nat]
  BY <1>4, <1>5
<1>7. ASSUME q \in 0 .. Radix - 1 PROVE ClockOf(d) <= c /\ c < ClockOf(d) + Sub
  <2>1. d.frac = q
    BY <1>3, <1>4, <1>7, SmallRemainder, Widths
  <2>2. d \in [int : Int, frac : Int, rem : Int]
    BY <1>6, Widths
  <2>3. ClockOf(d) = Unit * i + Sub * q + r /\ Unit * i \in Int /\ Sub * q \in Int
    BY <1>4, <2>1, <2>2, ClockIs
  <2>4. Sub * q = Sub * k - Unit * i
    <3>1. Sub * (k - i * Radix) = Sub * k - (Sub * Radix) * i
      BY Widths
    <3> QED
      BY <1>3, <3>1, Widths
  <2>5. Sub * k \in Int
    BY Widths
  <2>6. ClockOf(d) = Sub * k + r
    BY <2>3, <2>4, <2>5
  <2> QED
    BY <1>2, <2>5, <2>6, Widths
<1> QED
  BY <1>1, <1>4, <1>6, <1>7 DEF q, d

\* C20: at most half a unit, and a whole one where the remainder is negative.
LEMMA C20Holds ==
  ASSUME NEW c \in Nat, NEW old \in [int : Nat, frac : Int, rem : Nat]
  PROVE  /\ C20Dividers(old, c) \in [int : Nat, frac : 0 .. 2 * Radix - 1, rem : 0 .. Sub]
         /\ C20Dividers(old, c).int = old.int
         /\ C20Quotient(old, c) \in 0 .. 2 * Radix - 1 =>
              /\ ClockOf(C20Dividers(old, c)) - 2 * Sub < c
              /\ c <= ClockOf(C20Dividers(old, c))
<1> DEFINE d == C20Dividers(old, c)
           q == C20Quotient(old, c)
           left == c - old.int * Unit - C20Quotient(old, c) * Sub
           rest == IF left < 0 THEN Sub ELSE left
<1>1. PICK i \in Nat : old.int = i
  OBVIOUS
<1>2. i * Unit = Unit * i /\ Unit * i \in Int
  BY Widths
<1>3. /\ q \in Int
      /\ 2 * (c - i * Unit) - Sub <= 2 * (Sub * q) /\ 2 * (Sub * q) <= 2 * (c - i * Unit) + Sub
  <2>1. q = RoundDiv(c - i * Unit, Sub)
    BY <1>1 DEF C20Quotient
  <2>2. c - i * Unit \in Int
    BY <1>2, Widths
  <2> HIDE DEF q
  <2> QED
    BY <2>1, <2>2, Rounding, Widths
<1>4. /\ d = [old EXCEPT !.frac = q % (2 * Radix), !.rem = rest]
      /\ d.int = i /\ d.rem = rest /\ d.frac = q % (2 * Radix)
  BY <1>1 DEF C20Dividers
<1>5. left = c - Unit * i - Sub * q /\ left \in Int
  <2> HIDE DEF q
  <2>1. Sub * q \in Int /\ q * Sub = Sub * q
    BY <1>3, Widths
  <2>2. left = c - i * Unit - q * Sub
    BY <1>1 DEF q
  <2> HIDE DEF left
  <2> QED
    BY <1>2, <2>1, <2>2
<1> HIDE DEF left, q, d
<1>6. Sub * q \in Int
  BY <1>3, Widths
<1>7. left <= Sub /\ -Sub < left
  BY <1>2, <1>3, <1>5, <1>6, Widths
<1>8. rest \in 0 .. Sub
  BY <1>5, <1>7, Widths
<1>9. q % (2 * Radix) \in 0 .. 2 * Radix - 1
  <2>1. 2 * Radix \in Nat \ {0}
    BY Widths
  <2> QED
    BY <1>3, <2>1
<1>10. d \in [int : Nat, frac : 0 .. 2 * Radix - 1, rem : 0 .. Sub]
  <2> HIDE DEF rest
  <2> QED
    BY <1>4, <1>8, <1>9
<1>11. ASSUME q \in 0 .. 2 * Radix - 1 PROVE ClockOf(d) - 2 * Sub < c /\ c <= ClockOf(d)
  <2>1. d.frac = q
    <3>1. 2 * Radix \in Nat \ {0}
      BY Widths
    <3>2. q % (2 * Radix) = q
      BY <1>3, <1>11, <3>1, SmallRemainder
    <3> QED
      BY <1>4, <3>2
  <2>2. d \in [int : Int, frac : Int, rem : Int]
    BY <1>10, Widths
  <2>3. ClockOf(d) = Unit * i + Sub * q + rest
    <3> HIDE DEF rest
    <3> QED
      BY <1>4, <2>1, <2>2, ClockIs
  <2>4. CASE left < 0
    <3>1. rest = Sub
      BY <2>4
    <3> HIDE DEF rest
    <3>2. ClockOf(d) = c - left + Sub
      BY <1>2, <1>5, <1>6, <2>3, <3>1, Widths
    <3> QED
      BY <1>5, <1>7, <2>4, <3>2, Widths
  <2>5. CASE ~(left < 0)
    <3>1. rest = left
      BY <2>5
    <3> HIDE DEF rest
    <3>2. ClockOf(d) = c
      BY <1>2, <1>5, <1>6, <2>3, <3>1
    <3> QED
      BY <3>2, Widths
  <2> QED
    BY <2>4, <2>5
<1> QED
  BY <1>1, <1>4, <1>10, <1>11 DEF q, d

-----------------------------------------------------------------------------
(* The inductive invariant.                                                *)

Widest == [int : Nat, frac : Nat, rem : 0 .. Sub]

TypesOK ==
  /\ kind \in [Phys -> Kinds]
  /\ boot \in [Phys -> Boot] /\ disturbed \subseteq Phys
  /\ bank \in [Phys -> Widest] /\ orig \in [Phys -> Widest] /\ mod \in [Phys -> Widest]
  /\ index \in [Indexes -> Phys \cup {NoPhy}]
  /\ clock \in [Phys -> Nat] /\ target \in [Phys -> Nat]
  /\ op \in [Phys -> Places]
  /\ at \in [Phys -> {"begin", "select", "again", "bias", "div0"}]
  /\ div0 \in [Phys -> Nat]

\* The fraction stays within its bits, and only C10 and C20 have a remainder.
FractionOK(p) ==
  \A d \in {bank[p], orig[p], mod[p]} :
    d.frac <= FracTop(p) /\ (kind[p] \notin {"c10", "c20"} => d.rem = 0)

\* A thread is where its operation leads, and its aperture shows its PLL.
PlaceOK(p) ==
  /\ kind[p] # "dkl" => at[p] = "begin"
  /\ at[p] = "again" => ~Writing(p)
  /\ at[p] = "div0" => Writing(p)
  /\ at[p] \in {"again", "bias", "div0"} => Shows(p)
  /\ at[p] = "bias" /\ ~Writing(p) => div0[p] = bank[p].int

\* The modified values are those of the target.
Accurate(p) ==
  Reachable(p) =>
    /\ ClockOf(mod[p]) - Precision(p) < target[p]
    /\ target[p] < ClockOf(mod[p]) + Precision(p)

\* What has been saved, found and written so far.
DoneOK(p) ==
  /\ op[p] \in 1 .. 3 => bank[p] = boot[p]
  /\ op[p] \in 2 .. 7 => orig[p] = boot[p]
  /\ op[p] \in 3 .. 7 => clock[p] = ClockOf(boot[p])
  /\ op[p] \in {4, 5} => Accurate(p)
  /\ op[p] = 5 => bank[p] = mod[p]
  /\ op[p] \in {4, 6} /\ at[p] = "bias" => bank[p].int = mod[p].int
  /\ op[p] = 7 /\ at[p] = "bias" => bank[p].int = orig[p].int

RegisterInv ==
  /\ TypesOK
  /\ \A p \in Phys : FractionOK(p)
  /\ \A p \in Phys \ disturbed : PlaceOK(p) /\ DoneOK(p)

-----------------------------------------------------------------------------
(* Boot values, and the operations of the script.                          *)

LEMMA BootIs ==
  ASSUME NEW d \in Boot
  PROVE  /\ d \in Widest /\ d \in [int : Nat, frac : Int, rem : Nat]
         /\ d.int \in 1 .. IntMax /\ d.frac \in 0 .. Radix - 1 /\ d.rem \in 0 .. Sub - 1
         /\ ClockOf(d) \in Nat
<1>1. d \in [int : 1 .. IntMax, frac : 0 .. Radix - 1, rem : 0 .. Sub - 1]
  BY RegisterAssumption DEF RegisterAssumption
<1>2. d \in [int : Int, frac : Int, rem : Int] /\ d.int \in Nat /\ d.frac \in Nat /\ d.rem \in Nat
  BY <1>1, Widths
<1> QED
  BY <1>1, <1>2, Widths, ClockIs DEF Widest

LEMMA Operations ==
  ASSUME NEW p \in Phys, op[p] \in Places
  PROVE  /\ Op(p) = "read" <=> op[p] = 1
         /\ Op(p) = "clock" <=> op[p] = 2
         /\ Op(p) = "dividers" <=> op[p] \in {3, 5}
         /\ Op(p) = "program" <=> op[p] \in {4, 6}
         /\ Op(p) = "restore" <=> op[p] = 7
         /\ Writing(p) <=> op[p] \in {4, 6, 7}
  BY DEF Op, Script, Places, Writing

LEMMA InitInv == Init => RegisterInv
<1> SUFFICES ASSUME Init PROVE RegisterInv
  OBVIOUS
<1>1. /\ kind \in [Phys -> Kinds] /\ bank \in [Phys -> Boot] /\ boot = bank /\ disturbed = {}
      /\ index \in [Indexes -> Phys \cup {NoPhy}]
      /\ orig = [p \in Phys |-> Zero] /\ mod = orig
      /\ clock = [p \in Phys |-> 0] /\ target = clock
      /\ op = [p \in Phys |-> 1] /\ at = [p \in Phys |-> "begin"] /\ div0 = [p \in Phys |-> 0]
      /\ \A p \in Phys : bank[p].rem # 0 => kind[p] \in {"c10", "c20"}
  BY DEF Init
<1>2. Zero \in Widest /\ Zero.frac = 0 /\ Zero.rem = 0 /\ Boot \subseteq Widest
  BY BootIs, Widths DEF Zero, Widest
<1>3. TypesOK
  BY <1>1, <1>2 DEF TypesOK, Places
<1>4. ASSUME NEW p \in Phys PROVE FractionOK(p) /\ PlaceOK(p) /\ DoneOK(p)
  <2>1. bank[p] \in Boot /\ bank[p].frac \in 0 .. Radix - 1 /\ orig[p] = Zero /\ mod[p] = Zero
        /\ op[p] = 1 /\ at[p] = "begin"
    BY <1>1, BootIs
  <2>2. FracTop(p) \in Nat /\ Radix - 1 <= FracTop(p)
    BY Widths DEF FracTop
  <2>3. FractionOK(p)
    BY <1>1, <1>2, <2>1, <2>2, Widths DEF FractionOK
  <2> QED
    BY <1>1, <2>1, <2>3 DEF PlaceOK, DoneOK
<1> QED
  BY <1>3, <1>4 DEF RegisterInv

-----------------------------------------------------------------------------
(* The steps.                                                              *)

\* What a step of p leaves of another PHY.
Untouched(q) ==
  /\ bank'[q] = bank[q] /\ orig'[q] = orig[q] /\ mod'[q] = mod[q] /\ clock'[q] = clock[q]
  /\ target'[q] = target[q] /\ op'[q] = op[q] /\ at'[q] = at[q] /\ div0'[q] = div0[q]

LEMMA UntouchedInv ==
  ASSUME TypesOK, NEW q \in Phys, Untouched(q), UNCHANGED <<kind, boot>>
  PROVE  /\ FractionOK(q) => FractionOK(q)'
         /\ DoneOK(q) => DoneOK(q)'
         /\ (at[q] \in {"again", "bias", "div0"} => (Shows(q) => Shows(q)')) =>
              (PlaceOK(q) => PlaceOK(q)')
<1>1. FractionOK(q) => FractionOK(q)'
  BY DEF Untouched, FractionOK, FracTop
<1>2. (Writing(q)' <=> Writing(q)) /\ (Op(q)' = Op(q))
  BY DEF Untouched, Writing, Op
<1>3. (Reachable(q)' <=> Reachable(q)) /\ Precision(q)' = Precision(q)
  BY DEF Untouched, Reachable, Precision
<1>4. Accurate(q)' <=> Accurate(q)
  BY <1>3 DEF Untouched, Accurate
<1>5. DoneOK(q) => DoneOK(q)'
  BY <1>4 DEF Untouched, DoneOK
<1>6. (at[q] \in {"again", "bias", "div0"} => (Shows(q) => Shows(q)')) =>
        (PlaceOK(q) => PlaceOK(q)')
  BY <1>2 DEF Untouched, PlaceOK
<1> QED
  BY <1>1, <1>5, <1>6

\* What is left to show of a step that writes no index register.
LEMMA StepInv ==
  ASSUME RegisterInv, NEW p \in Phys, UNCHANGED <<kind, boot, index, disturbed>>,
         TypesOK', \A q \in Phys \ {p} : Untouched(q),
         FractionOK(p)', PlaceOK(p)', DoneOK(p)'
  PROVE  RegisterInv'
<1>1. ASSUME NEW q \in Phys \ {p}
      PROVE  FractionOK(q)' /\ (q \notin disturbed' => PlaceOK(q)' /\ DoneOK(q)')
  <2>1. Shows(q)' <=> Shows(q)
    BY DEF Shows
  <2>2. TypesOK /\ FractionOK(q) /\ (q \notin disturbed => PlaceOK(q) /\ DoneOK(q))
    BY DEF RegisterInv
  <2> QED
    BY <2>1, <2>2, UntouchedInv
<1> QED
  BY <1>1 DEF RegisterInv

\* The steps that change only the registers of one PHY, its place and its operation.
LEMMA CutShortInv ==
  ASSUME RegisterInv, NEW p \in Phys \ disturbed, CutShort(p)
  PROVE  RegisterInv'
<1>1. /\ TypesOK /\ FractionOK(p) /\ PlaceOK(p) /\ DoneOK(p) /\ p \in Phys
      /\ op[p] = 5 /\ at[p] = "begin" /\ op' = [op EXCEPT ![p] = 7]
      /\ UNCHANGED <<kind, bank, index, orig, mod, clock, target, at, div0, boot, disturbed>>
  BY DEF RegisterInv, CutShort, history
<1>2. op'[p] = 7 /\ \A q \in Phys \ {p} : Untouched(q)
  BY <1>1 DEF Untouched, TypesOK
<1>3. TypesOK'
  BY <1>1 DEF TypesOK, Places
<1>4. FractionOK(p)' /\ PlaceOK(p)' /\ DoneOK(p)'
  BY <1>1, <1>2 DEF FractionOK, FracTop, PlaceOK, DoneOK
<1> QED
  BY <1>1, <1>2, <1>3, <1>4, StepInv

\* Dekel looks at its aperture: DIV0 reads 0, or it shows.
LEMMA ProbeInv ==
  ASSUME RegisterInv, NEW p \in Phys \ disturbed, Probe(p)
  PROVE  RegisterInv'
<1>1. /\ TypesOK /\ FractionOK(p) /\ PlaceOK(p) /\ DoneOK(p) /\ p \in Phys
      /\ UNCHANGED <<kind, bank, index, orig, mod, clock, target, op, boot, disturbed>>
      /\ kind[p] = "dkl" /\ at[p] = "begin"
      /\ div0' = [div0 EXCEPT ![p] = Read(p, "int")]
  BY DEF RegisterInv, Probe, history
<1>2. bank[p].int \in Nat /\ Read(p, "int") \in Nat /\ div0'[p] = Read(p, "int")
      /\ (Read(p, "int") # 0 => Shows(p) /\ Read(p, "int") = bank[p].int)
  BY <1>1 DEF TypesOK, Widest, Read
<1>3. PICK place \in {"select", "div0", "bias"} :
        /\ at' = [at EXCEPT ![p] = place]
        /\ place = "div0" => Writing(p)
        /\ place = "bias" => ~Writing(p)
        /\ place # "select" => Read(p, "int") # 0
  BY <1>2 DEF Probe, Goto
<1>4. at'[p] = place
  BY <1>1, <1>3 DEF TypesOK
<1>5. \A q \in Phys \ {p} : Untouched(q)
  BY <1>1, <1>3 DEF Untouched, TypesOK
<1>6. TypesOK'
  BY <1>1, <1>2, <1>3 DEF TypesOK
<1>7. (Writing(p)' <=> Writing(p)) /\ (Shows(p)' <=> Shows(p))
  BY <1>1 DEF Writing, Op, Shows
<1>8. PlaceOK(p)'
  BY <1>1, <1>2, <1>3, <1>4, <1>7 DEF PlaceOK
<1>9. op[p] \in {4, 6, 7} => Writing(p)
  BY <1>1, Operations DEF TypesOK
<1>10. FractionOK(p)' /\ DoneOK(p)'
  <2>1. FractionOK(p)'
    BY <1>1 DEF FractionOK, FracTop
  <2>2. Accurate(p)' <=> Accurate(p)
    BY <1>1 DEF Accurate, Reachable, Precision
  <2> QED
    BY <1>1, <1>3, <1>4, <1>9, <2>1, <2>2 DEF DoneOK
<1> QED
  BY <1>1, <1>5, <1>6, <1>8, <1>10, StepInv

LEMMA RereadInv ==
  ASSUME RegisterInv, NEW p \in Phys \ disturbed, Reread(p)
  PROVE  RegisterInv'
<1>1. /\ TypesOK /\ FractionOK(p) /\ PlaceOK(p) /\ DoneOK(p) /\ p \in Phys
      /\ UNCHANGED <<kind, bank, index, orig, mod, clock, target, op, boot, disturbed>>
      /\ at[p] = "again" /\ at' = [at EXCEPT ![p] = "bias"]
      /\ div0' = [div0 EXCEPT ![p] = Read(p, "int")]
  BY DEF RegisterInv, Reread, history, Goto
<1>2. /\ bank[p].int \in Nat /\ Shows(p) /\ Read(p, "int") = bank[p].int
      /\ div0'[p] = bank[p].int /\ at'[p] = "bias" /\ ~Writing(p) /\ kind[p] = "dkl"
  BY <1>1 DEF TypesOK, Widest, Read, PlaceOK
<1>3. \A q \in Phys \ {p} : Untouched(q)
  BY <1>1 DEF Untouched, TypesOK
<1>4. TypesOK'
  BY <1>1, <1>2 DEF TypesOK
<1>5. (Writing(p)' <=> Writing(p)) /\ (Shows(p)' <=> Shows(p))
  BY <1>1 DEF Writing, Op, Shows
<1>6. PlaceOK(p)'
  BY <1>1, <1>2, <1>5 DEF PlaceOK
<1>7. op[p] \notin {4, 6, 7}
  BY <1>1, <1>2, Operations DEF TypesOK
<1>8. FractionOK(p)' /\ DoneOK(p)'
  <2>1. FractionOK(p)'
    BY <1>1 DEF FractionOK, FracTop
  <2>2. Accurate(p)' <=> Accurate(p)
    BY <1>1 DEF Accurate, Reachable, Precision
  <2> QED
    BY <1>1, <1>2, <1>7, <2>1, <2>2 DEF DoneOK
<1> QED
  BY <1>1, <1>3, <1>4, <1>6, <1>8, StepInv

\* The index register is written: whoever had seen its aperture is disturbed.
LEMMA SelectInv ==
  ASSUME RegisterInv, NEW p \in Phys \ disturbed, Select(p)
  PROVE  RegisterInv'
<1>1. /\ TypesOK /\ FractionOK(p) /\ PlaceOK(p) /\ DoneOK(p) /\ p \in Phys
      /\ UNCHANGED <<kind, bank, orig, mod, clock, target, op, div0, boot>>
      /\ at[p] = "select" /\ kind[p] = "dkl"
      /\ index' = [index EXCEPT ![IndexOf[p]] = p]
      /\ disturbed' = disturbed \cup Robbed(p)
  BY DEF RegisterInv, Select, PlaceOK
<1>2. PICK place \in {"div0", "again"} :
        at' = [at EXCEPT ![p] = place] /\ (place = "div0" <=> Writing(p))
  BY DEF Select, Goto
<1>3. IndexOf[p] \in Indexes /\ \A q \in Phys : IndexOf[q] \in Indexes
  BY <1>1 DEF Indexes
<1>4. index'[IndexOf[p]] = p /\ \A x \in Indexes \ {IndexOf[p]} : index'[x] = index[x]
  BY <1>1, <1>3 DEF TypesOK
<1>5. at'[p] = place /\ Shows(p)'
  BY <1>1, <1>2, <1>4 DEF TypesOK, Shows
<1>6. TypesOK'
  <2>1. index' \in [Indexes -> Phys \cup {NoPhy}]
    BY <1>1 DEF TypesOK
  <2>2. disturbed' \subseteq Phys
    BY <1>1 DEF TypesOK, Robbed
  <2>3. at' \in [Phys -> {"begin", "select", "again", "bias", "div0"}]
    BY <1>1, <1>2 DEF TypesOK
  <2> QED
    BY <1>1, <2>1, <2>2, <2>3 DEF TypesOK
<1>7. (Writing(p)' <=> Writing(p)) /\ (Accurate(p)' <=> Accurate(p))
  BY <1>1 DEF Writing, Op, Accurate, Reachable, Precision
<1>8. FractionOK(p)' /\ PlaceOK(p)' /\ DoneOK(p)'
  <2>1. FractionOK(p)'
    BY <1>1 DEF FractionOK, FracTop
  <2>2. PlaceOK(p)'
    BY <1>1, <1>2, <1>5, <1>7 DEF PlaceOK
  <2>3. DoneOK(p)'
    BY <1>1, <1>2, <1>5, <1>7 DEF DoneOK
  <2> QED
    BY <2>1, <2>2, <2>3
<1>9. ASSUME NEW q \in Phys \ {p}
      PROVE  FractionOK(q)' /\ (q \notin disturbed' => PlaceOK(q)' /\ DoneOK(q)')
  <2>1. Untouched(q) /\ UNCHANGED <<kind, boot>>
    BY <1>1, <1>2 DEF Untouched, TypesOK
  <2>2. FractionOK(q) /\ (q \notin disturbed => PlaceOK(q) /\ DoneOK(q))
    BY DEF RegisterInv
  <2>3. q \notin disturbed' /\ at[q] \in {"again", "bias", "div0"} => (Shows(q) => Shows(q)')
    <3>1. ASSUME q \notin disturbed', at[q] \in {"again", "bias", "div0"}
          PROVE  IndexOf[q] # IndexOf[p]
      BY <1>1, <3>1 DEF Robbed
    <3> QED
      BY <1>1, <1>3, <1>4, <3>1 DEF Shows
  <2>4. disturbed \subseteq disturbed'
    BY <1>1
  <2> QED
    BY <1>1, <2>1, <2>2, <2>3, <2>4, UntouchedInv
<1> QED
  BY <1>6, <1>8, <1>9 DEF RegisterInv

\* The values an operation writes.
LEMMA ValuesAre ==
  ASSUME RegisterInv, NEW p \in Phys, Writing(p)
  PROVE  /\ Values(p) = IF op[p] = 7 THEN orig[p] ELSE mod[p]
         /\ op[p] \in {4, 6, 7}
         /\ Values(p) \in Widest /\ Values(p).frac <= FracTop(p)
         /\ kind[p] \notin {"c10", "c20"} => Values(p).rem = 0
<1>1. TypesOK /\ FractionOK(p)
  BY DEF RegisterInv
<1>2. op[p] \in {4, 6, 7} /\ (Op(p) = "restore" <=> op[p] = 7)
  BY <1>1, Operations DEF TypesOK
<1>3. Values(p) = IF op[p] = 7 THEN orig[p] ELSE mod[p]
  BY <1>2 DEF Values
<1>4. orig[p] \in Widest /\ mod[p] \in Widest
  BY <1>1 DEF TypesOK
<1> QED
  BY <1>1, <1>2, <1>3, <1>4 DEF FractionOK

LEMMA WriteDiv0Inv ==
  ASSUME RegisterInv, NEW p \in Phys \ disturbed, WriteDiv0(p)
  PROVE  RegisterInv'
<1>1. /\ TypesOK /\ FractionOK(p) /\ PlaceOK(p) /\ DoneOK(p) /\ p \in Phys
      /\ UNCHANGED <<kind, index, orig, mod, clock, target, op, div0, boot, disturbed>>
      /\ at[p] = "div0" /\ at' = [at EXCEPT ![p] = "bias"] /\ Writing(p) /\ Shows(p)
      /\ bank' = [bank EXCEPT ![p]["int"] = Values(p).int]
  BY DEF RegisterInv, WriteDiv0, history, Goto, PlaceOK, Written
<1>2. /\ Values(p) = IF op[p] = 7 THEN orig[p] ELSE mod[p]
      /\ op[p] \in {4, 6, 7} /\ Values(p).int \in Nat
  BY <1>1, ValuesAre DEF Widest
<1>3. /\ bank'[p].int = Values(p).int /\ bank'[p].frac = bank[p].frac
      /\ bank'[p].rem = bank[p].rem /\ at'[p] = "bias"
      /\ bank' \in [Phys -> Widest]
  BY <1>1, <1>2 DEF TypesOK, Widest
<1>4. \A q \in Phys \ {p} : Untouched(q)
  BY <1>1 DEF Untouched, TypesOK
<1>5. TypesOK'
  BY <1>1, <1>3 DEF TypesOK
<1>6. (Writing(p)' <=> Writing(p)) /\ (Shows(p)' <=> Shows(p)) /\ (Accurate(p)' <=> Accurate(p))
  BY <1>1 DEF Writing, Op, Shows, Accurate, Reachable, Precision
<1>7. FractionOK(p)' /\ PlaceOK(p)' /\ DoneOK(p)'
  <2>1. FractionOK(p)'
    BY <1>1, <1>3 DEF FractionOK, FracTop
  <2>2. PlaceOK(p)'
    BY <1>1, <1>3, <1>6 DEF PlaceOK
  <2>3. DoneOK(p)'
    BY <1>1, <1>2, <1>3, <1>6 DEF DoneOK
  <2> QED
    BY <2>1, <2>2, <2>3
<1> QED
  BY <1>1, <1>4, <1>5, <1>7, StepInv

\* The last write of an operation: all the values have arrived.
LEMMA ArrivedInv ==
  ASSUME RegisterInv, NEW p \in Phys \ disturbed, Writing(p), Advance(p),
         bank' = [bank EXCEPT ![p] = Values(p)],
         UNCHANGED <<kind, index, orig, mod, clock, target, div0, boot, disturbed>>
  PROVE  RegisterInv'
<1>1. TypesOK /\ FractionOK(p) /\ PlaceOK(p) /\ DoneOK(p) /\ p \in Phys
  BY DEF RegisterInv
<1>2. /\ Values(p) = IF op[p] = 7 THEN orig[p] ELSE mod[p]
      /\ op[p] \in {4, 6, 7} /\ Values(p) \in Widest
      /\ Values(p).frac <= FracTop(p)
      /\ kind[p] \notin {"c10", "c20"} => Values(p).rem = 0
  BY ValuesAre
<1>3. /\ bank'[p] = Values(p) /\ bank' \in [Phys -> Widest]
      /\ at'[p] = "begin" /\ op'[p] = IF op[p] = 7 THEN 1 ELSE op[p] + 1
      /\ at' = [at EXCEPT ![p] = "begin"]
      /\ op' = [op EXCEPT ![p] = IF op[p] = 7 THEN 1 ELSE op[p] + 1]
  BY <1>1, <1>2 DEF TypesOK, Advance, Goto
<1>4. \A q \in Phys \ {p} : Untouched(q)
  BY <1>1, <1>3 DEF Untouched, TypesOK
<1>5. TypesOK'
  BY <1>1, <1>2, <1>3 DEF TypesOK, Places
<1>6. Accurate(p)' <=> Accurate(p)
  BY DEF Accurate, Reachable, Precision
<1>7. FractionOK(p)' /\ PlaceOK(p)' /\ DoneOK(p)'
  <2>1. FractionOK(p)'
    BY <1>1, <1>2, <1>3 DEF FractionOK, FracTop
  <2>2. PlaceOK(p)'
    BY <1>1, <1>3 DEF PlaceOK
  <2>3. ASSUME op[p] = 4 PROVE DoneOK(p)'
    BY <1>1, <1>2, <1>3, <1>6, <2>3 DEF DoneOK
  <2>4. ASSUME op[p] = 6 PROVE DoneOK(p)'
    BY <1>1, <1>2, <1>3, <1>6, <2>4 DEF DoneOK
  <2>5. ASSUME op[p] = 7 PROVE DoneOK(p)'
    BY <1>1, <1>2, <1>3, <1>6, <2>5 DEF DoneOK
  <2> QED
    BY <1>2, <2>1, <2>2, <2>3, <2>4, <2>5
<1> QED
  BY <1>1, <1>4, <1>5, <1>7, StepInv

\* The fraction is the last a Dekel PHY writes: its integer has been written before.
LEMMA WriteBiasArrives ==
  ASSUME RegisterInv, NEW p \in Phys \ disturbed, WriteBias(p)
  PROVE  /\ Writing(p) /\ Advance(p)
         /\ bank' = [bank EXCEPT ![p] = Values(p)]
         /\ UNCHANGED <<kind, index, orig, mod, clock, target, div0, boot, disturbed>>
<1>1. /\ TypesOK /\ FractionOK(p) /\ PlaceOK(p) /\ DoneOK(p) /\ p \in Phys
      /\ UNCHANGED <<kind, index, orig, mod, clock, target, div0, boot, disturbed>>
      /\ at[p] = "bias" /\ Writing(p) /\ Shows(p) /\ Advance(p)
      /\ bank' = [bank EXCEPT ![p]["frac"] = Values(p).frac]
      /\ kind[p] = "dkl"
  BY DEF RegisterInv, WriteBias, history, PlaceOK, Written
<1>2. /\ Values(p) = IF op[p] = 7 THEN orig[p] ELSE mod[p]
      /\ op[p] \in {4, 6, 7} /\ Values(p) \in Widest /\ Values(p).rem = 0
  BY <1>1, ValuesAre
<1>3. bank[p] \in Widest /\ bank[p].int = Values(p).int /\ bank[p].rem = Values(p).rem
  BY <1>1, <1>2 DEF TypesOK, DoneOK, FractionOK
<1>4. [bank[p] EXCEPT !["frac"] = Values(p).frac] = Values(p)
  BY <1>2, <1>3 DEF Widest
<1>5. bank' = [bank EXCEPT ![p] = [bank[p] EXCEPT !["frac"] = Values(p).frac]]
  BY <1>1
<1> QED
  BY <1>1, <1>4, <1>5

-----------------------------------------------------------------------------
(* The operations that do not write.                                       *)

\* The divider values that are found are those of the target, and within their bits.
LEMMA NewDividersHold ==
  ASSUME TypesOK, NEW p \in Phys, NEW c \in Nat, NEW n \in NewDividers(p, c),
         orig[p] \in Boot
  PROVE  /\ n \in Widest /\ n.frac <= FracTop(p)
         /\ kind[p] \notin {"c10", "c20"} => n.rem = 0
         /\ kind[p] = "dkl" => div0[p] # 0 \/ n.int = IntMax
         /\ kind[p] \in {"dkl", "c10", "c20"} => n.int <= IntMax
         /\ c < (IntMax + 1) * Unit => n.int <= IntMax
<1>0. /\ kind[p] \in {"combo", "dkl", "mn", "c10", "c20"} /\ div0[p] \in Nat
      /\ orig[p] \in [int : Nat, frac : Int, rem : Nat] /\ orig[p].int <= IntMax
      /\ orig[p].rem \in 0 .. Sub
  <2>1. kind[p] \in {"combo", "dkl", "mn", "c10", "c20"}
    BY RegisterAssumption DEF TypesOK, RegisterAssumption
  <2>2. div0[p] \in Nat
    BY DEF TypesOK
  <2>3. /\ orig[p] \in [int : Nat, frac : Int, rem : Nat] /\ orig[p].int <= IntMax
        /\ orig[p].rem \in 0 .. Sub
    BY BootIs, Widths
  <2> QED
    BY <2>1, <2>2, <2>3
<1>1. CASE kind[p] \in {"combo", "mn"}
  <2>1. n = CutDividers(c) /\ FracTop(p) = Radix - 1
    BY <1>1 DEF NewDividers, FracTop
  <2> QED
    BY <1>1, <2>1, CutHolds, Widths DEF Widest
<1>2. CASE kind[p] = "c10"
  <2>1. n = C10Dividers(orig[p], c) /\ FracTop(p) = Radix - 1
    BY <1>2 DEF NewDividers, FracTop
  <2> QED
    BY <1>0, <1>2, <2>1, C10Holds, Widths DEF Widest
<1>3. CASE kind[p] = "c20"
  <2>1. n = C20Dividers(orig[p], c) /\ FracTop(p) = 2 * Radix - 1
    BY <1>3 DEF NewDividers, FracTop
  <2> QED
    BY <1>0, <1>3, <2>1, C20Holds, Widths DEF Widest
<1>4. CASE kind[p] = "dkl" /\ div0[p] # 0
  <2>1. n = DklDividers(c) /\ FracTop(p) = Radix - 1
    BY <1>4 DEF NewDividers, FracTop
  <2> QED
    BY <1>4, <2>1, DklHolds, Widths DEF Widest
<1>5. CASE kind[p] = "dkl" /\ div0[p] = 0
  <2>1. PICK f \in 0 .. Radix - 1 : n = [int |-> IntMax, frac |-> f, rem |-> 0]
    BY <1>5 DEF NewDividers
  <2>2. FracTop(p) = Radix - 1
    BY <1>5 DEF FracTop
  <2> QED
    BY <1>5, <2>1, <2>2, Widths DEF Widest
<1> QED
  BY <1>0, <1>1, <1>2, <1>3, <1>4, <1>5

\* Found with a DIV0 other than 0, they hold the target to the precision there is.
LEMMA NewDividersAccurate ==
  ASSUME TypesOK, NEW p \in Phys, NEW c \in Nat, NEW n \in NewDividers(p, c),
         orig[p] \in Boot, kind[p] = "dkl" => div0[p] # 0,
         UNCHANGED <<kind, orig>>, mod'[p] = n, target'[p] = c
  PROVE  Accurate(p)'
<1>0. /\ kind[p] \in {"combo", "dkl", "mn", "c10", "c20"}
      /\ orig[p] \in [int : Nat, frac : Int, rem : Nat]
  <2>1. kind[p] \in {"combo", "dkl", "mn", "c10", "c20"}
    BY RegisterAssumption DEF TypesOK, RegisterAssumption
  <2> QED
    BY <2>1, BootIs
<1>1. n \in Widest
  BY NewDividersHold
<1>2. ClockOf(n) \in Int
  <2>1. n \in [int : Int, frac : Int, rem : Int]
    BY <1>1, Widths DEF Widest
  <2> QED
    BY <2>1, ClockIs
<1>3. SUFFICES ASSUME Reachable(p)'
               PROVE  ClockOf(n) - Precision(p)' < c /\ c < ClockOf(n) + Precision(p)'
  BY DEF Accurate
<1>4. CASE kind[p] \in {"combo", "mn"}
  <2>1. n = CutDividers(c) /\ Precision(p)' = Sub
    BY <1>4 DEF NewDividers, Precision
  <2>2. ClockOf(n) <= c /\ c < ClockOf(n) + Sub
    BY <2>1, CutHolds
  <2> QED
    BY <1>2, <2>1, <2>2, Widths
<1>5. CASE kind[p] = "c10"
  <2>1. n = C10Dividers(orig[p], c) /\ Precision(p)' = Sub
        /\ C10Quotient(orig[p], c) \in 0 .. Radix - 1
    BY <1>3, <1>5 DEF NewDividers, Precision, Reachable
  <2>2. ClockOf(n) <= c /\ c < ClockOf(n) + Sub
    BY <1>0, <2>1, C10Holds
  <2> QED
    BY <1>2, <2>1, <2>2, Widths
<1>6. CASE kind[p] = "c20"
  <2>1. n = C20Dividers(orig[p], c) /\ Precision(p)' = 2 * Sub
        /\ C20Quotient(orig[p], c) \in 0 .. 2 * Radix - 1
    BY <1>3, <1>6 DEF NewDividers, Precision, Reachable
  <2>2. ClockOf(n) - 2 * Sub < c /\ c <= ClockOf(n)
    BY <1>0, <2>1, C20Holds
  <2> QED
    BY <1>2, <2>1, <2>2, Widths
<1>7. CASE kind[p] = "dkl"
  <2>1. n = DklDividers(c) /\ Precision(p)' = Sub /\ c < (IntMax + 1) * Unit
    BY <1>3, <1>7 DEF NewDividers, Precision, Reachable
  <2> QED
    BY <2>1, DklHolds
<1> QED
  BY <1>0, <1>4, <1>5, <1>6, <1>7

\* The three operations that do not write, once they have read the dividers.
LEMMA ConcludeInv ==
  ASSUME RegisterInv, NEW p \in Phys \ disturbed, Conclude(p, bank[p]),
         kind[p] = "dkl" => div0[p] = bank[p].int,
         UNCHANGED <<kind, bank, index, div0, boot, disturbed>>
  PROVE  RegisterInv'
<1>1. TypesOK /\ FractionOK(p) /\ PlaceOK(p) /\ DoneOK(p) /\ p \in Phys
      /\ op[p] \in Places /\ bank[p] \in Widest /\ boot[p] \in Boot
  BY DEF RegisterInv, TypesOK
<1>2. ASSUME UNCHANGED <<target>>, NEW k \in {1, 2, 3}, op' = [op EXCEPT ![p] = k],
             Goto(p, "begin"),
             orig' \in [Phys -> Widest], mod' \in [Phys -> Widest], clock' \in [Phys -> Nat],
             \A q \in Phys \ {p} : orig'[q] = orig[q] /\ mod'[q] = mod[q] /\ clock'[q] = clock[q],
             orig'[p] \in {orig[p], bank[p]}, mod'[p] \in {mod[p], bank[p]},
             bank[p] = boot[p], k # 1 => orig'[p] = boot[p],
             k = 3 => clock'[p] = ClockOf(boot[p])
      PROVE  RegisterInv'
  <2>1. at' = [at EXCEPT ![p] = "begin"] /\ at'[p] = "begin" /\ op'[p] = k
    BY <1>1, <1>2 DEF Goto, TypesOK
  <2>2. \A q \in Phys \ {p} : Untouched(q)
    BY <1>1, <1>2, <2>1 DEF Untouched, TypesOK
  <2>3. TypesOK'
    BY <1>1, <1>2, <2>1 DEF TypesOK, Places
  <2>4. FractionOK(p)'
    BY <1>1, <1>2 DEF FractionOK, FracTop
  <2>5. PlaceOK(p)'
    BY <1>1, <2>1 DEF PlaceOK
  <2>6. DoneOK(p)'
    BY <1>1, <1>2, <2>1 DEF DoneOK
  <2> QED
    BY <2>2, <2>3, <2>4, <2>5, <2>6, StepInv
<1>3. ASSUME Op(p) = "read",
             orig' = [orig EXCEPT ![p] = bank[p]],
             mod' = IF kind[p] = "combo" THEN mod ELSE [mod EXCEPT ![p] = bank[p]],
             Advance(p), UNCHANGED <<clock, target>>
      PROVE  RegisterInv'
  <2>1. op[p] = 1 /\ bank[p] = boot[p]
    BY <1>1, <1>3, Operations DEF DoneOK
  <2>2. op' = [op EXCEPT ![p] = 2] /\ Goto(p, "begin")
    BY <1>3, <2>1 DEF Advance
  <2>3. /\ orig' \in [Phys -> Widest] /\ orig'[p] = bank[p]
        /\ \A q \in Phys \ {p} : orig'[q] = orig[q]
    BY <1>1, <1>3 DEF TypesOK
  <2>4. /\ mod' \in [Phys -> Widest] /\ mod'[p] \in {mod[p], bank[p]}
        /\ \A q \in Phys \ {p} : mod'[q] = mod[q]
    BY <1>1, <1>3 DEF TypesOK
  <2> QED
    BY <1>1, <1>2, <1>3, <2>1, <2>2, <2>3, <2>4 DEF TypesOK
<1>4. ASSUME Op(p) = "clock",
             clock' = [clock EXCEPT ![p] = PllClock(p, bank[p])],
             IF PllClock(p, bank[p]) > 0
             THEN Advance(p)
             ELSE op' = [op EXCEPT ![p] = 1] /\ Goto(p, "begin"),
             UNCHANGED <<orig, mod, target>>
      PROVE  RegisterInv'
  <2>1. op[p] = 2 /\ bank[p] = boot[p] /\ orig[p] = boot[p]
    BY <1>1, <1>4, Operations DEF DoneOK
  <2>2. PllClock(p, bank[p]) = ClockOf(boot[p]) /\ ClockOf(boot[p]) \in Nat
    BY <1>1, <2>1, BootIs DEF PllClock
  <2>3. clock' \in [Phys -> Nat] /\ clock'[p] = ClockOf(boot[p])
        /\ \A q \in Phys \ {p} : clock'[q] = clock[q]
    BY <1>1, <1>4, <2>2 DEF TypesOK
  <2>4. PICK k \in {1, 3} : op' = [op EXCEPT ![p] = k] /\ Goto(p, "begin")
    BY <1>4, <2>1 DEF Advance
  <2> QED
    BY <1>1, <1>2, <1>4, <2>1, <2>3, <2>4 DEF TypesOK
<1>5. ASSUME Op(p) = "dividers",
             \E change \in Changes :
               /\ clock[p] + change > 0
               /\ target' = [target EXCEPT ![p] =
                               IF op[p] = 3 THEN clock[p] + change ELSE clock[p]],
             \E n \in NewDividers(p, target'[p]) : mod' = [mod EXCEPT ![p] = n],
             Advance(p), UNCHANGED <<orig, clock>>
      PROVE  RegisterInv'
  <2>1. op[p] \in {3, 5} /\ orig[p] = boot[p]
    BY <1>1, <1>5, Operations DEF DoneOK
  <2>2. PICK c \in Nat : target' = [target EXCEPT ![p] = c]
    <3>1. PICK change \in Changes :
            /\ clock[p] + change > 0
            /\ target' = [target EXCEPT ![p] =
                            IF op[p] = 3 THEN clock[p] + change ELSE clock[p]]
      BY <1>5
    <3>2. change \in Int /\ clock[p] \in Nat
      BY <1>1, RegisterAssumption DEF TypesOK, RegisterAssumption
    <3>3. clock[p] + change \in Nat
      BY <3>1, <3>2
    <3> QED
      BY <3>1, <3>2, <3>3
  <2>3. target'[p] = c /\ target' \in [Phys -> Nat] /\ \A q \in Phys \ {p} : target'[q] = target[q]
    BY <1>1, <2>2 DEF TypesOK
  <2>4. PICK n \in NewDividers(p, c) : mod' = [mod EXCEPT ![p] = n]
    BY <1>5, <2>3
  <2>5. /\ n \in Widest /\ n.frac <= FracTop(p)
        /\ kind[p] \notin {"c10", "c20"} => n.rem = 0
    BY <1>1, <2>1, NewDividersHold
  <2>6. mod' \in [Phys -> Widest] /\ mod'[p] = n /\ \A q \in Phys \ {p} : mod'[q] = mod[q]
    BY <1>1, <2>4, <2>5 DEF TypesOK
  <2>7. /\ at' = [at EXCEPT ![p] = "begin"] /\ op' = [op EXCEPT ![p] = op[p] + 1]
        /\ at'[p] = "begin" /\ op'[p] = op[p] + 1
    <3>1. op[p] # 7 /\ op[p] + 1 \in Places
      BY <2>1 DEF Places
    <3>2. /\ op' = [op EXCEPT ![p] = IF op[p] = 7 THEN 1 ELSE op[p] + 1]
          /\ at' = [at EXCEPT ![p] = "begin"]
      BY <1>5 DEF Advance, Goto
    <3>3. op' = [op EXCEPT ![p] = op[p] + 1]
      BY <3>1, <3>2, Zenon
    <3> QED
      BY <1>1, <3>2, <3>3 DEF TypesOK
  <2>8. \A q \in Phys \ {p} : Untouched(q)
    BY <1>1, <1>5, <2>3, <2>6, <2>7 DEF Untouched, TypesOK
  <2>9. TypesOK'
    BY <1>1, <1>5, <2>1, <2>3, <2>6, <2>7 DEF TypesOK, Places
  <2>10. FractionOK(p)'
    BY <1>1, <1>5, <2>5, <2>6 DEF FractionOK, FracTop
  <2>11. PlaceOK(p)'
    BY <1>1, <2>7 DEF PlaceOK
  <2>12. DoneOK(p)'
    <3>1. ASSUME op[p] = 3 PROVE DoneOK(p)'
      <4>1. kind[p] = "dkl" => div0[p] # 0
        BY <1>1, <3>1, BootIs DEF DoneOK
      <4>2. Accurate(p)'
        BY <1>1, <1>5, <2>1, <2>3, <2>6, <4>1, NewDividersAccurate
      <4> QED
        BY <1>1, <1>5, <2>7, <3>1, <4>2 DEF DoneOK
    <3>2. ASSUME op[p] = 5 PROVE DoneOK(p)'
      BY <1>1, <1>5, <2>7, <3>2 DEF DoneOK
    <3> QED
      BY <2>1, <3>1, <3>2
  <2> QED
    BY <2>8, <2>9, <2>10, <2>11, <2>12, StepInv
<1> QED
  BY <1>3, <1>4, <1>5 DEF Conclude

LEMMA ReadBiasInv ==
  ASSUME RegisterInv, NEW p \in Phys \ disturbed, ReadBias(p)
  PROVE  RegisterInv'
<1>1. /\ TypesOK /\ FractionOK(p) /\ PlaceOK(p)
      /\ at[p] = "bias" /\ ~Writing(p)
      /\ Conclude(p, [int |-> div0[p], frac |-> Read(p, "frac"), rem |-> 0])
      /\ UNCHANGED <<kind, bank, index, div0, boot, disturbed>>
  BY DEF RegisterInv, ReadBias, history
<1>2. /\ kind[p] = "dkl" /\ Shows(p) /\ div0[p] = bank[p].int /\ bank[p].rem = 0
      /\ bank[p] \in Widest /\ Read(p, "frac") = bank[p].frac
  BY <1>1 DEF TypesOK, FractionOK, PlaceOK, Read
<1>3. [int |-> div0[p], frac |-> Read(p, "frac"), rem |-> 0] = bank[p]
  BY <1>2 DEF Widest
<1> QED
  BY <1>1, <1>2, <1>3, ConcludeInv

LEMMA DirectInv ==
  ASSUME RegisterInv, NEW p \in Phys \ disturbed, Direct(p)
  PROVE  RegisterInv'
<1>1. kind[p] # "dkl" /\ UNCHANGED <<kind, index, div0, boot, disturbed>>
  BY DEF Direct, history
<1>2. CASE Writing(p)
  BY <1>1, <1>2, ArrivedInv DEF Direct
<1>3. CASE ~Writing(p)
  BY <1>1, <1>3, ConcludeInv DEF Direct
<1> QED
  BY <1>2, <1>3

LEMMA StutterInv ==
  ASSUME RegisterInv, UNCHANGED vars
  PROVE  RegisterInv'
<1>1. /\ UNCHANGED <<kind, bank, index, orig, mod, clock, target, op, at, div0, boot, disturbed>>
  BY DEF vars, history
<1>2. TypesOK' /\ TypesOK
  BY <1>1 DEF RegisterInv, TypesOK
<1>3. \A q \in Phys : Untouched(q) /\ (Shows(q)' <=> Shows(q))
  BY <1>1 DEF Untouched, Shows
<1>4. ASSUME NEW q \in Phys
      PROVE  FractionOK(q)' /\ (q \notin disturbed' => PlaceOK(q)' /\ DoneOK(q)')
  BY <1>1, <1>2, <1>3, UntouchedInv DEF RegisterInv
<1> QED
  BY <1>2, <1>4 DEF RegisterInv

LEMMA NextInv == RegisterInv /\ [Next]_vars => RegisterInv'
<1> SUFFICES ASSUME RegisterInv, [Next]_vars PROVE RegisterInv'
  OBVIOUS
<1>1. ASSUME NEW p \in Phys, Step(p) PROVE RegisterInv'
  <2>1. p \in Phys \ disturbed
    BY <1>1 DEF Step
  <2>2. WriteBias(p) => RegisterInv'
    BY <2>1, WriteBiasArrives, ArrivedInv
  <2> QED
    BY <1>1, <2>1, <2>2, DirectInv, CutShortInv, ProbeInv, SelectInv, RereadInv, ReadBiasInv,
       WriteDiv0Inv DEF Step
<1> QED
  BY <1>1, StutterInv DEF Next

\* Whatever PHYs share an index register, a thread that nobody disturbs works on its own
\* PLL: what it has saved, found and written is what its operation says.
THEOREM Registers == Spec => []RegisterInv
  BY InitInv, NextInv, PTL DEF Spec

\* After program_mmio(false) every divider is what it was before synchronisation began.
THEOREM Restored == Spec => []RestoredExactly
<1>1. RegisterInv => RestoredExactly
  BY DEF RegisterInv, DoneOK, RestoredExactly
<1> QED
  BY Registers, <1>1, PTL

\* The dividers that calculate_feedback_dividers finds hold the clock that is asked for,
\* for every width of the dividers and every change, on all five kinds of PHY.
THEOREM Held == Spec => []HoldsTarget
<1>1. RegisterInv => HoldsTarget
  BY DEF RegisterInv, DoneOK, Accurate, HoldsTarget
<1> QED
  BY Registers, <1>1, PTL

\* program_mmio does not report success before all it was to write is in the PLL.
THEOREM Arrive == Spec => WritesArrive
<1> DEFINE Arrives == \A p \in Phys \ disturbed : Writing(p) /\ op'[p] # op[p] => bank'[p] = Values(p)
<1>1. RegisterInv /\ [Next]_vars => [Arrives]_vars
  <2> SUFFICES ASSUME RegisterInv, Next, NEW p \in Phys \ disturbed, Writing(p), op'[p] # op[p]
               PROVE  bank'[p] = Values(p)
    OBVIOUS
  <2>1. TypesOK
    BY DEF RegisterInv
  <2>2. PICK s \in Phys \ disturbed : /\ Step(s)
    BY DEF Next, Step
  <2>3. s = p
    BY <2>1, <2>2 DEF Step, TypesOK, Direct, CutShort, Probe, Select, Reread, ReadBias,
                      WriteDiv0, WriteBias, Conclude, Advance
  <2>4. op[p] # 5
    BY <2>1, Operations DEF TypesOK
  <2>5. CASE Direct(p)
    BY <2>1, <2>5 DEF Direct, TypesOK
  <2>6. CASE WriteBias(p)
    BY <2>1, <2>6, WriteBiasArrives DEF TypesOK
  <2>7. ~CutShort(p) /\ ~Probe(p) /\ ~Select(p) /\ ~Reread(p) /\ ~ReadBias(p) /\ ~WriteDiv0(p)
    BY <2>4 DEF CutShort, Probe, Select, Reread, ReadBias, WriteDiv0
  <2> QED
    BY <2>2, <2>3, <2>5, <2>6, <2>7 DEF Step
<1> QED
  BY Registers, <1>1, PTL DEF Spec, WritesArrive

-----------------------------------------------------------------------------
(* The integer dividers. Combo and M & N do not limit what they compute,   *)
(* so that this holds for the clocks their bits can hold.                  *)

ClocksFit ==
  \A d \in Boot : \A change \in Changes : ClockOf(d) + change < (IntMax + 1) * Unit

IntsFit ==
  \A p \in Phys : /\ bank[p].int <= IntMax /\ orig[p].int <= IntMax
                  /\ mod[p].int <= IntMax /\ div0[p] <= IntMax

\* The clock of the boot values fits always.
LEMMA BootFits ==
  ASSUME NEW d \in Boot
  PROVE  ClockOf(d) < (IntMax + 1) * Unit
<1>1. PICK i \in Nat, f \in Nat, r \in Nat :
        /\ d.int = i /\ d.frac = f /\ d.rem = r
        /\ i <= IntMax /\ f < Radix /\ r < Sub
  BY BootIs, Widths
<1>2. ClockOf(d) = Unit * i + Sub * f + r /\ Unit * i \in Int /\ Sub * f \in Int
  <2>1. d \in [int : Int, frac : Int, rem : Int]
    BY BootIs, Widths DEF Widest
  <2> QED
    BY <1>1, <2>1, ClockIs
<1>3. Sub * f + Sub <= Unit
  BY <1>1, Widths, ProductLess
<1>4. Unit * i + Unit <= Unit * (IntMax + 1)
  <2>1. i < IntMax + 1 /\ IntMax + 1 \in Int
    BY <1>1, Widths
  <2> QED
    BY <1>1, <2>1, Widths, ProductLess
<1>5. Unit * (IntMax + 1) = (IntMax + 1) * Unit /\ Unit * (IntMax + 1) \in Int
  BY Widths
<1> QED
  BY <1>1, <1>2, <1>3, <1>4, <1>5, Widths

\* A new value is one that is in the PLL, one that is saved, or one that is found.
LEMMA ConcludeFits ==
  ASSUME ClocksFit, RegisterInv, IntsFit, NEW p \in Phys \ disturbed, NEW d \in Widest,
         d.int <= IntMax, Conclude(p, d), UNCHANGED <<bank, div0>>
  PROVE  IntsFit'
<1>1. TypesOK /\ DoneOK(p) /\ p \in Phys /\ op[p] \in Places /\ boot[p] \in Boot
  BY DEF RegisterInv, TypesOK
<1>2. ASSUME orig' \in {orig, [orig EXCEPT ![p] = d]},
             NEW n \in Widest, n.int <= IntMax, mod' \in {mod, [mod EXCEPT ![p] = n]}
      PROVE  IntsFit'
  BY <1>1, <1>2 DEF IntsFit, TypesOK
<1>3. CASE Op(p) = "read"
  BY <1>2, <1>3 DEF Conclude
<1>4. CASE Op(p) = "clock"
  BY <1>2, <1>4 DEF Conclude
<1>5. CASE Op(p) = "dividers"
  <2>1. op[p] \in {3, 5} /\ orig[p] \in Boot /\ clock[p] = ClockOf(boot[p]) /\ orig' = orig
    BY <1>1, <1>5, Operations DEF DoneOK, Conclude
  <2>2. PICK change \in Changes :
          /\ clock[p] + change > 0
          /\ target' = [target EXCEPT ![p] =
                          IF op[p] = 3 THEN clock[p] + change ELSE clock[p]]
    BY <1>5 DEF Conclude
  <2>3. target'[p] \in Nat /\ target'[p] < (IntMax + 1) * Unit
    <3>1. change \in Int /\ ClockOf(boot[p]) \in Nat
      BY <1>1, BootIs, RegisterAssumption DEF RegisterAssumption
    <3>2. ClockOf(boot[p]) + change < (IntMax + 1) * Unit
      BY <1>1 DEF ClocksFit
    <3>3. ClockOf(boot[p]) < (IntMax + 1) * Unit
      BY <1>1, BootFits
    <3>4. target'[p] \in {clock[p] + change, clock[p]}
      BY <1>1, <2>2 DEF TypesOK
    <3>5. clock[p] + change \in Nat
      BY <2>1, <2>2, <3>1
    <3> QED
      BY <2>1, <3>1, <3>2, <3>3, <3>4, <3>5
  <2>4. PICK n \in NewDividers(p, target'[p]) : mod' = [mod EXCEPT ![p] = n]
    BY <1>5 DEF Conclude
  <2>5. n \in Widest /\ n.int <= IntMax
    BY <1>1, <2>1, <2>3, NewDividersHold
  <2> QED
    BY <1>2, <2>1, <2>4, <2>5
<1> QED
  BY <1>3, <1>4, <1>5 DEF Conclude

LEMMA StepFits ==
  ASSUME ClocksFit, RegisterInv, IntsFit, NEW p \in Phys, Step(p)
  PROVE  IntsFit'
<1>1. /\ TypesOK /\ FractionOK(p) /\ PlaceOK(p) /\ p \in Phys \ disturbed
      /\ bank[p] \in Widest /\ orig[p] \in Widest /\ mod[p] \in Widest /\ div0[p] \in Nat
      /\ bank[p].int <= IntMax /\ div0[p] <= IntMax
  BY DEF RegisterInv, TypesOK, Step, IntsFit
<1>2. Values(p) \in Widest /\ Values(p).int <= IntMax
  BY <1>1 DEF Values, IntsFit
<1>3. Read(p, "int") \in Nat /\ Read(p, "int") <= IntMax
      /\ Read(p, "frac") \in Nat
  BY <1>1, Widths DEF Read, Widest
<1>4. CASE Direct(p)
  <2>1. CASE Writing(p)
    <3>1. bank' = [bank EXCEPT ![p] = Values(p)] /\ UNCHANGED <<orig, mod, div0>>
      BY <1>4, <2>1 DEF Direct
    <3> QED
      BY <1>1, <1>2, <3>1 DEF IntsFit, TypesOK
  <2>2. CASE ~Writing(p)
    <3>1. Conclude(p, bank[p]) /\ UNCHANGED <<bank, div0>>
      BY <1>4, <2>2 DEF Direct
    <3> QED
      BY <1>1, <3>1, ConcludeFits
  <2> QED
    BY <2>1, <2>2
<1>5. CASE CutShort(p) \/ Select(p)
  BY <1>5 DEF CutShort, Select, IntsFit
<1>6. CASE Probe(p) \/ Reread(p)
  BY <1>1, <1>3, <1>6 DEF Probe, Reread, IntsFit, TypesOK
<1>7. CASE ReadBias(p)
  <2>1. [int |-> div0[p], frac |-> Read(p, "frac"), rem |-> 0] \in Widest
    BY <1>1, <1>3, Widths DEF Widest
  <2> QED
    BY <1>1, <1>7, <2>1, ConcludeFits DEF ReadBias
<1>8. CASE WriteDiv0(p)
  <2>1. bank' \in {bank, [bank EXCEPT ![p]["int"] = Values(p).int]}
        /\ UNCHANGED <<orig, mod, div0>>
    BY <1>8 DEF WriteDiv0, Written
  <2>2. ASSUME NEW q \in Phys PROVE bank'[q].int \in {bank[q].int, Values(p).int}
    <3>1. bank[q] \in Widest
      BY <1>1 DEF TypesOK
    <3> QED
      BY <1>1, <2>1, <3>1 DEF TypesOK, Widest
  <2>3. ASSUME NEW q \in Phys PROVE bank'[q].int <= IntMax
    BY <1>2, <2>2 DEF IntsFit
  <2> QED
    BY <2>1, <2>3 DEF IntsFit
<1>9. CASE WriteBias(p)
  <2>1. bank' = [bank EXCEPT ![p] = Values(p)] /\ UNCHANGED <<orig, mod, div0>>
    BY <1>1, <1>9, WriteBiasArrives
  <2> QED
    BY <1>1, <1>2, <2>1 DEF IntsFit, TypesOK
<1> QED
  BY <1>4, <1>5, <1>6, <1>7, <1>8, <1>9 DEF Step

\* Every variable keeps its type, divider values stay within the bits that hold them:
\* those of Combo and M & N as long as the clocks asked for fit, for
\* calculate_feedback_dividers puts the integer into its register as it is.
THEOREM TypeCorrect ==
  ASSUME ClocksFit
  PROVE  Spec => []TypeOK
<1>1. Init => IntsFit
  <2> SUFFICES ASSUME Init, NEW p \in Phys
               PROVE  /\ bank[p].int <= IntMax /\ orig[p].int <= IntMax
                      /\ mod[p].int <= IntMax /\ div0[p] <= IntMax
    BY DEF IntsFit
  <2>1. bank[p] \in Boot /\ orig[p] = Zero /\ mod[p] = Zero /\ div0[p] = 0
    BY DEF Init
  <2> QED
    BY <2>1, BootIs, Widths DEF Zero
<1>2. RegisterInv /\ IntsFit /\ [Next]_vars => IntsFit'
  <2>1. ASSUME UNCHANGED vars, IntsFit PROVE IntsFit'
    BY <2>1 DEF vars, IntsFit
  <2> QED
    BY <2>1, StepFits DEF Next
<1>3. RegisterInv /\ IntsFit => TypeOK
  <2> SUFFICES ASSUME RegisterInv, IntsFit PROVE TypeOK
    OBVIOUS
  <2>1. TypesOK
    BY DEF RegisterInv
  <2>2. ASSUME NEW p \in Phys PROVE {bank[p], orig[p], mod[p]} \subseteq Dividers(p)
    <3>1. FractionOK(p) /\ FracTop(p) \in Nat
      BY Widths DEF RegisterInv, FracTop
    <3>2. ASSUME NEW d \in Widest, d.int <= IntMax, d.frac <= FracTop(p)
          PROVE  d \in Dividers(p)
      BY <3>1, <3>2, Widths DEF Widest, Dividers
    <3>3. bank[p] \in Widest /\ orig[p] \in Widest /\ mod[p] \in Widest
      BY <2>1 DEF TypesOK
    <3>4. bank[p] \in Dividers(p) /\ orig[p] \in Dividers(p) /\ mod[p] \in Dividers(p)
      BY <3>1, <3>2, <3>3 DEF IntsFit, FractionOK
    <3> QED
      BY <3>4
  <2>3. div0 \in [Phys -> 0 .. IntMax]
    BY <2>1, Widths DEF IntsFit, TypesOK
  <2> QED
    BY <2>1, <2>2, <2>3 DEF TypeOK, TypesOK
<1> QED
  BY Registers, <1>1, <1>2, <1>3, PTL DEF Spec

=============================================================================
