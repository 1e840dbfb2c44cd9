------------------------------ MODULE PllLoan ------------------------------
(***************************************************************************)
(* What libvsyncalter promises of the PLL clock of a PHY: it is lent, and  *)
(* it comes back.  A synchronisation takes the clock of one PHY, may move  *)
(* it about, and gives it back as it found it; in between the clock has a  *)
(* home that only a learning call moves.  Steps, registers, timers, signal *)
(* handlers and threads are what PhyControl does to keep this promise.     *)
(***************************************************************************)
EXTENDS Integers

CONSTANT Phys      \* the PHYs

VARIABLES
  clock,     \* the clock of each PHY
  home,      \* the clock it has between synchronisations
  lent,      \* the PHYs a synchronisation is at work on
  stopped,   \* Ctrl+C: what is lent is only to be put back as well as possible
  ended      \* the PHYs are deleted

vars == <<clock, home, lent, stopped, ended>>

AtHome(p) == clock[p] = home[p]

Init ==
  /\ clock \in [Phys -> Int]
  /\ home = clock
  /\ lent = {}
  /\ stopped = FALSE
  /\ ended = FALSE

\* Of all the PHYs, only p has its clock set.
SetClock(p) ==
  /\ clock' \in [Phys -> Int]
  /\ \A q \in Phys \ {p} : clock'[q] = clock[q]

\* synchronize_vsync reads the registers it will restore.
Borrow(p) ==
  /\ p \notin lent /\ AtHome(p) /\ ~stopped /\ ~ended
  /\ lent' = lent \cup {p}
  /\ UNCHANGED <<clock, home, stopped, ended>>

\* One step there or back.
Move(p) ==
  /\ p \in lent
  /\ SetClock(p)
  /\ UNCHANGED <<home, lent, stopped, ended>>

\* The wait is over: nothing of the shift is left.
Return(p) ==
  /\ p \in lent /\ AtHome(p)
  /\ lent' = lent \ {p}
  /\ UNCHANGED <<clock, home, stopped, ended>>

\* A learning call, which is to stay.
Adjust(p) ==
  /\ p \notin lent /\ AtHome(p) /\ ~stopped /\ ~ended
  /\ SetClock(p)
  /\ home' = [home EXCEPT ![p] = clock'[p]]
  /\ UNCHANGED <<lent, stopped, ended>>

Stop ==
  /\ ~stopped /\ ~ended
  /\ stopped' = TRUE
  /\ lent' = {}
  /\ UNCHANGED <<clock, home, ended>>

\* After Ctrl+C a thread and a handler may put the same clock back at once.
WindDown(p) ==
  /\ stopped /\ ~ended
  /\ SetClock(p)
  /\ home' \in [Phys -> Int]
  /\ \A q \in Phys \ {p} : home'[q] = home[q]
  /\ UNCHANGED <<lent, stopped, ended>>

\* The library may go when nothing is lent.
End ==
  /\ ~ended /\ lent = {}
  /\ ended' = TRUE
  /\ UNCHANGED <<clock, home, lent, stopped>>

Next ==
  \/ \E p \in Phys : Borrow(p) \/ Move(p) \/ Return(p) \/ Adjust(p) \/ WindDown(p)
  \/ Stop
  \/ End

Spec == Init /\ [][Next]_vars

TypeOK ==
  /\ clock \in [Phys -> Int] /\ home \in [Phys -> Int]
  /\ lent \subseteq Phys
  /\ stopped \in BOOLEAN /\ ended \in BOOLEAN

\* A clock that is not lent is at home (phy.cpp:90-93), and the library does not
\* go while one is.
Settled ==
  ~stopped => /\ \A p \in Phys \ lent : AtHome(p)
              /\ ended => lent = {}

=============================================================================
