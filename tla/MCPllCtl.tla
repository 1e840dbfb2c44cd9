------------------------------ MODULE MCPllCtl ------------------------------
(* Values for the constants of PllCtl, in hundredths of a microsecond.     *)
EXTENDS PllCtl

\* 60 Hz.
MCRefreshPeriod == 1666667

\* From three steps away, each side of the tolerance and of the half step.
MCIntervals ==
  {MCRefreshPeriod + d : d \in {-61, -28, -11, -9, 0, 8, 12, 26}}

\* Zero, and the leftovers of an earlier capture, which look right.
MCJunk == {0, 3 * MCRefreshPeriod}

=============================================================================
