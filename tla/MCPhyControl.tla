---------------------------- MODULE MCPhyControl ----------------------------
(* Values for the constants of PhyControl.                                 *)
EXTENDS PhyControl

\* Refused; two to be made up in steps of --shift, slower and faster, the first
\* with a periodic timer; one within --shift whose timer expires once; none.
MCTimeDiffs == {25000, 2000, -3000, 300, 0}

=============================================================================
