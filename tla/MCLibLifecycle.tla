--------------------------- MODULE MCLibLifecycle ---------------------------
(* Values for the constants of LibLifecycle.                               *)
EXTENDS LibLifecycle, TLC

CONSTANTS c0, c1, c2, d0, d1, d2, tgl, ptl

\* Cards of two supported chips and of one that is in no row of the table.
MCTarget == c0 :> d0 @@ c1 :> d1 @@ c2 :> d2
MCChip   == d0 :> tgl @@ d1 :> ptl @@ d2 :> Foreign

Out(kind, pll, live, dp) == [kind |-> kind, pll |-> pll, live |-> live, dp |-> dp]
Route(a, b, c) == 0 :> a @@ 1 :> b @@ 2 :> c

\* Nothing is driven; PHYs of each kind; a PLL that is not clocked; one PLL for
\* two pipes, with and without a PHY before and after them.
MCRoutings ==
  tgl :> {Route(Off, Off, Off),
          Route(Out("combo", 0, TRUE, FALSE), Off, Out("dkl", 1, TRUE, TRUE)),
          Route(Out("combo", 1, TRUE, TRUE), Out("combo", 1, TRUE, TRUE), Off),
          Route(Out("dkl", 0, TRUE, FALSE), Out("combo", 1, FALSE, TRUE), Off),
          Route(Out("combo", 0, TRUE, TRUE), Out("dkl", 2, FALSE, FALSE),
                Out("dkl", 1, TRUE, FALSE)),
          Route(Out("dkl", 1, TRUE, TRUE), Out("dkl", 1, TRUE, FALSE), Off)}
  @@
  ptl :> {Route(Out("c10", 8, TRUE, FALSE), Out("c20", 4, TRUE, TRUE), Off),
          Route(Off, Out("c20", 5, TRUE, FALSE), Out("c20", 5, TRUE, FALSE))}

=============================================================================
