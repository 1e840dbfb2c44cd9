--------------------------- MODULE MCPhyRegisters ---------------------------
(* Values for the constants of PhyRegisters: two PHYs.                     *)
EXTENDS PhyRegisters
CONSTANTS p1, p2

\* They are two of the four ports of one index register.
MCSharedIndex == [p \in Phys |-> "HIP_INDEX_REG0"]

\* In the middle of an integer step, and at its end; with a remainder.
MCBoot == {[int |-> 2, frac |-> 1, rem |-> 0], [int |-> 2, frac |-> 3, rem |-> 0],
           [int |-> 2, frac |-> 2, rem |-> 1]}

\* Less than the registers resolve and over the last fraction; down, up and up
\* across an integer.
MCChanges == {2, -7, 6, 9}

=============================================================================
