----------------------------- MODULE MCPipeSync -----------------------------
(* Values for the constants of PipeSync.                                   *)
EXTENDS PipeSync

MCAllPhases == 0 .. Period - 1
\* Steps of 2 never make an odd drift 0: what is left of it is less than a step.
MCDrifts == {-1, 0, 3}
MCErrors == {-1, 1}

\* The answers that seven timestamps cover: the last of the two captured vblanks
\* and six more.
MCCoveredLags == {0, 1, 6}
\* The answers that the ten extra timestamps of secondary.cpp:60 would cover.
MCTenLags == {0, 1, 8}

=============================================================================
