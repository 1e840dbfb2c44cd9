-------------------------- MODULE MCPrimaryProcess --------------------------
(* Values for the constants of PrimaryProcess.                             *)
EXTENDS PrimaryProcess

MCSignals == <<"first", "second">>

\* TCP and PTP, with and without a monitor, debug messages, hardware timestamps.
Mode(ptp, monitored, verbose, hwTs) ==
  [ptp |-> ptp, monitored |-> monitored, verbose |-> verbose, hwTs |-> hwTs]

MCModes == {Mode(FALSE, TRUE, FALSE, FALSE), Mode(FALSE, TRUE, TRUE, FALSE),
            Mode(TRUE, FALSE, FALSE, TRUE)}

=============================================================================
