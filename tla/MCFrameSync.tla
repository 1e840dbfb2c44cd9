----------------------------- MODULE MCFrameSync -----------------------------
(* Values for the constants of FrameSync.                                  *)
EXTENDS FrameSync

\* One tick before or after.
MCSkews == {-1, 1}

\* Less than a frame, as with the default of 16 ms at 60 Hz; as little as is in
\* time; over two frames. All are clear of the vblanks.
MCAheads == {2, 10, 18}

=============================================================================
