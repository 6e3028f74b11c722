---------------------------- MODULE MCFrameDriver ----------------------------
(* An instance of FrameDriver for TLC.                                     *)
EXTENDS FrameDriver

\* The clock starts before zero and runs past the largest timestamp, so that
\* the time between two frames may not be representable, nor the time of one.
StartsBelowZero == {-2}
=============================================================================
