--------------------------- MODULE MCLiveTerminal ---------------------------
(***************************************************************************)
(* A small instance of LiveTerminal for TLC.                               *)
(***************************************************************************)
EXTENDS LiveTerminal

CONSTANTS r1, r2, s1, s2, c1, p1, p2
=============================================================================
