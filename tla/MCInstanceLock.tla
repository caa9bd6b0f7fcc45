--------------------------- MODULE MCInstanceLock ---------------------------
(***************************************************************************)
(* A small instance of InstanceLock for TLC.                                *)
(***************************************************************************)
EXTENDS InstanceLock

CONSTANTS p1, p2, p3, n1, n2, n3
=============================================================================
