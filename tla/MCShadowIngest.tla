--------------------------- MODULE MCShadowIngest ---------------------------
(***************************************************************************)
(* A small instance of ShadowIngest for TLC: a conversation that goes on,  *)
(* which every build lists, and one that is over, which some do not.       *)
(***************************************************************************)
EXTENDS ShadowIngest

CONSTANTS t1, t2

MCLists == {{t1}, {t1, t2}}
=============================================================================
