------------------------- MODULE MCSessionRegistry -------------------------
(***************************************************************************)
(* Small instances of SessionRegistry for TLC.                             *)
(***************************************************************************)
EXTENDS SessionRegistry

CONSTANTS p1, p2, p3, s1, s2

\* Two processes record sessions of their own; one of the two is renamed or
\* taken out by others.
MCAsks == [do : {"add"}, id : {s1, s2}] \cup [do : {"rename", "remove"}, id : {s1}]
            \cup [do : {"touch"}, id : {None}]
=============================================================================
