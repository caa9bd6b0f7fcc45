---------------------------- MODULE MCTaskStore ----------------------------
(***************************************************************************)
(* A small instance of TaskStore for TLC: a task with a group and another  *)
(* subtask, a name that sessions carry, and the ids of two tasks somebody  *)
(* creates under that name.                                                *)
(***************************************************************************)
EXTENDS TaskStore

CONSTANTS p1, p2, home, carried, created, other, group, member

MCSymmetry == Permutations(Proc)

MCTitle == [t \in Task |-> IF t = home THEN "home" ELSE "carried"]
=============================================================================
