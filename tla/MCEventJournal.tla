--------------------------- MODULE MCEventJournal ---------------------------
(***************************************************************************)
(* Small instances of EventJournal for TLC.                                *)
(***************************************************************************)
EXTENDS EventJournal, TLC

CONSTANTS p1, p2, s1, s2, a, b, bad, u, v

\* Each event always carries the same string; bad is the one planAppend rejects.
MCOffered == {[event |-> a, str |-> u], [event |-> b, str |-> v],
              [event |-> bad, str |-> u]}

MCValid == {o \in MCOffered : o.event # bad}

MCSymmetry == Permutations(Proc) \cup Permutations(Slot)
=============================================================================
