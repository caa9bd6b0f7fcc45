----------------------------- MODULE JournalLog -----------------------------
(***************************************************************************)
(* What the journal promises everyone who reads it by cursor               *)
(* (packages/server/server/journal/types.ts, `Journal`): a log that only   *)
(* grows, one committed batch at a time, and that holds an event id once.  *)
(* EventJournal implements it; ProjectionCatchUp reads it.                 *)
(***************************************************************************)
EXTENDS Naturals, Sequences

CONSTANTS Event, MaxBatch

VARIABLE log    \* event ids by rowid

NoRepeats(s) == \A i, j \in 1..Len(s) : s[i] = s[j] => i = j

Logged(e) == \E i \in 1..Len(log) : log[i] = e

\* The rows of one transaction that were not in the table yet.
Commit(batch) ==
  /\ NoRepeats(batch)
  /\ \A i \in 1..Len(batch) : ~Logged(batch[i])
  /\ log' = log \o batch

Init == log = <<>>
Next == \E n \in 1..MaxBatch : \E batch \in [1..n -> Event] : Commit(batch)
Spec == Init /\ [][Next]_log
=============================================================================
