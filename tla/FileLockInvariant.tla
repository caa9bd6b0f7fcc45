-------------------------- MODULE FileLockInvariant --------------------------
(***************************************************************************)
(* The inductive invariant of FileLock, for every number of processes,     *)
(* calls, crashes and waits that run out.  The lock's actions are steps of *)
(* whatever the lock is around: the modules that extend FileLock prove it  *)
(* of their steps (SessionRegistry_proofs, TaskStore_proofs).              *)
(*                                                                         *)
(* Taking over a stale lock moves whatever directory is at the path, the   *)
(* one a faster waiter has just made included: `robbed` remembers it.      *)
(* Until then the directory is the one of whoever holds the lock.          *)
(***************************************************************************)
EXTENDS FileLock

\* Only a crash ends a process.
DeadInv == \A p \in Proc : pc[p] = "dead" => crashes > 0

\* A directory has a holder, or its holder was killed, or could not remove it.
OrphanInv ==
  /\ dir.by = None => dir = NoDir
  /\ dir.by # None => frozen \/ pc[dir.by] \in {"held", "dead"}
  /\ dir.by # None /\ dir.old => frozen \/ pc[dir.by] = "dead"

\* Whoever is about to move a stale lock aside found it left by the dead.
StealInv ==
  \A p \in Proc : pc[p] = "steal" =>
    frozen \/ (found[p] \in Proc /\ pc[found[p]] = "dead")

HolderInv == ~robbed => \A p \in Proc : pc[p] = "held" => dir.by = p

\* What it takes to rob a holder: somebody killed, and two who wait behind the
\* lock he left.
Robbery ==
  /\ crashes > 0
  /\ \E p, q, r \in Proc : p # q /\ q # r /\ p # r

RobbedInv == robbed => Robbery

LockInv == LockTypeOK /\ DeadInv /\ OrphanInv /\ StealInv /\ HolderInv /\ RobbedInv

\* Whoever works without the lock waited too long, or found the disk frozen.
ContendedInv ==
  /\ \A p \in Proc : late[p] => lates > 0
  /\ \A p \in Proc : pc[p] = "contended" => frozen \/ lates > 0

\* A step of the lock.
LockNext ==
  \/ LockTime
  \/ \E p \in Proc : Lock(p) \/ Acquire(p) \/ Release(p) \/ Crash(p)
=============================================================================
