------------------------------ MODULE FileLock ------------------------------
(***************************************************************************)
(* The lock directory `<file>.lock` that agentop's processes take around a *)
(* read-modify-write of a shared file.                                     *)
(* Translated from packages/server/server/sessions/file-lock.ts.           *)
(*                                                                         *)
(* Every file-system call is a step.  A lock directory is the process that *)
(* made it and whether it is older than STALE_MS.  STALE_MS (15 s) is      *)
(* three times WAIT_MS (5 s): a waiter gives up long before a lock whose   *)
(* holder is alive and at work gets stale.                                 *)
(***************************************************************************)
EXTENDS Naturals, FiniteSets

CONSTANTS
  Proc,       \* processes
  None,       \* no directory
  Calls,      \* bound: times each process takes the lock
  MaxCrashes, \* bound: processes killed
  MaxLate     \* bound: waits that reach WAIT_MS

ASSUME FileLockAssumption == None \notin Proc /\ Calls \in Nat

VARIABLES
  dir,     \* the lock directory: [by, old], or NoDir
  pc,      \* where each process is
  late,    \* its deadline has passed
  calls,   \* calls made
  frozen,  \* read-only by now: a remount, a change of permissions
  found,   \* history: who made the lock that a process is to take over
  robbed,  \* history: a takeover moved a lock that somebody else was holding
  crashes, lates   \* bounds

lockHistory == <<found, robbed>>
lockVars == <<dir, pc, late, calls, frozen, lockHistory, crashes, lates>>

NoDir == [by |-> None, old |-> FALSE]
Inside == {"held", "contended"}

Goto(p, l) == pc' = [pc EXCEPT ![p] = l]

LockInit ==
  /\ dir = NoDir
  /\ pc = [p \in Proc |-> "idle"]
  /\ late = [p \in Proc |-> FALSE]
  /\ calls = [p \in Proc |-> 0]
  /\ found = [p \in Proc |-> None]
  /\ frozen = FALSE /\ robbed = FALSE /\ crashes = 0 /\ lates = 0

-----------------------------------------------------------------------------
(***************************************************************************)
(* lockFile.                                                               *)
(***************************************************************************)
Lock(p) ==
  /\ pc[p] = "idle" /\ calls[p] < Calls
  /\ calls' = [calls EXCEPT ![p] = @ + 1]
  /\ late' = [late EXCEPT ![p] = FALSE]
  /\ Goto(p, "mkdir")
  /\ UNCHANGED <<dir, frozen, lockHistory, crashes, lates>>

\* The atomic step: the directory is made, or it exists.  Any other failure
\* goes ahead without the lock.
Mkdir(p) ==
  /\ pc[p] = "mkdir"
  /\ \/ /\ dir = NoDir /\ ~frozen
        /\ dir' = [by |-> p, old |-> FALSE]
        /\ Goto(p, "held")
     \/ /\ dir = NoDir /\ frozen
        /\ Goto(p, "contended") /\ UNCHANGED dir
     \/ /\ dir # NoDir
        /\ Goto(p, "inspect") /\ UNCHANGED dir
  /\ UNCHANGED <<late, calls, frozen, lockHistory, crashes, lates>>

\* Mutation of Inspect: past its deadline a waiter takes the lock over.
InspectImpatient(p) ==
  /\ pc[p] = "inspect"
  /\ Goto(p, IF dir.old \/ late[p] THEN "steal" ELSE "mkdir")
  /\ found' = [found EXCEPT ![p] = dir.by]
  /\ UNCHANGED <<dir, late, calls, frozen, robbed, crashes, lates>>

\* inspectLock, and what follows from it.  A wait that is over goes ahead
\* without the lock; a stale lock is taken over whatever the time.
Inspect(p) ==
  /\ pc[p] = "inspect"
  /\ Goto(p, IF dir.old THEN "steal" ELSE IF late[p] THEN "contended" ELSE "mkdir")
  /\ found' = [found EXCEPT ![p] = IF dir.old THEN dir.by ELSE None]
  /\ UNCHANGED <<dir, late, calls, frozen, robbed, crashes, lates>>

\* Mutation of Steal: the stale lock stays where it is.
StealNothing(p) ==
  /\ pc[p] = "steal"
  /\ Goto(p, "mkdir")
  /\ found' = [found EXCEPT ![p] = None]
  /\ UNCHANGED <<dir, late, calls, frozen, robbed, crashes, lates>>

\* What is at the path is no longer the lock it found: that one is taken over
\* already, and this one somebody has made since and holds.
Robs(p) == dir.by \notin {None, found[p]} /\ pc[dir.by] = "held"

\* rename(dir, aside): whatever directory is at the path is moved aside and
\* removed; with none there, or refused, the rename fails.  Then back to mkdir.
Steal(p) ==
  /\ pc[p] = "steal"
  /\ IF frozen THEN UNCHANGED <<dir, robbed>>
     ELSE dir' = NoDir /\ robbed' = (robbed \/ Robs(p))
  /\ Goto(p, "mkdir")
  /\ found' = [found EXCEPT ![p] = None]
  /\ UNCHANGED <<late, calls, frozen, crashes, lates>>

\* release: removes the directory at the path, and never throws.  Without the
\* lock, nothing.
Release(p) ==
  /\ pc[p] \in Inside
  /\ dir' = IF pc[p] = "held" /\ ~frozen THEN NoDir ELSE dir
  /\ Goto(p, "idle")
  /\ UNCHANGED <<late, calls, frozen, lockHistory, crashes, lates>>

-----------------------------------------------------------------------------
(***************************************************************************)
(* Time and failure.                                                       *)
(***************************************************************************)

\* WAIT_MS after its call.
Deadline(p) ==
  /\ pc[p] \in {"mkdir", "inspect"} /\ ~late[p]
  /\ lates < MaxLate /\ lates' = lates + 1
  /\ late' = [late EXCEPT ![p] = TRUE]
  /\ UNCHANGED <<dir, pc, calls, frozen, lockHistory, crashes>>

\* STALE_MS after it was made.  A live holder is done long before.
Age ==
  /\ dir.by # None /\ ~dir.old /\ pc[dir.by] # "held"
  /\ dir' = [dir EXCEPT !.old = TRUE]
  /\ UNCHANGED <<pc, late, calls, frozen, lockHistory, crashes, lates>>

\* Killed.  What starts in its place is another process.
Crash(p) ==
  /\ pc[p] \notin {"idle", "dead"} /\ crashes < MaxCrashes
  /\ crashes' = crashes + 1
  /\ Goto(p, "dead")
  /\ found' = [found EXCEPT ![p] = None]
  /\ UNCHANGED <<dir, late, calls, frozen, robbed, lates>>

-----------------------------------------------------------------------------
Acquire(p) == Mkdir(p) \/ Inspect(p) \/ Steal(p)

Freeze ==
  /\ ~frozen
  /\ frozen' = TRUE
  /\ UNCHANGED <<dir, pc, late, calls, lockHistory, crashes, lates>>

LockTime == Age \/ Freeze \/ \E p \in Proc : Deadline(p)

LockTypeOK ==
  /\ dir \in [by : Proc \cup {None}, old : BOOLEAN]
  /\ pc \in [Proc -> {"idle", "mkdir", "inspect", "steal", "dead"} \cup Inside]
  /\ late \in [Proc -> BOOLEAN]
  /\ calls \in [Proc -> 0..Calls]
  /\ found \in [Proc -> Proc \cup {None}]
  /\ frozen \in BOOLEAN /\ robbed \in BOOLEAN /\ crashes \in Nat /\ lates \in Nat

\* file-lock.ts:36-38, whoever renames an abandoned lock aside owns it and
\* everybody else goes back to racing: of any number of processes one at most
\* believes that it holds the lock.  That a rename takes what it finds at the
\* path is the one way to break it: two waiters find one abandoned lock, and
\* the slower of them moves aside the lock the faster has made by then.
Exclusive == ~robbed => Cardinality({p \in Proc : pc[p] = "held"}) <= 1

\* "A LOCK MUST NEVER BE ABLE TO WEDGE THE PRODUCT", "The wait is BOUNDED":
\* whoever asks for the lock gets to its work, with it or without it, for as
\* long as the file system takes changes.
AcquireReturns ==
  \A p \in Proc :
    (pc[p] = "mkdir") ~> (frozen \/ pc[p] \in Inside \cup {"idle", "dead"})
=============================================================================
