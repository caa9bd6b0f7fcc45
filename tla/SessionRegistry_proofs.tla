------------------------ MODULE SessionRegistry_proofs ------------------------
(***************************************************************************)
(* Proofs about SessionRegistry: the lock is exclusive around it, and no   *)
(* change of the list is lost, for every number of sessions, of calls, of  *)
(* crashes and of waits that run out.                                      *)
(*                                                                         *)
(* What breaks the lock is in the statements and not in hypotheses: a      *)
(* takeover that moves the lock of a living holder, a wait that ran out, a *)
(* read of the list that failed.                                           *)
(***************************************************************************)
EXTENDS SessionRegistry, FileLockInvariant, FiniteSetTheorems, TLAPS

-----------------------------------------------------------------------------
(***************************************************************************)
(* The lock.                                                               *)
(***************************************************************************)

\* The invariant holds at the start.
LEMMA LockInvInit == LockInit => LockInv
<1> SUFFICES ASSUME LockInit PROVE LockInv
  OBVIOUS
<1>1. LockTypeOK
  <2>1. dir \in [by : Proc \cup {None}, old : BOOLEAN]
    BY DEF LockInit, NoDir
  <2>2. /\ pc \in [Proc -> {"idle", "mkdir", "inspect", "steal", "dead"} \cup Inside]
        /\ calls \in [Proc -> 0..Calls] /\ crashes \in Nat /\ lates \in Nat
        /\ found \in [Proc -> Proc \cup {None}]
    BY FileLockAssumption DEF LockInit
  <2>3. late \in [Proc -> BOOLEAN]
    BY Zenon DEF LockInit
  <2>4. frozen \in BOOLEAN /\ robbed \in BOOLEAN
    BY Zenon DEF LockInit
  <2>5. QED
    BY <2>1, <2>2, <2>3, <2>4 DEF LockTypeOK
<1>2. QED
  BY <1>1, FileLockAssumption
     DEF LockInit, LockInv, DeadInv, OrphanInv, StealInv, HolderInv, RobbedInv, NoDir

\* Every step keeps the types.
LEMMA LockTypeStep ==
  ASSUME LockTypeOK, LockNext \/ UNCHANGED lockVars
  PROVE  LockTypeOK'
<1> USE DEF LockTypeOK, Goto, Inside, NoDir, lockHistory
<1>1. CASE UNCHANGED lockVars
  BY <1>1 DEF lockVars
<1>2. CASE LockTime
  <2>1. ASSUME NEW p \in Proc, Deadline(p) PROVE LockTypeOK'
    BY <2>1 DEF Deadline
  <2>2. ASSUME Age PROVE LockTypeOK'
    BY <2>2 DEF Age
  <2>3. ASSUME Freeze PROVE LockTypeOK'
    <3>1. frozen' \in BOOLEAN
      BY <2>3, Zenon DEF Freeze
    <3>2. UNCHANGED <<dir, pc, late, calls, lockHistory, crashes, lates>>
      BY <2>3 DEF Freeze
    <3>3. QED
      BY <3>1, <3>2
  <2>4. QED
    BY <1>2, <2>1, <2>2, <2>3 DEF LockTime
<1>3. ASSUME NEW p \in Proc, Lock(p) PROVE LockTypeOK'
  BY <1>3, FileLockAssumption DEF Lock
<1>4. ASSUME NEW p \in Proc, Mkdir(p) PROVE LockTypeOK'
  <2>1. dir' \in [by : Proc \cup {None}, old : BOOLEAN]
    <3>1. [by |-> p, old |-> FALSE] \in [by : Proc \cup {None}, old : BOOLEAN]
      OBVIOUS
    <3>2. dir' = dir \/ dir' = [by |-> p, old |-> FALSE]
      BY <1>4, Zenon DEF Mkdir
    <3>3. QED
      BY <3>1, <3>2, Zenon
  <2>2. pc' \in [Proc -> {"idle", "mkdir", "inspect", "steal", "dead"} \cup Inside]
    BY <1>4 DEF Mkdir
  <2>3. UNCHANGED <<late, calls, frozen, lockHistory, crashes, lates>>
    BY <1>4 DEF Mkdir
  <2>4. QED
    BY <2>1, <2>2, <2>3
<1>5. ASSUME NEW p \in Proc, Inspect(p) PROVE LockTypeOK'
  BY <1>5 DEF Inspect
<1>6. ASSUME NEW p \in Proc, Steal(p) PROVE LockTypeOK'
  <2>1. robbed' \in BOOLEAN
    BY <1>6, Zenon DEF Steal
  <2>2. /\ dir' \in [by : Proc \cup {None}, old : BOOLEAN]
        /\ pc' \in [Proc -> {"idle", "mkdir", "inspect", "steal", "dead"} \cup Inside]
        /\ found' \in [Proc -> Proc \cup {None}]
    <3>1. dir' = dir \/ dir' = NoDir
      BY <1>6, Zenon DEF Steal
    <3>2. pc' = [pc EXCEPT ![p] = "mkdir"] /\ found' = [found EXCEPT ![p] = None]
      BY <1>6, Zenon DEF Steal
    <3>3. NoDir \in [by : Proc \cup {None}, old : BOOLEAN]
      OBVIOUS
    <3>4. dir' \in [by : Proc \cup {None}, old : BOOLEAN]
      BY <3>1, <3>3, Zenon
    <3>5. QED
      BY <3>2, <3>4
  <2>3. UNCHANGED <<late, calls, frozen, crashes, lates>>
    BY <1>6, Zenon DEF Steal
  <2>4. QED
    BY <2>1, <2>2, <2>3
<1>7. ASSUME NEW p \in Proc, Release(p) PROVE LockTypeOK'
  BY <1>7 DEF Release
<1>8. ASSUME NEW p \in Proc, Crash(p) PROVE LockTypeOK'
  BY <1>8 DEF Crash
<1>9. QED
  BY <1>1, <1>2, <1>3, <1>4, <1>5, <1>6, <1>7, <1>8 DEF LockNext, Acquire

\* A holder is robbed by one of two who found the lock of a third, killed.
LEMMA RobberyNeedsThree ==
  ASSUME LockInv, NEW p \in Proc, Steal(p), ~frozen, Robs(p)
  PROVE  Robbery
<1>1. /\ pc[p] = "steal" /\ dir.by \in Proc /\ pc[dir.by] = "held"
      /\ found[p] \in Proc /\ pc[found[p]] = "dead"
  BY DEF Steal, Robs, LockInv, LockTypeOK, StealInv
<1>2. crashes > 0
  BY <1>1 DEF LockInv, DeadInv
<1>3. p # dir.by /\ dir.by # found[p] /\ p # found[p]
  BY <1>1
<1>4. QED
  BY <1>1, <1>2, <1>3 DEF Robbery

\* Every step of the lock keeps the invariant.
LEMMA LockInvStep ==
  ASSUME LockInv, LockNext \/ UNCHANGED lockVars
  PROVE  LockInv'
<1> USE DEF lockHistory
<1>0. /\ LockTypeOK /\ DeadInv /\ OrphanInv /\ StealInv /\ HolderInv /\ RobbedInv
      /\ LockTypeOK' /\ None \notin Proc
  BY LockTypeStep, FileLockAssumption DEF LockInv
<1>1. CASE UNCHANGED lockVars
  BY <1>0, <1>1
     DEF lockVars, LockInv, DeadInv, OrphanInv, StealInv, HolderInv, RobbedInv, Robbery
<1> DEFINE Goal == DeadInv' /\ OrphanInv' /\ StealInv' /\ HolderInv' /\ RobbedInv'
<1> USE DEF RobbedInv, Robbery
<1>2. ASSUME NEW p \in Proc, Deadline(p) PROVE Goal
  BY <1>0, <1>2 DEF Deadline, DeadInv, OrphanInv, StealInv, HolderInv
<1>3. ASSUME Freeze PROVE Goal
  BY <1>0, <1>3 DEF Freeze, DeadInv, OrphanInv, StealInv, HolderInv
<1>4. ASSUME Age PROVE Goal
  <2>1. /\ dir.by # None /\ pc[dir.by] # "held"
        /\ dir'.by = dir.by /\ dir' # NoDir
        /\ UNCHANGED <<pc, frozen, found, robbed, crashes>>
    BY <1>0, <1>4 DEF Age, LockTypeOK, NoDir
  <2>2. QED
    BY <1>0, <2>1 DEF DeadInv, OrphanInv, StealInv, HolderInv
<1>5. ASSUME NEW p \in Proc, Lock(p) PROVE Goal
  BY <1>0, <1>5 DEF Lock, Goto, DeadInv, OrphanInv, StealInv, HolderInv, LockTypeOK
<1>6. ASSUME NEW p \in Proc, Mkdir(p) PROVE Goal
  BY <1>0, <1>6
     DEF Mkdir, Goto, DeadInv, OrphanInv, StealInv, HolderInv, LockTypeOK, NoDir
<1>7. ASSUME NEW p \in Proc, Inspect(p) PROVE Goal
  BY <1>0, <1>7
     DEF Inspect, Goto, DeadInv, OrphanInv, StealInv, HolderInv, LockTypeOK, NoDir
<1>8. ASSUME NEW p \in Proc, Steal(p) PROVE Goal
  <2>1. CASE frozen
    BY <1>0, <1>8, <2>1
       DEF Steal, Goto, DeadInv, OrphanInv, StealInv, HolderInv, LockTypeOK, NoDir
  <2>2. CASE ~frozen
    <3>1. /\ pc[p] = "steal" /\ found[p] \in Proc /\ pc[found[p]] = "dead"
          /\ dir' = NoDir /\ robbed' = (robbed \/ Robs(p))
          /\ pc' = [pc EXCEPT ![p] = "mkdir"] /\ found' = [found EXCEPT ![p] = None]
          /\ UNCHANGED <<frozen, crashes>>
      BY <1>0, <1>8, <2>2 DEF Steal, Goto, StealInv
    <3>2. DeadInv' /\ OrphanInv' /\ StealInv'
      BY <1>0, <3>1 DEF DeadInv, OrphanInv, StealInv, LockTypeOK, NoDir
    <3>3. HolderInv'
      BY <1>0, <3>1 DEF HolderInv, Robs, LockTypeOK
    <3>4. RobbedInv'
      BY <1>0, <1>8, <2>2, <3>1, RobberyNeedsThree DEF LockInv
    <3>5. QED
      BY <3>2, <3>3, <3>4
  <2>3. QED
    BY <2>1, <2>2
<1>9. ASSUME NEW p \in Proc, Release(p) PROVE Goal
  BY <1>0, <1>9
     DEF Release, Inside, Goto, DeadInv, OrphanInv, StealInv, HolderInv,
         LockTypeOK, NoDir
<1>10. ASSUME NEW p \in Proc, Crash(p) PROVE Goal
  BY <1>0, <1>10
     DEF Crash, Goto, DeadInv, OrphanInv, StealInv, HolderInv, LockTypeOK
<1>11. QED
  BY <1>0, <1>1, <1>2, <1>3, <1>4, <1>5, <1>6, <1>7, <1>8, <1>9, <1>10
     DEF LockInv, LockNext, LockTime, Acquire

\* A lock that was not robbed is held by one process at most.
LEMMA OneHolds ==
  ASSUME LockInv, ~robbed
  PROVE  /\ Cardinality({p \in Proc : pc[p] = "held"}) <= 1
         /\ \A p, q \in Proc : pc[p] = "held" /\ pc[q] = "held" => p = q
<1> DEFINE Held == {p \in Proc : pc[p] = "held"}
<1>1. \A p, q \in Held : p = q
  BY DEF LockInv, HolderInv
<1>2. Cardinality(Held) <= 1
  <2>1. CASE Held = {}
    BY <2>1, FS_EmptySet
  <2>2. CASE Held # {}
    <3>1. PICK p \in Held : TRUE
      BY <2>2
    <3>2. Held = {p}
      BY <1>1, <3>1
    <3>3. Cardinality({p}) <= 1
      BY FS_Singleton
    <3> HIDE DEF Held
    <3>4. QED
      BY <3>2, <3>3
  <2>3. QED
    BY <2>1, <2>2
<1>3. QED
  BY <1>1, <1>2

\* A step of the lock lets nobody in without it but the late and the frozen.
LEMMA ContendedStep ==
  ASSUME LockTypeOK, ContendedInv, LockNext \/ UNCHANGED lockVars
  PROVE  ContendedInv'
<1> USE DEF LockTypeOK, ContendedInv, Goto
<1>1. CASE UNCHANGED lockVars
  BY <1>1 DEF lockVars
<1>2. ASSUME NEW p \in Proc, Deadline(p) PROVE ContendedInv'
  BY <1>2 DEF Deadline
<1>3. ASSUME Age \/ Freeze PROVE ContendedInv'
  BY <1>3 DEF Age, Freeze
<1>4. ASSUME NEW p \in Proc, Lock(p) PROVE ContendedInv'
  BY <1>4 DEF Lock
<1>5. ASSUME NEW p \in Proc, Mkdir(p) PROVE ContendedInv'
  BY <1>5 DEF Mkdir
<1>6. ASSUME NEW p \in Proc, Inspect(p) PROVE ContendedInv'
  BY <1>6 DEF Inspect
<1>7. ASSUME NEW p \in Proc, Steal(p) PROVE ContendedInv'
  BY <1>7 DEF Steal
<1>8. ASSUME NEW p \in Proc, Release(p) \/ Crash(p) PROVE ContendedInv'
  BY <1>8 DEF Release, Crash
<1>9. QED
  BY <1>1, <1>2, <1>3, <1>4, <1>5, <1>6, <1>7, <1>8 DEF LockNext, LockTime, Acquire

\* The waits that ran out only grow in number, and what is frozen or robbed
\* stays so.
LEMMA BoundsGrow ==
  ASSUME LockTypeOK, LockNext \/ UNCHANGED lockVars
  PROVE  /\ lates' = 0 => lates = 0
         /\ robbed => robbed'
         /\ frozen => frozen'
<1> USE DEF LockTypeOK, LockNext, lockVars, lockHistory, LockTime, Age, Freeze, Deadline,
            Lock, Acquire, Mkdir, Inspect, Steal, Release, Crash
<1>1. lates' = 0 => lates = 0
  OBVIOUS
<1>2. (robbed => robbed') /\ (frozen => frozen')
  BY Zenon
<1>3. QED
  BY <1>1, <1>2

\* Only Release and Crash take a process out of the lock's inside.
LEMMA StaysInside ==
  ASSUME LockTypeOK, LockTime \/ \E p \in Proc : Acquire(p) \/ Lock(p),
         NEW q \in Proc, pc[q] \in Inside
  PROVE  pc'[q] \in Inside
BY DEF LockTypeOK, LockTime, Age, Freeze, Deadline, Lock, Acquire, Mkdir, Inspect, Steal,
       Goto, Inside

-----------------------------------------------------------------------------
\* Whoever has read the list is inside, with a change to make of it ...
CopyInv ==
  \A p \in Proc : copy[p] # NotRead => pc[p] \in Inside /\ ops[p] # NoOp

\* ... and the list is still what it read, where the lock is one.
Locked   == lates = 0 /\ ~robbed /\ ~misread
FreshInv ==
  Locked /\ ~frozen => \A p \in Proc : copy[p] # NotRead => copy[p] = file

WholeInv == Locked => file = applied

IInv == TypeOK /\ LockInv /\ ContendedInv /\ CopyInv /\ FreshInv /\ WholeInv

-----------------------------------------------------------------------------
\* What a change makes of a list is a list.
LEMMA ApplyType ==
  ASSUME NEW c \in Change \cup {NoOp}, NEW list \in [Session -> Label]
  PROVE  Apply(c, list) \in [Session -> Label]
BY DEF Apply, Change, NoOp, Label, Absent

\* Every step of the registry is one of the lock, or leaves the lock alone.
LEMMA StepsOfTheLock ==
  ASSUME Next \/ UNCHANGED vars
  PROVE  LockNext \/ UNCHANGED lockVars
BY DEF Next, vars, LockNext, Work, Read, Write, Leave, Die, Ask

\* Init is typed, and establishes the invariant.
LEMMA InvInit == Init => IInv
<1> SUFFICES ASSUME Init PROVE IInv
  OBVIOUS
<1>1. LockInv
  BY LockInvInit DEF Init
<1>2. TypeOK
  <2>1. file \in [Session -> Label] /\ applied = file
    BY DEF Init, Label
  <2>2. ops \in [Proc -> Change \cup {NoOp}]
    BY DEF Init
  <2>3. copy \in [Proc -> [Session -> Label] \cup {NotRead}]
    BY DEF Init
  <2>4. QED
    BY <1>1, <2>1, <2>2, <2>3 DEF TypeOK, LockInv, Init
<1>3. ContendedInv
  BY DEF Init, LockInit, ContendedInv
<1>4. CopyInv /\ FreshInv /\ WholeInv
  BY DEF Init, CopyInv, FreshInv, WholeInv
<1>5. QED
  BY <1>1, <1>2, <1>3, <1>4 DEF IInv

\* Types are kept.
LEMMA TypeStep ==
  ASSUME TypeOK, Next \/ UNCHANGED vars
  PROVE  TypeOK'
<1>1. LockTypeOK'
  BY StepsOfTheLock, LockTypeStep DEF TypeOK
<1> DEFINE Goal == /\ file' \in [Session -> Label] /\ applied' \in [Session -> Label]
                   /\ ops' \in [Proc -> Change \cup {NoOp}]
                   /\ copy' \in [Proc -> [Session -> Label] \cup {NotRead}]
                   /\ misread' \in BOOLEAN
<1>2. ASSUME UNCHANGED registry PROVE Goal
  BY <1>2 DEF TypeOK, registry
<1>3. ASSUME NEW p \in Proc, NEW c \in Change, Ask(p, c) PROVE Goal
  BY <1>3 DEF Ask, TypeOK
<1>4. ASSUME NEW p \in Proc, Read(p) PROVE Goal
  <2>1. PICK list \in {file, Empty} :
               copy' = [copy EXCEPT ![p] = list]
    BY <1>4 DEF Read
  <2>2. Empty \in [Session -> Label]
    BY DEF Empty, Label
  <2>3. list \in [Session -> Label]
    BY <2>1, <2>2 DEF TypeOK
  <2>4. misread' \in BOOLEAN
    BY <1>4, Zenon DEF Read
  <2>5. QED
    BY <1>4, <2>1, <2>3, <2>4 DEF Read, TypeOK
<1>5. ASSUME NEW p \in Proc, Write(p) PROVE Goal
  <2>1. ops[p] \in Change \cup {NoOp} /\ copy[p] \in [Session -> Label]
    BY <1>5 DEF Write, TypeOK
  <2>2. /\ Apply(ops[p], copy[p]) \in [Session -> Label]
        /\ Apply(ops[p], applied) \in [Session -> Label]
    BY <2>1, ApplyType DEF TypeOK
  <2>3. file' \in [Session -> Label] /\ applied' \in [Session -> Label]
    BY <1>5, <2>2 DEF Write, TypeOK
  <2>4. QED
    BY <1>5, <2>3 DEF Write, TypeOK
<1>6. ASSUME NEW p \in Proc, Die(p) PROVE Goal
  BY <1>6 DEF Die, TypeOK
<1>7. Goal
  BY <1>2, <1>3, <1>4, <1>5, <1>6, RegistryAssumption DEF Next, Work, Leave, vars, registry
<1>8. QED
  BY <1>1, <1>7 DEF TypeOK

\* What is read inside is written inside.
LEMMA CopyStep ==
  ASSUME TypeOK, CopyInv, Next \/ UNCHANGED vars
  PROVE  CopyInv'
<1>0. LockTypeOK
  BY DEF TypeOK
<1>1. ASSUME UNCHANGED registry, LockTime \/ \E p \in Proc : Acquire(p)
      PROVE  CopyInv'
  BY <1>0, <1>1, StaysInside DEF CopyInv, registry
<1>2. CASE UNCHANGED vars
  BY <1>2 DEF vars, lockVars, registry, CopyInv
<1>3. ASSUME NEW p \in Proc, NEW c \in Asks, Ask(p, c) PROVE CopyInv'
  <2>1. pc[p] = "idle" /\ Lock(p) /\ UNCHANGED copy /\ ops' = [ops EXCEPT ![p] = c]
    BY <1>3 DEF Ask, Lock
  <2>2. copy[p] = NotRead
    BY <2>1 DEF CopyInv, Inside
  <2>3. ASSUME NEW q \in Proc, copy[q] # NotRead PROVE pc'[q] \in Inside /\ ops'[q] = ops[q]
    BY <1>0, <2>1, <2>2, <2>3, StaysInside DEF CopyInv, TypeOK
  <2>4. QED
    BY <2>1, <2>3 DEF CopyInv
<1>4. ASSUME NEW p \in Proc, Read(p) PROVE CopyInv'
  BY <1>4 DEF Read, CopyInv, TypeOK, lockVars
<1>5. ASSUME NEW p \in Proc, Write(p) PROVE CopyInv'
  BY <1>5 DEF Write, CopyInv, TypeOK, lockVars
<1>6. ASSUME NEW p \in Proc, Leave(p) PROVE CopyInv'
  BY <1>0, <1>6 DEF Leave, registry, Release, Goto, CopyInv, LockTypeOK
<1>7. ASSUME NEW p \in Proc, Die(p) PROVE CopyInv'
  BY <1>0, <1>7 DEF Die, Crash, Goto, CopyInv, TypeOK, LockTypeOK
<1>8. QED
  BY <1>1, <1>2, <1>3, <1>4, <1>5, <1>6, <1>7, Zenon DEF Next, Work

\* Nobody writes the list between another's reading it and writing it back, so
\* that what is written back is the list with one change more.
LEMMA FreshStep ==
  ASSUME IInv, Next \/ UNCHANGED vars
  PROVE  FreshInv' /\ WholeInv'
<1>0. /\ TypeOK /\ LockTypeOK /\ LockInv /\ ContendedInv /\ CopyInv
      /\ FreshInv /\ WholeInv
  BY DEF IInv, TypeOK
<1> SUFFICES ASSUME Locked'
             PROVE  /\ file' = applied'
                    /\ ~frozen' => \A q \in Proc : copy'[q] # NotRead => copy'[q] = file'
  BY DEF FreshInv, WholeInv
<1> USE DEF registry
<1>1a. misread => misread'
  BY Zenon DEF Next, vars, Work, Read, Write, Leave, Die, Ask
<1>1. Locked /\ ~robbed /\ file = applied /\ lates = 0
  BY <1>0, <1>1a, StepsOfTheLock, BoundsGrow DEF Locked, WholeInv
<1>2. ~frozen' => ~frozen
  BY <1>0, StepsOfTheLock, BoundsGrow
<1> DEFINE Goal == /\ file' = applied'
                   /\ ~frozen' => \A q \in Proc : copy'[q] # NotRead => copy'[q] = file'
<1>3. ASSUME UNCHANGED <<file, applied>>,
             \A q \in Proc : copy'[q] = copy[q] \/ copy'[q] = NotRead
      PROVE  Goal
  BY <1>0, <1>1, <1>2, <1>3 DEF FreshInv
<1>4. ASSUME UNCHANGED registry PROVE Goal
  BY <1>3, <1>4 DEF registry
<1>5. ASSUME NEW p \in Proc, NEW c \in Change, Ask(p, c) PROVE Goal
  BY <1>3, <1>5 DEF Ask
<1>6. ASSUME NEW p \in Proc, Read(p) PROVE Goal
  <2>1. copy' = [copy EXCEPT ![p] = file] /\ UNCHANGED <<file, applied>>
    BY <1>6 DEF Read, Locked
  <2>2. QED
    BY <1>0, <1>1, <1>2, <2>1 DEF FreshInv, TypeOK
<1>7. ASSUME NEW p \in Proc, Write(p) PROVE Goal
  <2>1. /\ pc[p] \in Inside /\ copy[p] # NotRead
        /\ copy' = [copy EXCEPT ![p] = NotRead]
        /\ UNCHANGED lockVars
    BY <1>7 DEF Write
  <2>2. CASE UNCHANGED <<file, applied>>
    BY <1>0, <1>3, <2>1, <2>2 DEF TypeOK
  <2>3. CASE /\ ~frozen
             /\ file' = Apply(ops[p], copy[p]) /\ applied' = Apply(ops[p], applied)
    <3>1. copy[p] = file
      BY <1>0, <1>1, <2>1, <2>3 DEF FreshInv
    <3>2. file' = applied'
      BY <1>1, <2>3, <3>1
    <3>3. ASSUME NEW q \in Proc, q # p PROVE copy[q] = NotRead
      <4>1. pc[p] = "held"
        BY <1>0, <1>1, <2>1, <2>3 DEF ContendedInv, Inside
      <4>2. SUFFICES ASSUME copy[q] # NotRead PROVE FALSE
        OBVIOUS
      <4>3. pc[q] = "held"
        BY <1>0, <1>1, <2>3, <4>2 DEF ContendedInv, CopyInv, Inside
      <4>4. QED
        BY <1>0, <1>1, <3>3, <4>1, <4>3, OneHolds
    <3>4. \A q \in Proc : copy'[q] = NotRead
      BY <1>0, <2>1, <3>3 DEF TypeOK
    <3>5. QED
      BY <3>2, <3>4
  <2>4. QED
    BY <1>7, <2>2, <2>3 DEF Write
<1>8. ASSUME NEW p \in Proc, Die(p) PROVE Goal
  BY <1>0, <1>3, <1>8 DEF Die, TypeOK
<1>9. QED
  BY <1>4, <1>5, <1>6, <1>7, <1>8, RegistryAssumption
     DEF Next, Work, Leave, vars, registry

\* Every step keeps the invariant.
LEMMA InvStep ==
  ASSUME IInv, [Next]_vars
  PROVE  IInv'
<1>1. TypeOK' /\ LockInv'
  BY TypeStep, StepsOfTheLock, LockInvStep DEF IInv
<1>2. ContendedInv' /\ CopyInv'
  BY ContendedStep, CopyStep, StepsOfTheLock DEF IInv, TypeOK
<1>3. FreshInv' /\ WholeInv'
  BY FreshStep
<1>4. QED
  BY <1>1, <1>2, <1>3 DEF IInv

\* The invariant always holds.
LEMMA InvHolds == Spec => []IInv
<1>1. IInv /\ [Next]_vars => IInv'
  BY InvStep
<1>2. QED
  BY <1>1, InvInit, PTL DEF Spec

-----------------------------------------------------------------------------
\* Every variable keeps its type.
THEOREM RegistryTypes == Spec => []TypeOK
<1>1. IInv => TypeOK
  BY DEF IInv
<1>2. QED
  BY <1>1, InvHolds, PTL

\* file-lock.ts:36-38: whatever number of processes ask for the lock, are killed
\* or give up waiting, one at most holds it, until a takeover moves the lock of
\* a living holder ...
THEOREM LockExcludes == Spec => []Exclusive
<1>1. IInv => Exclusive
  BY OneHolds DEF IInv, Exclusive
<1>2. QED
  BY <1>1, InvHolds, PTL

\* ... which takes a process that was killed and two more behind the lock it
\* left.  Two processes exclude each other whatever happens, and so does any
\* number of them until one is killed.
THEOREM RobberyTakesThree == Spec => [](robbed => Robbery)
<1>1. IInv => (robbed => Robbery)
  BY DEF IInv, LockInv, RobbedInv
<1>2. QED
  BY <1>1, InvHolds, PTL

\* registry.ts, "AND ACROSS PROCESSES": whatever the processes ask for and
\* whichever is killed, the list is what the changes written so far amount to,
\* one by one, as long as nobody waited so long that it went ahead without the
\* lock, was robbed of it, or failed to read the list that is there.
THEOREM NoUpdateIsLost == Spec => []NoLostUpdate
<1>1. IInv => NoLostUpdate
  BY DEF IInv, WholeInv, Locked, NoLostUpdate
<1>2. QED
  BY <1>1, InvHolds, PTL
=============================================================================
