--------------------------- MODULE TaskStore_proofs ---------------------------
(***************************************************************************)
(* Proofs about TaskStore: the document is a TaskBook, whose changes are   *)
(* made one at a time, no task is two callers', and no title is two        *)
(* tasks'.  As in the properties, what happens once somebody goes on       *)
(* without the lock, or is robbed of it, is excused.                       *)
(***************************************************************************)
EXTENDS TaskStore, FileLockInvariant, FiniteSetTheorems, TLAPS

-----------------------------------------------------------------------------
(***************************************************************************)
(* The lock.                                                               *)
(***************************************************************************)

\* The invariant holds at the start.
LEMMA LockInvInit == LockInit => LockInv
<1> SUFFICES ASSUME LockInit PROVE LockInv
  OBVIOUS
<1>1. LockTypeOK
  <2>1. dir \in [by : Proc \cup {None}, old : BOOLEAN]
    BY DEF LockInit, NoDir
  <2>2. /\ pc \in [Proc -> {"idle", "mkdir", "inspect", "steal", "dead"} \cup Inside]
        /\ calls \in [Proc -> 0..Calls] /\ crashes \in Nat /\ lates \in Nat
        /\ found \in [Proc -> Proc \cup {None}]
    BY FileLockAssumption DEF LockInit
  <2>3. late \in [Proc -> BOOLEAN]
    BY Zenon DEF LockInit
  <2>4. frozen \in BOOLEAN /\ robbed \in BOOLEAN
    BY Zenon DEF LockInit
  <2>5. QED
    BY <2>1, <2>2, <2>3, <2>4 DEF LockTypeOK
<1>2. QED
  BY <1>1, FileLockAssumption
     DEF LockInit, LockInv, DeadInv, OrphanInv, StealInv, HolderInv, RobbedInv, NoDir

\* Every step keeps the types.
LEMMA LockTypeStep ==
  ASSUME LockTypeOK, LockNext \/ UNCHANGED lockVars
  PROVE  LockTypeOK'
<1> USE DEF LockTypeOK, Goto, Inside, NoDir, lockHistory
<1>1. CASE UNCHANGED lockVars
  BY <1>1 DEF lockVars
<1>2. CASE LockTime
  <2>1. ASSUME NEW p \in Proc, Deadline(p) PROVE LockTypeOK'
    BY <2>1 DEF Deadline
  <2>2. ASSUME Age PROVE LockTypeOK'
    BY <2>2 DEF Age
  <2>3. ASSUME Freeze PROVE LockTypeOK'
    <3>1. frozen' \in BOOLEAN
      BY <2>3, Zenon DEF Freeze
    <3>2. UNCHANGED <<dir, pc, late, calls, lockHistory, crashes, lates>>
      BY <2>3 DEF Freeze
    <3>3. QED
      BY <3>1, <3>2
  <2>4. QED
    BY <1>2, <2>1, <2>2, <2>3 DEF LockTime
<1>3. ASSUME NEW p \in Proc, Lock(p) PROVE LockTypeOK'
  BY <1>3, FileLockAssumption DEF Lock
<1>4. ASSUME NEW p \in Proc, Mkdir(p) PROVE LockTypeOK'
  <2>1. dir' \in [by : Proc \cup {None}, old : BOOLEAN]
    <3>1. [by |-> p, old |-> FALSE] \in [by : Proc \cup {None}, old : BOOLEAN]
      OBVIOUS
    <3>2. dir' = dir \/ dir' = [by |-> p, old |-> FALSE]
      BY <1>4, Zenon DEF Mkdir
    <3>3. QED
      BY <3>1, <3>2, Zenon
  <2>2. pc' \in [Proc -> {"idle", "mkdir", "inspect", "steal", "dead"} \cup Inside]
    BY <1>4 DEF Mkdir
  <2>3. UNCHANGED <<late, calls, frozen, lockHistory, crashes, lates>>
    BY <1>4 DEF Mkdir
  <2>4. QED
    BY <2>1, <2>2, <2>3
<1>5. ASSUME NEW p \in Proc, Inspect(p) PROVE LockTypeOK'
  BY <1>5 DEF Inspect
<1>6. ASSUME NEW p \in Proc, Steal(p) PROVE LockTypeOK'
  <2>1. robbed' \in BOOLEAN
    BY <1>6, Zenon DEF Steal
  <2>2. /\ dir' \in [by : Proc \cup {None}, old : BOOLEAN]
        /\ pc' \in [Proc -> {"idle", "mkdir", "inspect", "steal", "dead"} \cup Inside]
        /\ found' \in [Proc -> Proc \cup {None}]
    <3>1. dir' = dir \/ dir' = NoDir
      BY <1>6, Zenon DEF Steal
    <3>2. pc' = [pc EXCEPT ![p] = "mkdir"] /\ found' = [found EXCEPT ![p] = None]
      BY <1>6, Zenon DEF Steal
    <3>3. NoDir \in [by : Proc \cup {None}, old : BOOLEAN]
      OBVIOUS
    <3>4. dir' \in [by : Proc \cup {None}, old : BOOLEAN]
      BY <3>1, <3>3, Zenon
    <3>5. QED
      BY <3>2, <3>4
  <2>3. UNCHANGED <<late, calls, frozen, crashes, lates>>
    BY <1>6, Zenon DEF Steal
  <2>4. QED
    BY <2>1, <2>2, <2>3
<1>7. ASSUME NEW p \in Proc, Release(p) PROVE LockTypeOK'
  BY <1>7 DEF Release
<1>8. ASSUME NEW p \in Proc, Crash(p) PROVE LockTypeOK'
  BY <1>8 DEF Crash
<1>9. QED
  BY <1>1, <1>2, <1>3, <1>4, <1>5, <1>6, <1>7, <1>8 DEF LockNext, Acquire

\* A holder is robbed by one of two who found the lock of a third, killed.
LEMMA RobberyNeedsThree ==
  ASSUME LockInv, NEW p \in Proc, Steal(p), ~frozen, Robs(p)
  PROVE  Robbery
<1>1. /\ pc[p] = "steal" /\ dir.by \in Proc /\ pc[dir.by] = "held"
      /\ found[p] \in Proc /\ pc[found[p]] = "dead"
  BY DEF Steal, Robs, LockInv, LockTypeOK, StealInv
<1>2. crashes > 0
  BY <1>1 DEF LockInv, DeadInv
<1>3. p # dir.by /\ dir.by # found[p] /\ p # found[p]
  BY <1>1
<1>4. QED
  BY <1>1, <1>2, <1>3 DEF Robbery

\* Every step of the lock keeps the invariant.
LEMMA LockInvStep ==
  ASSUME LockInv, LockNext \/ UNCHANGED lockVars
  PROVE  LockInv'
<1> USE DEF lockHistory
<1>0. /\ LockTypeOK /\ DeadInv /\ OrphanInv /\ StealInv /\ HolderInv /\ RobbedInv
      /\ LockTypeOK' /\ None \notin Proc
  BY LockTypeStep, FileLockAssumption DEF LockInv
<1>1. CASE UNCHANGED lockVars
  BY <1>0, <1>1
     DEF lockVars, LockInv, DeadInv, OrphanInv, StealInv, HolderInv, RobbedInv, Robbery
<1> DEFINE Goal == DeadInv' /\ OrphanInv' /\ StealInv' /\ HolderInv' /\ RobbedInv'
<1> USE DEF RobbedInv, Robbery
<1>2. ASSUME NEW p \in Proc, Deadline(p) PROVE Goal
  BY <1>0, <1>2 DEF Deadline, DeadInv, OrphanInv, StealInv, HolderInv
<1>3. ASSUME Freeze PROVE Goal
  BY <1>0, <1>3 DEF Freeze, DeadInv, OrphanInv, StealInv, HolderInv
<1>4. ASSUME Age PROVE Goal
  <2>1. /\ dir.by # None /\ pc[dir.by] # "held"
        /\ dir'.by = dir.by /\ dir' # NoDir
        /\ UNCHANGED <<pc, frozen, found, robbed, crashes>>
    BY <1>0, <1>4 DEF Age, LockTypeOK, NoDir
  <2>2. QED
    BY <1>0, <2>1 DEF DeadInv, OrphanInv, StealInv, HolderInv
<1>5. ASSUME NEW p \in Proc, Lock(p) PROVE Goal
  BY <1>0, <1>5 DEF Lock, Goto, DeadInv, OrphanInv, StealInv, HolderInv, LockTypeOK
<1>6. ASSUME NEW p \in Proc, Mkdir(p) PROVE Goal
  BY <1>0, <1>6
     DEF Mkdir, Goto, DeadInv, OrphanInv, StealInv, HolderInv, LockTypeOK, NoDir
<1>7. ASSUME NEW p \in Proc, Inspect(p) PROVE Goal
  BY <1>0, <1>7
     DEF Inspect, Goto, DeadInv, OrphanInv, StealInv, HolderInv, LockTypeOK, NoDir
<1>8. ASSUME NEW p \in Proc, Steal(p) PROVE Goal
  <2>1. CASE frozen
    BY <1>0, <1>8, <2>1
       DEF Steal, Goto, DeadInv, OrphanInv, StealInv, HolderInv, LockTypeOK, NoDir
  <2>2. CASE ~frozen
    <3>1. /\ pc[p] = "steal" /\ found[p] \in Proc /\ pc[found[p]] = "dead"
          /\ dir' = NoDir /\ robbed' = (robbed \/ Robs(p))
          /\ pc' = [pc EXCEPT ![p] = "mkdir"] /\ found' = [found EXCEPT ![p] = None]
          /\ UNCHANGED <<frozen, crashes>>
      BY <1>0, <1>8, <2>2 DEF Steal, Goto, StealInv
    <3>2. DeadInv' /\ OrphanInv' /\ StealInv'
      BY <1>0, <3>1 DEF DeadInv, OrphanInv, StealInv, LockTypeOK, NoDir
    <3>3. HolderInv'
      BY <1>0, <3>1 DEF HolderInv, Robs, LockTypeOK
    <3>4. RobbedInv'
      BY <1>0, <1>8, <2>2, <3>1, RobberyNeedsThree DEF LockInv
    <3>5. QED
      BY <3>2, <3>3, <3>4
  <2>3. QED
    BY <2>1, <2>2
<1>9. ASSUME NEW p \in Proc, Release(p) PROVE Goal
  BY <1>0, <1>9
     DEF Release, Inside, Goto, DeadInv, OrphanInv, StealInv, HolderInv,
         LockTypeOK, NoDir
<1>10. ASSUME NEW p \in Proc, Crash(p) PROVE Goal
  BY <1>0, <1>10
     DEF Crash, Goto, DeadInv, OrphanInv, StealInv, HolderInv, LockTypeOK
<1>11. QED
  BY <1>0, <1>1, <1>2, <1>3, <1>4, <1>5, <1>6, <1>7, <1>8, <1>9, <1>10
     DEF LockInv, LockNext, LockTime, Acquire

\* A lock that was not robbed is held by one process at most.
LEMMA OneHolds ==
  ASSUME LockInv, ~robbed
  PROVE  /\ Cardinality({p \in Proc : pc[p] = "held"}) <= 1
         /\ \A p, q \in Proc : pc[p] = "held" /\ pc[q] = "held" => p = q
<1> DEFINE Held == {p \in Proc : pc[p] = "held"}
<1>1. \A p, q \in Held : p = q
  BY DEF LockInv, HolderInv
<1>2. Cardinality(Held) <= 1
  <2>1. CASE Held = {}
    BY <2>1, FS_EmptySet
  <2>2. CASE Held # {}
    <3>1. PICK p \in Held : TRUE
      BY <2>2
    <3>2. Held = {p}
      BY <1>1, <3>1
    <3>3. Cardinality({p}) <= 1
      BY FS_Singleton
    <3> HIDE DEF Held
    <3>4. QED
      BY <3>2, <3>3
  <2>3. QED
    BY <2>1, <2>2
<1>3. QED
  BY <1>1, <1>2

\* A step of the lock lets nobody in without it but the late and the frozen.
LEMMA ContendedStep ==
  ASSUME LockTypeOK, ContendedInv, LockNext \/ UNCHANGED lockVars
  PROVE  ContendedInv'
<1> USE DEF LockTypeOK, ContendedInv, Goto
<1>1. CASE UNCHANGED lockVars
  BY <1>1 DEF lockVars
<1>2. ASSUME NEW p \in Proc, Deadline(p) PROVE ContendedInv'
  BY <1>2 DEF Deadline
<1>3. ASSUME Age \/ Freeze PROVE ContendedInv'
  BY <1>3 DEF Age, Freeze
<1>4. ASSUME NEW p \in Proc, Lock(p) PROVE ContendedInv'
  BY <1>4 DEF Lock
<1>5. ASSUME NEW p \in Proc, Mkdir(p) PROVE ContendedInv'
  BY <1>5 DEF Mkdir
<1>6. ASSUME NEW p \in Proc, Inspect(p) PROVE ContendedInv'
  BY <1>6 DEF Inspect
<1>7. ASSUME NEW p \in Proc, Steal(p) PROVE ContendedInv'
  BY <1>7 DEF Steal
<1>8. ASSUME NEW p \in Proc, Release(p) \/ Crash(p) PROVE ContendedInv'
  BY <1>8 DEF Release, Crash
<1>9. QED
  BY <1>1, <1>2, <1>3, <1>4, <1>5, <1>6, <1>7, <1>8 DEF LockNext, LockTime, Acquire

\* The waits that ran out only grow in number, and what is frozen or robbed
\* stays so.
LEMMA BoundsGrow ==
  ASSUME LockTypeOK, LockNext \/ UNCHANGED lockVars
  PROVE  /\ lates' = 0 => lates = 0
         /\ robbed => robbed'
         /\ frozen => frozen'
<1> USE DEF LockTypeOK, LockNext, lockVars, lockHistory, LockTime, Age, Freeze, Deadline,
            Lock, Acquire, Mkdir, Inspect, Steal, Release, Crash
<1>1. lates' = 0 => lates = 0
  OBVIOUS
<1>2. (robbed => robbed') /\ (frozen => frozen')
  BY Zenon
<1>3. QED
  BY <1>1, <1>2

\* Only Release and Crash take a process out of the lock's inside.
LEMMA StaysInside ==
  ASSUME LockTypeOK, LockTime \/ \E p \in Proc : Acquire(p) \/ Lock(p),
         NEW q \in Proc, pc[q] \in Inside
  PROVE  pc'[q] \in Inside
BY DEF LockTypeOK, LockTime, Age, Freeze, Deadline, Lock, Acquire, Mkdir, Inspect, Steal,
       Goto, Inside

-----------------------------------------------------------------------------
(***************************************************************************)
(* The book.                                                               *)
(***************************************************************************)

\* A changed book is a book.
LEMMA ApplyType ==
  ASSUME NEW c \in Book!Change, NEW b \in Book!Books
  PROVE  Book!Apply(c, b) \in Book!Books
<1> USE DEF Book!Books, Book!EmptyBook
<1> DEFINE claimed(by) == [b EXCEPT !.claim[c.on] = by]
<1>0. /\ c.by \in Proc
      /\ c.do \in {"claim", "takeover", "release", "mint", "lift", "remove"} => c.on \in Task
      /\ c.do \in {"claim", "takeover", "release", "mint", "lift", "remove",
                   "join", "drop", "comment"}
      /\ c.do \in {"join", "drop"} => c.on \in Subtask
  BY TaskStoreAssumption DEF Book!Change
<1>1. \A by \in Proc \cup {None} : claimed(by) \in Book!Books
  OBVIOUS
<1>2. CASE c.do \in {"claim", "takeover", "release"}
  BY <1>0, <1>1, <1>2 DEF Book!Apply
<1>3. CASE c.do = "mint"
  BY <1>0, <1>1, <1>3 DEF Book!Apply
<1>4. CASE c.do = "lift"
  BY <1>0, <1>4 DEF Book!Apply
<1>5. CASE c.do = "remove"
  <2> DEFINE left == [claimed(None) EXCEPT !.tasks = @ \ {c.on}, !.buried = @ \cup {c.on}]
  <2>1. left \in Book!Books
    BY <1>0, <1>1, <1>5
  <2>2. [left EXCEPT !.subs = {}, !.members = {}, !.said = [p \in Proc |-> 0]] \in Book!Books
    BY <2>1
  <2>3. QED
    BY <1>5, <2>1, <2>2 DEF Book!Apply
<1>6. CASE c.do = "join"
  BY <1>0, <1>6 DEF Book!Apply
<1>7. CASE c.do = "drop"
  BY <1>0, <1>7 DEF Book!Apply
<1>8. CASE c.do = "comment"
  BY <1>0, <1>8 DEF Book!Apply
<1>9. QED
  BY <1>0, <1>2, <1>3, <1>4, <1>5, <1>6, <1>7, <1>8

\* What everybody has been told is of callers, whatever the change.
LEMMA ToldType ==
  ASSUME NEW c \in Book!Change, told \in [Task -> SUBSET Proc]
  PROVE  Book!Told(c) \in [Task -> SUBSET Proc]
BY DEF Book!Change, Book!Told

\* A lease that runs out hinders no change.
LEMMA LapseHinders ==
  ASSUME NEW c, NEW b, lapsed \subseteq lapsed', Book!Writes(c, b)
  PROVE  Book!Writes(c, b)'
BY DEF Book!Writes, Book!HeldByOther

-----------------------------------------------------------------------------
(***************************************************************************)
(* Sequences of changes.                                                   *)
(***************************************************************************)

\* SetToSeq lists the elements of a finite set, each once.
LEMMA SetToSeqLists ==
  ASSUME NEW S, IsFiniteSet(S)
  PROVE  /\ SetToSeq(S) \in [1..Cardinality(S) -> S]
         /\ Cardinality(S) \in Nat
         /\ \A i, j \in 1..Cardinality(S) : SetToSeq(S)[i] = SetToSeq(S)[j] => i = j
<1> DEFINE D == 1..Cardinality(S)
<1>1. Cardinality(S) \in Nat /\ ExistsBijection(D, S)
  BY FS_CardinalityType
<1>2. PICK f \in [D -> S] : IsInjective(f)
  BY <1>1 DEF ExistsBijection, Bijection, Injection
<1>3. SetToSeq(S) \in [D -> S] /\ IsInjective(SetToSeq(S))
  BY <1>2 DEF SetToSeq
<1>4. QED
  BY <1>1, <1>3 DEF IsInjective

\* SetToSeq orders a finite set.
LEMMA SetToSeqIsSeq ==
  ASSUME NEW S, IsFiniteSet(S)
  PROVE  /\ SetToSeq(S) \in Seq(S)
         /\ \A i, j \in DOMAIN SetToSeq(S) : SetToSeq(S)[i] = SetToSeq(S)[j] => i = j
<1>1. PICK n \in Nat : n = Cardinality(S)
  BY SetToSeqLists
<1>2. PICK f \in [1..n -> S] : f = SetToSeq(S)
  BY <1>1, SetToSeqLists
<1>3. f \in Seq(S) /\ DOMAIN f = 1..n
  BY <1>2
<1>4. QED
  BY <1>1, <1>2, <1>3, SetToSeqLists, Zenon

\* The changes that mint, and those that lift, are finitely many.
LEMMA LegacyImage ==
  ASSUME NEW L \in SUBSET Legacy, NEW f, f = [l \in L |-> f[l]]
  PROVE  IsFiniteSet({f[l] : l \in L})
<1>1. IsFiniteSet(L)
  BY TaskStoreAssumption, FS_Subset
<1>2. f \in Surjection(L, {f[l] : l \in L})
  BY DEF Surjection
<1>3. QED
  BY <1>1, <1>2, FS_Surjection


\* Mints lists changes.
LEMMA MintsShape ==
  ASSUME NEW p \in Proc
  PROVE  Mints(p) \in Seq(Book!Change)
<1> DEFINE f == [l \in Missing(file) |-> [do |-> "mint", by |-> p, on |-> l]]
           S == {f[l] : l \in Missing(file)}
<1>1. Missing(file) \in SUBSET Legacy
  BY DEF Missing
<1>2. IsFiniteSet(S)
  BY <1>1, LegacyImage
<1>3. S = {[do |-> "mint", by |-> p, on |-> l] : l \in Missing(file)}
  OBVIOUS
<1>4. PICK s : s = SetToSeq(S)
  OBVIOUS
<1>5. s = Mints(p)
  BY <1>3, <1>4 DEF Mints
<1>6. s \in Seq(S)
  BY <1>2, <1>4, SetToSeqIsSeq
<1>7. S \subseteq Book!Change
  BY <1>1, TaskStoreAssumption DEF Book!Change
<1>8. QED
  BY <1>5, <1>6, <1>7

\* A creation lists changes.
LEMMA CreationShape ==
  ASSUME NEW h \in Handler, NEW b, h.do = "create"
  PROVE  Creation(h, b) \in Seq(Book!Change)
<1>1. h.on \in Task /\ h.by \in Proc
      /\ DOMAIN h = {"do", "by", "on"} /\ h = [do |-> "create", by |-> h.by, on |-> h.on]
  BY DEF Handler
<1> DEFINE L == {k \in Legacy : Title[k] = Title[h.on]}
           f == [l \in L |-> [do |-> "lift", by |-> h.by, on |-> l]]
           S == {f[l] : l \in L}
           m == [do |-> "mint", by |-> h.by, on |-> h.on]
<1>2. IsFiniteSet(S)
  <2>1. L \in SUBSET Legacy
    OBVIOUS
  <2> HIDE DEF L
  <2>2. QED
    BY <2>1, LegacyImage
<1>3. S = {[do |-> "lift", by |-> h.by, on |-> l] : l \in L}
  OBVIOUS
<1>4. m = [h EXCEPT !.do = "mint"]
  BY <1>1
<1>5. S \subseteq Book!Change /\ m \in Book!Change
  BY <1>1, TaskStoreAssumption DEF Book!Change
<1>6. PICK s : s = SetToSeq(S)
  OBVIOUS
<1>7. s \in Seq(S)
  BY <1>2, <1>6, SetToSeqIsSeq
<1>8. s \in Seq(Book!Change)
  BY <1>5, <1>7
<1> HIDE DEF S
<1>9. CASE \E t \in b.tasks : Title[t] = Title[h.on]
  <2>1. Creation(h, b) = <<>>
    BY <1>9 DEF Creation
  <2>2. QED
    BY <2>1
<1>10. CASE ~\E t \in b.tasks : Title[t] = Title[h.on]
  <2>1. Creation(h, b) = Append(s, m)
    BY <1>3, <1>4, <1>6, <1>10 DEF Creation
  <2> HIDE DEF m
  <2>2. QED
    BY <1>5, <1>8, <2>1
<1>11. QED
  BY <1>9, <1>10

\* What a minting makes are names that no task carries.
LEMMA MintsMake ==
  ASSUME NEW p \in Proc
  PROVE  Made(Mints(p)) \subseteq Missing(file)
<1> DEFINE f == [l \in Missing(file) |-> [do |-> "mint", by |-> p, on |-> l]]
           S == {f[l] : l \in Missing(file)}
<1>1. Missing(file) \in SUBSET Legacy
  BY DEF Missing
<1>2. IsFiniteSet(S)
  BY <1>1, LegacyImage
<1>3. S = {[do |-> "mint", by |-> p, on |-> l] : l \in Missing(file)}
  OBVIOUS
<1>4. PICK s : s = SetToSeq(S)
  OBVIOUS
<1>5. s = Mints(p)
  BY <1>3, <1>4 DEF Mints
<1>6. s \in Seq(S)
  BY <1>2, <1>4, SetToSeqIsSeq
<1>7. \A x \in S : x.on \in Missing(file)
  OBVIOUS
<1> HIDE DEF S
<1>8. \A i \in DOMAIN s : s[i].on \in Missing(file)
  BY <1>6, <1>7
<1>9. QED
  BY <1>5, <1>8 DEF Made

\* A creation makes the task it is asked for, if none has its title.
LEMMA CreationMakes ==
  ASSUME NEW h \in Handler, NEW b, h.do = "create"
  PROVE  \A t \in Made(Creation(h, b)) : t = h.on /\ \A u \in b.tasks : Title[u] # Title[t]
<1> DEFINE L == {k \in Legacy : Title[k] = Title[h.on]}
           f == [l \in L |-> [do |-> "lift", by |-> h.by, on |-> l]]
           S == {f[l] : l \in L}
           m == [h EXCEPT !.do = "mint"]
<1>1. m.do = "mint" /\ m.on = h.on
  BY DEF Handler
<1>2. IsFiniteSet(S)
  <2>1. L \in SUBSET Legacy
    OBVIOUS
  <2> HIDE DEF L
  <2>2. QED
    BY <2>1, LegacyImage
<1>3. S = {[do |-> "lift", by |-> h.by, on |-> l] : l \in L}
  OBVIOUS
<1>4. PICK s : s = SetToSeq(S)
  OBVIOUS
<1>5. s \in Seq(S)
  BY <1>2, <1>4, SetToSeqIsSeq
<1>6. \A x \in S : x.do = "lift"
  OBVIOUS
<1> HIDE DEF S, m
<1>7. CASE \E t \in b.tasks : Title[t] = Title[h.on]
  <2>1. Creation(h, b) = <<>>
    BY <1>7 DEF Creation
  <2>2. QED
    BY <2>1 DEF Made
<1>8. CASE ~\E t \in b.tasks : Title[t] = Title[h.on]
  <2>1. Creation(h, b) = Append(s, m)
    BY <1>3, <1>4, <1>8 DEF Creation, m
  <2>2. \A i \in DOMAIN Append(s, m) : Append(s, m)[i].do = "mint" => Append(s, m)[i].on = h.on
    <3>1. \A i \in DOMAIN Append(s, m) : Append(s, m)[i] = m \/ Append(s, m)[i] \in S
      BY <1>5
    <3>2. "lift" # "mint"
      OBVIOUS
    <3>3. QED
      BY <1>1, <1>6, <3>1, <3>2
  <2>3. QED
    BY <1>8, <2>1, <2>2 DEF Made
<1>9. QED
  BY <1>7, <1>8

\* So does every handler.
LEMMA PlanMakes ==
  ASSUME NEW h \in Handler, NEW b
  PROVE  \A t \in Made(Plan(h, b)) : t = h.on /\ \A u \in b.tasks : Title[u] # Title[t]
<1>1. CASE h.do = "create"
  <2>1. Plan(h, b) = Creation(h, b)
    BY <1>1 DEF Plan
  <2>2. QED
    BY <1>1, <2>1, CreationMakes
<1>2. CASE h.do # "create"
  <2>1. h.do # "mint"
    BY DEF Handler
  <2>2. PICK s : s = Plan(h, b)
    OBVIOUS
  <2>3. s = <<h>> \/ s = <<>>
    BY <1>2, <2>2, Zenon DEF Plan
  <2>4. Made(<<h>>) = {} /\ Made(<<>>) = {}
    BY <2>1 DEF Made
  <2>5. QED
    BY <2>2, <2>3, <2>4
<1>3. QED
  BY <1>1, <1>2

\* The rest of a list makes no more than the list.
LEMMA RestMakes ==
  ASSUME NEW s \in Seq(Book!Change), s # <<>>
  PROVE  Made(Tail(s)) \subseteq Made(s) /\ Made(<<>>) = {}
<1>1. ASSUME NEW i \in DOMAIN Tail(s) PROVE i + 1 \in DOMAIN s /\ Tail(s)[i] = s[i + 1]
  <2>1. Len(s) \in Nat /\ Len(s) # 0 /\ DOMAIN s = 1..Len(s)
    OBVIOUS
  <2>2. Len(Tail(s)) = Len(s) - 1 /\ DOMAIN Tail(s) = 1..(Len(s) - 1)
    BY <2>1
  <2>3. QED
    BY <1>1, <2>1, <2>2
<1>2. Made(<<>>) = {}
  BY DEF Made
<1>3. QED
  BY <1>1, <1>2 DEF Made

\* What a handler plans is changes.
LEMMA PlanShape ==
  ASSUME NEW h \in Handler, NEW b
  PROVE  Plan(h, b) \in Seq(Book!Change)
<1>1. CASE h.do = "create"
  <2>1. Plan(h, b) = Creation(h, b)
    BY <1>1 DEF Plan
  <2>2. QED
    BY <1>1, <2>1, CreationShape
<1>2. CASE h.do # "create"
  <2>1. h \in Book!Change
    BY <1>2 DEF Handler, Book!Change
  <2>2. PICK s : s = Plan(h, b)
    OBVIOUS
  <2>3. s = <<h>> \/ s = <<>>
    BY <1>2, <2>2, Zenon DEF Plan
  <2>4. <<h>> \in Seq(Book!Change) /\ <<>> \in Seq(Book!Change)
    BY <2>1
  <2>5. QED
    BY <2>2, <2>3, <2>4
<1>3. QED
  BY <1>1, <1>2

-----------------------------------------------------------------------------
(***************************************************************************)
(* The invariant.                                                          *)
(***************************************************************************)

\* Whoever wants the lock or is inside has a change to make; whoever has begun
\* to make it is inside.  A caller without a handler has nothing to do.
PlaceInv ==
  /\ \A p \in Proc : pc[p] \notin {"idle", "dead"} => todo[p] # <<>>
  /\ \A p \in Proc : at[p] # "start" => pc[p] \in Inside
  /\ \A p \in Proc : handler[p] = NoHandler => todo[p] = <<>> /\ ~loaded[p]

\* Nobody goes on without the lock, and the lock is one.
Locked == lates = 0 /\ ~robbed

\* Inside, the book is the one read, in which the change is still to be made,
\* and what will be renamed is that book with the change.
HasRead(p) ==
  at[p] \in {"read", "written"} =>
    copy[p] = [book |-> file, corrupt |-> FALSE] /\ Book!Writes(Head(todo[p]), file)

HasWritten(p) ==
  at[p] = "written" => tmp = <<Book!Apply(Head(todo[p]), file), FALSE>>

FreshInv ==
  Locked => ~spoilt /\ \A p \in Proc : at[p] # "thrown" /\ HasRead(p) /\ HasWritten(p)

\* Only its claimant has been told that a task is its own, and the lease runs.
Answers ==
  \A t \in Task \ wiped :
    /\ told[t] \subseteq {file.claim[t]}
    /\ told[t] # {} => t \notin lapsed /\ t \in file.tasks

ToldInv == Locked => Answers

\* Tasks of one title are one task, or were raced for: the tasks a handler is
\* about to make, those of two handlers, and those and the tasks of the book.
OneMakesOne ==
  \A p \in Proc : \A t, u \in Made(todo[p]) : Title[t] = Title[u] => t = u

TwoRace ==
  \A p, q \in Proc : \A t \in Made(todo[p]), u \in Made(todo[q]) :
    p # q /\ Title[t] = Title[u] => Title[t] \in raced

Clash(t, u) == Title[t] = Title[u] /\ t # u /\ Title[t] \notin raced

BookTitles ==
  /\ \A p \in Proc : \A t \in Made(todo[p]), u \in file.tasks : ~Clash(t, u)
  /\ \A t, u \in file.tasks : ~Clash(t, u)

TitleInv == OneMakesOne /\ TwoRace /\ (Locked => BookTitles)

IInv ==
  /\ TypeOK /\ LockInv /\ ContendedInv /\ frozen = FALSE
  /\ PlaceInv /\ FreshInv /\ ToldInv /\ TitleInv

-----------------------------------------------------------------------------
\* Every step of the store is one of the lock, or leaves the lock alone.
LEMMA StepsOfTheLock ==
  ASSUME Next \/ UNCHANGED vars
  PROVE  LockNext \/ UNCHANGED lockVars
BY DEF Next, vars, LockNext, LockTime, Time, Lapse, Work, Look, Take, Read, WriteTmp,
       Rename, Leave, Die, Open

\* The disk is not remounted.
LEMMA NotFrozen ==
  ASSUME Next \/ UNCHANGED vars
  PROVE  UNCHANGED frozen
BY DEF Next, vars, lockVars, Time, Age, Deadline, Lapse, Work, Look, Take, Lock, Acquire,
       Mkdir, Inspect, Steal, Read, WriteTmp, Rename, Leave, Release, Die, Crash, Open

\* What stands at the places of a sequence of truth values is one.
LEMMA PutTruth ==
  ASSUME NEW S, NEW f \in [S -> BOOLEAN], NEW p, NEW b \in BOOLEAN
  PROVE  [f EXCEPT ![p] = b] \in [S -> BOOLEAN]
OBVIOUS

\* What Proceed leaves is typed.
LEMMA ProceedType ==
  ASSUME TypeOK, NEW p \in Proc, NEW changes \in Seq(Book!Change), NEW acting \in BOOLEAN,
         Proceed(p, changes, acting)
  PROVE  /\ handler' \in [Proc -> Handler \cup {NoHandler}]
         /\ todo' \in [Proc -> Seq(Book!Change)]
         /\ loaded' \in [Proc -> BOOLEAN]
<1>1. handler' \in [Proc -> Handler \cup {NoHandler}]
  BY DEF Proceed, TypeOK
<1>2. todo' \in [Proc -> Seq(Book!Change)]
  BY DEF Proceed, TypeOK
<1>3. loaded' \in [Proc -> BOOLEAN]
  <2>1. PICK b \in BOOLEAN : b = (acting /\ ~(acting /\ changes = <<>>))
    BY Zenon
  <2>2. loaded' = [loaded EXCEPT ![p] = b]
    BY <2>1, Zenon DEF Proceed
  <2>3. QED
    BY <2>2, PutTruth DEF TypeOK
<1>4. QED
  BY <1>1, <1>2, <1>3


\* The first change of a list is a change, and its tail a list of changes.
LEMMA FirstChange ==
  ASSUME NEW s \in Seq(Book!Change), s # <<>>
  PROVE  Head(s) \in Book!Change /\ Tail(s) \in Seq(Book!Change)
OBVIOUS

\* Whoever is inside has a first change to make.
LEMMA InsideChange ==
  ASSUME TypeOK, PlaceInv, NEW p \in Proc, pc[p] \in Inside
  PROVE  /\ todo[p] # <<>> /\ todo[p] \in Seq(Book!Change)
         /\ Head(todo[p]) \in Book!Change /\ Tail(todo[p]) \in Seq(Book!Change)
BY FirstChange DEF TypeOK, PlaceInv, Inside

\* Every step keeps the types of the board.
LEMMA BoardTypeStep ==
  ASSUME TypeOK, PlaceInv, Next \/ UNCHANGED vars
  PROVE  /\ file' \in Book!Books /\ spoilt' \in BOOLEAN
         /\ tmp' \in {<<>>} \cup (Book!Books \X BOOLEAN)
         /\ lapsed' \subseteq Task /\ told' \in [Task -> SUBSET Proc]
         /\ wiped' \subseteq Task
<1> DEFINE Goal == /\ file' \in Book!Books /\ spoilt' \in BOOLEAN
                   /\ tmp' \in {<<>>} \cup (Book!Books \X BOOLEAN)
                   /\ lapsed' \subseteq Task /\ told' \in [Task -> SUBSET Proc]
                   /\ wiped' \subseteq Task
<1>1. ASSUME UNCHANGED bookVars PROVE Goal
  BY <1>1 DEF bookVars, TypeOK
<1>2. ASSUME NEW t \in Task, Lapse(t) PROVE Goal
  BY <1>2 DEF Lapse, Book!Lapse, TypeOK
<1>3. ASSUME NEW p \in Proc, WriteTmp(p) PROVE Goal
  <2>1. /\ Book!Apply(Head(todo[p]), copy[p].book) \in Book!Books
        /\ Book!EmptyBook \in Book!Books
    <3>1. copy[p].book \in Book!Books
      BY DEF TypeOK
    <3>2. PICK c \in Book!Change : c = Head(todo[p])
      BY <1>3, InsideChange DEF WriteTmp
    <3>3. PICK b \in Book!Books : b = copy[p].book
      BY <3>1
    <3>4. Book!Apply(c, b) \in Book!Books
      BY ApplyType
    <3>5. Book!EmptyBook \in Book!Books
      BY DEF Book!EmptyBook, Book!Books
    <3>6. QED
      BY <3>2, <3>3, <3>4, <3>5
  <2>2. UNCHANGED <<lapsed, told, wiped>>
    BY <1>3 DEF WriteTmp
  <2>3. tmp' \in Book!Books \X BOOLEAN
    <3>1. \/ tmp' = <<Book!Apply(Head(todo[p]), copy[p].book), FALSE>>
          \/ tmp' = <<Book!EmptyBook, TRUE>>
      BY <1>3, Zenon DEF WriteTmp
    <3>2. PICK b \in Book!Books : b = Book!Apply(Head(todo[p]), copy[p].book)
      BY <2>1
    <3>3. PICK e \in Book!Books : e = Book!EmptyBook
      BY <2>1
    <3>4. tmp' = <<b, FALSE>> \/ tmp' = <<e, TRUE>>
      BY <3>1, <3>2, <3>3, Zenon
    <3>5. \A y \in BOOLEAN : <<b, y>> \in Book!Books \X BOOLEAN
                            /\ <<e, y>> \in Book!Books \X BOOLEAN
      OBVIOUS
    <3>6. QED
      BY <3>4, <3>5, Zenon
  <2>4. file' = file \/ file' = Book!EmptyBook
    BY <1>3, Zenon DEF WriteTmp
  <2>5. spoilt' = spoilt \/ spoilt' = FALSE
    BY <1>3, Zenon DEF WriteTmp
  <2>6. spoilt' \in BOOLEAN
    BY <2>5, Zenon DEF TypeOK
  <2>7. QED
    BY <2>1, <2>2, <2>3, <2>4, <2>6 DEF TypeOK
<1>4. ASSUME NEW p \in Proc, Rename(p) PROVE Goal
  <2>1. CASE UNCHANGED bookVars
    BY <1>1, <2>1
  <2>2. CASE /\ tmp # <<>>
             /\ file' = tmp[1] /\ spoilt' = tmp[2] /\ tmp' = <<>>
             /\ told' = Book!Told(Head(todo[p])) /\ lapsed' = Book!Renewed(Head(todo[p]))
             /\ wiped' = Book!Wiped(Head(todo[p]))
    <3>1. tmp \in Book!Books \X BOOLEAN
      BY <2>2 DEF TypeOK
    <3>2. file' \in Book!Books /\ spoilt' \in BOOLEAN
      BY <2>2, <3>1
    <3>3. Head(todo[p]) \in Book!Change
      BY <1>4, InsideChange DEF Rename
    <3>4. told' \in [Task -> SUBSET Proc]
      BY <2>2, <3>3, ToldType DEF TypeOK
    <3>5. lapsed' \subseteq Task
      BY <2>2 DEF Book!Renewed, TypeOK
    <3>6. wiped' \subseteq Task
      BY <2>2, <3>3, TaskStoreAssumption DEF Book!Wiped, Book!Change, TypeOK
    <3>7. QED
      BY <2>2, <3>2, <3>4, <3>5, <3>6
  <2>3. QED
    BY <1>4, <2>1, <2>2 DEF Rename
<1>5. QED
  BY <1>1, <1>2, <1>3, <1>4
     DEF Next, vars, boardVars, Time, Work, Look, Take, Read, Leave, Die, Open

\* What is raced for is titles of tasks.
LEMMA RacedTypeStep ==
  ASSUME TypeOK, Next \/ UNCHANGED vars
  PROVE  raced' \subseteq {Title[t] : t \in Task}
<1>1. ASSUME UNCHANGED raced PROVE raced' \subseteq {Title[t] : t \in Task}
  BY <1>1 DEF TypeOK
<1>2. ASSUME NEW p \in Proc, NEW changes PROVE Races(p, changes) \subseteq {Title[t] : t \in Task}
  <2>1. ASSUME NEW q \in Proc PROVE Made(todo[q]) \subseteq Task
    <3>1. PICK s \in Seq(Book!Change) : s = todo[q]
      BY DEF TypeOK
    <3>2. \A i \in DOMAIN s : s[i].do = "mint" => s[i].on \in Task
      BY DEF Book!Change
    <3>3. QED
      BY <3>1, <3>2 DEF Made
  <2>2. QED
    BY <2>1 DEF Races
<1>3. ASSUME NEW p \in Proc, NEW changes, raced' = raced \cup Races(p, changes)
      PROVE  raced' \subseteq {Title[t] : t \in Task}
  BY <1>2, <1>3 DEF TypeOK
<1>4. QED
  BY <1>1, <1>3
     DEF Next, vars, boardVars, Time, Lapse, Work, Look, Take, Read, WriteTmp, Rename,
         Leave, Die, Open

\* Every step keeps the types of the calls.
LEMMA CallTypeStep ==
  ASSUME TypeOK, PlaceInv, Next \/ UNCHANGED vars
  PROVE  /\ handler' \in [Proc -> Handler \cup {NoHandler}]
         /\ todo' \in [Proc -> Seq(Book!Change)] /\ loaded' \in [Proc -> BOOLEAN]
         /\ at' \in [Proc -> {"start", "read", "written", "done", "thrown"}]
         /\ copy' \in [Proc -> [book : Book!Books, corrupt : BOOLEAN]]
         /\ again' \in [Proc -> BOOLEAN]
<1> DEFINE G1 == /\ handler' \in [Proc -> Handler \cup {NoHandler}]
                 /\ todo' \in [Proc -> Seq(Book!Change)] /\ loaded' \in [Proc -> BOOLEAN]
           G2 == /\ at' \in [Proc -> {"start", "read", "written", "done", "thrown"}]
                 /\ copy' \in [Proc -> [book : Book!Books, corrupt : BOOLEAN]]
           G3 == again' \in [Proc -> BOOLEAN]
<1>0. ASSUME UNCHANGED <<at, copy, again>> PROVE G2 /\ G3
  BY <1>0 DEF TypeOK
<1>1. ASSUME UNCHANGED callVars PROVE G1 /\ G2 /\ G3
  BY <1>1 DEF callVars, TypeOK
<1>2. ASSUME NEW p \in Proc, NEW h \in Asked(p), Open(p, h) PROVE G1 /\ G2 /\ G3
  <2>1. h \in Handler
    BY TaskStoreAssumption DEF Asked, Asks, Handler
  <2>2. PICK s \in Seq(Book!Change) : s = Mints(p)
    BY MintsShape
  <2>3. todo' = [todo EXCEPT ![p] = s] /\ handler' = [handler EXCEPT ![p] = h]
    BY <1>2, <2>2 DEF Open
  <2>4. UNCHANGED <<loaded, at, copy, again>>
    BY <1>2 DEF Open
  <2>5. QED
    BY <1>0, <2>1, <2>3, <2>4 DEF TypeOK
<1>3. ASSUME NEW p \in Proc, Look(p) PROVE G1 /\ G2 /\ G3
  <2>1. handler[p] \in Handler
    BY <1>3 DEF Look, TypeOK
  <2>2. PICK h \in Handler, b \in {file} : h = handler[p] /\ b = file
    BY <2>1
  <2>3. Plan(h, b) \in Seq(Book!Change)
    BY PlanShape
  <2>4. PICK s \in Seq(Book!Change) : s = Plan(handler[p], file)
    BY <2>2, <2>3
  <2>5. Proceed(p, s, TRUE)
    BY <1>3, <2>4 DEF Look
  <2>6. G1
    BY <2>5, ProceedType
  <2>7. QED
    BY <1>0, <1>3, <2>6 DEF Look
<1>4. ASSUME NEW p \in Proc, Read(p) PROVE G1 /\ G2 /\ G3
  <2>1. [book |-> file, corrupt |-> spoilt] \in [book : Book!Books, corrupt : BOOLEAN]
    BY DEF TypeOK
  <2>2. copy' = [copy EXCEPT ![p] = [book |-> file, corrupt |-> spoilt]]
    BY <1>4 DEF Read
  <2>3. PICK a \in {"read", "done"} : at' = [at EXCEPT ![p] = a]
    BY <1>4 DEF Read
  <2>4. UNCHANGED <<handler, todo, loaded, again>>
    BY <1>4 DEF Read
  <2>5. QED
    BY <2>1, <2>2, <2>3, <2>4 DEF TypeOK
<1>5. ASSUME NEW p \in Proc, WriteTmp(p) \/ Rename(p) PROVE G1 /\ G2 /\ G3
  <2>1. UNCHANGED <<handler, todo, loaded, copy, again>>
    BY <1>5 DEF WriteTmp, Rename
  <2>2. PICK a \in {"written", "done", "thrown"} : at' = [at EXCEPT ![p] = a]
    BY <1>5 DEF WriteTmp, Rename
  <2>3. QED
    BY <2>1, <2>2 DEF TypeOK
<1>6. NotRead \in [book : Book!Books, corrupt : BOOLEAN]
  <2>1. Book!EmptyBook \in Book!Books
    BY DEF Book!EmptyBook, Book!Books
  <2>2. PICK b \in Book!Books : b = Book!EmptyBook
    BY <2>1
  <2>3. NotRead = [book |-> b, corrupt |-> FALSE]
    BY <2>2 DEF NotRead
  <2>4. QED
    BY <2>3
<1>7. ASSUME NEW p \in Proc, at' = [at EXCEPT ![p] = "start"],
             copy' = [copy EXCEPT ![p] = NotRead]
      PROVE  G2
  BY <1>6, <1>7 DEF TypeOK
<1>8. ASSUME NEW p \in Proc, Leave(p) PROVE G1 /\ G2 /\ G3
  <2>1. G2
    BY <1>7, <1>8 DEF Leave
  <2>2. G3
    <3>1. PICK b \in BOOLEAN :
            b = (at[p] = "done" /\ pc[p] = "contended" /\ ~again[p])
      BY Zenon
    <3>2. again' = [again EXCEPT ![p] = b]
      BY <1>8, <3>1, Zenon DEF Leave
    <3>3. QED
      BY <3>2, PutTruth DEF TypeOK
  <2>3. G1
    <3>1. \/ Proceed(p, <<>>, TRUE)
          \/ UNCHANGED <<todo, loaded, handler>>
          \/ Proceed(p, Tail(todo[p]), loaded[p])
      BY <1>8, Zenon DEF Leave
    <3>2. PICK s \in Seq(Book!Change) : s = Tail(todo[p])
      BY <1>8, InsideChange DEF Leave, Release
    <3>3. PICK b \in BOOLEAN : b = loaded[p]
      BY DEF TypeOK
    <3>4. <<>> \in Seq(Book!Change)
      OBVIOUS
    <3>5. CASE UNCHANGED <<todo, loaded, handler>>
      BY <3>5 DEF TypeOK
    <3>6. CASE Proceed(p, <<>>, TRUE)
      BY <3>4, <3>6, ProceedType, Zenon
    <3>7. CASE Proceed(p, Tail(todo[p]), loaded[p])
      <4>1. Proceed(p, s, b)
        BY <3>2, <3>3, <3>7 DEF Proceed
      <4>2. QED
        BY <4>1, ProceedType, Zenon
    <3>8. QED
      BY <3>1, <3>5, <3>6, <3>7
  <2>4. QED
    BY <2>1, <2>2, <2>3
<1>9. ASSUME NEW p \in Proc, Die(p) PROVE G1 /\ G2 /\ G3
  <2>1. G2
    BY <1>7, <1>9 DEF Die
  <2>2. G3
    BY <1>9, PutTruth DEF Die, TypeOK
  <2>3. Proceed(p, <<>>, TRUE)
    BY <1>9, Zenon DEF Die
  <2>4. <<>> \in Seq(Book!Change)
    OBVIOUS
  <2>5. G1
    BY <2>3, <2>4, ProceedType, Zenon
  <2>6. QED
    BY <2>1, <2>2, <2>5
<1>10. QED
  BY <1>1, <1>2, <1>3, <1>4, <1>5, <1>8, <1>9 DEF Next, vars, Time, Lapse, Work, Take


\* A caller that proceeds has a handler, or nothing to do.
LEMMA ProceedPlace ==
  ASSUME TypeOK, PlaceInv, NEW p \in Proc, NEW changes \in Seq(Book!Change), NEW acting \in BOOLEAN,
         Proceed(p, changes, acting), handler[p] # NoHandler \/ (acting /\ changes = <<>>)
  PROVE  /\ \A q \in Proc : handler'[q] = NoHandler => todo'[q] = <<>> /\ ~loaded'[q]
         /\ \A q \in Proc : q # p => /\ todo'[q] = todo[q] /\ loaded'[q] = loaded[q]
                                     /\ handler'[q] = handler[q]
         /\ todo'[p] = changes
BY DEF Proceed, TypeOK, PlaceInv

\* What a caller that leaves does next: nothing more, its change once more, or
\* the rest of its changes.
LEMMA LeaveProceeds ==
  ASSUME TypeOK, PlaceInv, NEW p \in Proc, Leave(p)
  PROVE  \/ UNCHANGED <<todo, loaded, handler>>
         \/ \E s \in Seq(Book!Change), b \in BOOLEAN :
              /\ (s = <<>> /\ b = TRUE) \/ (s = Tail(todo[p]) /\ b = loaded[p])
              /\ Proceed(p, s, b)
<1>1. \/ Proceed(p, <<>>, TRUE)
      \/ UNCHANGED <<todo, loaded, handler>>
      \/ Proceed(p, Tail(todo[p]), loaded[p])
  BY Zenon DEF Leave
<1>2. PICK s \in Seq(Book!Change) : s = Tail(todo[p])
  BY InsideChange DEF Leave, Release
<1>3. PICK b \in BOOLEAN : b = loaded[p]
  BY DEF TypeOK
<1>4. <<>> \in Seq(Book!Change)
  OBVIOUS
<1>5. CASE Proceed(p, <<>>, TRUE)
  BY <1>4, <1>5, Zenon
<1>6. CASE Proceed(p, Tail(todo[p]), loaded[p])
  <2>1. Proceed(p, s, b)
    BY <1>2, <1>3, <1>6 DEF Proceed
  <2>2. QED
    BY <1>2, <1>3, <2>1, Zenon
<1>7. QED
  BY <1>1, <1>5, <1>6

\* A caller that leaves changes nothing of another's.
LEMMA LeaveOthers ==
  ASSUME TypeOK, PlaceInv, NEW p \in Proc, Leave(p), NEW q \in Proc, q # p
  PROVE  todo'[q] = todo[q] /\ loaded'[q] = loaded[q] /\ handler'[q] = handler[q]
<1>1. handler[p] # NoHandler
  BY InsideChange DEF Leave, Release, PlaceInv
<1>2. CASE UNCHANGED <<todo, loaded, handler>>
  BY <1>2
<1>3. ASSUME NEW s \in Seq(Book!Change), NEW b \in BOOLEAN, Proceed(p, s, b)
      PROVE  todo'[q] = todo[q] /\ loaded'[q] = loaded[q] /\ handler'[q] = handler[q]
  BY <1>1, <1>3, ProceedPlace
<1>4. QED
  BY <1>2, <1>3, LeaveProceeds

\* Every step keeps PlaceInv.
LEMMA PlaceStep ==
  ASSUME TypeOK, PlaceInv, Next \/ UNCHANGED vars
  PROVE  PlaceInv'
<1>0. pc \in [Proc -> {"idle", "mkdir", "inspect", "steal", "dead"} \cup Inside]
  BY DEF TypeOK, LockTypeOK
<1>1. ASSUME UNCHANGED pc, UNCHANGED <<at, todo, loaded, handler>> PROVE PlaceInv'
  BY <1>1 DEF PlaceInv
<1>2. ASSUME NEW p \in Proc, Acquire(p), UNCHANGED callVars PROVE PlaceInv'
  BY <1>0, <1>2 DEF Acquire, Mkdir, Inspect, Steal, Goto, callVars, PlaceInv, Inside
<1>3. ASSUME NEW p \in Proc, Take(p) PROVE PlaceInv'
  BY <1>0, <1>3 DEF Take, Lock, Goto, callVars, PlaceInv, Inside
<1>4. ASSUME NEW p \in Proc, NEW h \in Asked(p), Open(p, h) PROVE PlaceInv'
  <2>1. h \in Handler /\ h # NoHandler
    BY TaskStoreAssumption DEF Asked, Asks, Handler, NoHandler
  <2>2. PICK s : s = Mints(p)
    OBVIOUS
  <2>3. /\ todo' = [todo EXCEPT ![p] = s] /\ handler' = [handler EXCEPT ![p] = h]
        /\ pc[p] = "idle" /\ UNCHANGED <<pc, loaded, at>>
    BY <1>4, <2>2 DEF Open, lockVars
  <2>4. QED
    BY <2>1, <2>3 DEF PlaceInv, TypeOK
<1>5. ASSUME NEW p \in Proc, Look(p) PROVE PlaceInv'
  <2>1. handler[p] \in Handler
    BY <1>5 DEF Look, TypeOK
  <2>2. PICK h \in Handler, b \in {file} : h = handler[p] /\ b = file
    BY <2>1
  <2>3. Plan(h, b) \in Seq(Book!Change)
    BY PlanShape
  <2>4. PICK s \in Seq(Book!Change) : s = Plan(handler[p], file)
    BY <2>2, <2>3
  <2>5. Proceed(p, s, TRUE) /\ handler[p] # NoHandler /\ pc[p] = "idle" /\ UNCHANGED <<pc, at>>
    BY <1>5, <2>4 DEF Look, lockVars
  <2>6. /\ \A q \in Proc : handler'[q] = NoHandler => todo'[q] = <<>> /\ ~loaded'[q]
        /\ \A q \in Proc : q # p => todo'[q] = todo[q]
    BY <2>5, ProceedPlace
  <2>7. QED
    BY <2>5, <2>6 DEF PlaceInv
<1>6. ASSUME NEW p \in Proc, Read(p) \/ WriteTmp(p) \/ Rename(p) PROVE PlaceInv'
  BY <1>6 DEF Read, WriteTmp, Rename, lockVars, PlaceInv, TypeOK
<1>7. ASSUME NEW p \in Proc, pc' = [pc EXCEPT ![p] = "idle"] \/ pc' = [pc EXCEPT ![p] = "dead"],
             at' = [at EXCEPT ![p] = "start"],
             \A q \in Proc : handler'[q] = NoHandler => todo'[q] = <<>> /\ ~loaded'[q],
             \A q \in Proc : q # p => todo'[q] = todo[q]
      PROVE  PlaceInv'
  BY <1>0, <1>7 DEF PlaceInv, TypeOK
<1>8. ASSUME NEW p \in Proc, Leave(p) PROVE PlaceInv'
  <2>1. pc' = [pc EXCEPT ![p] = "idle"] /\ at' = [at EXCEPT ![p] = "start"]
    BY <1>8 DEF Leave, Release, Goto
  <2>2. todo[p] # <<>> /\ handler[p] # NoHandler
    BY <1>8, InsideChange DEF Leave, Release, PlaceInv
  <2>3. CASE UNCHANGED <<todo, loaded, handler>>
    BY <1>7, <2>1, <2>3 DEF PlaceInv
  <2>4. ASSUME NEW s \in Seq(Book!Change), NEW b \in BOOLEAN, Proceed(p, s, b)
        PROVE  PlaceInv'
    BY <1>7, <2>1, <2>2, <2>4, ProceedPlace
  <2>5. QED
    BY <1>8, <2>3, <2>4, LeaveProceeds
<1>9. ASSUME NEW p \in Proc, Die(p) PROVE PlaceInv'
  <2>1. pc' = [pc EXCEPT ![p] = "dead"] /\ at' = [at EXCEPT ![p] = "start"]
    BY <1>9 DEF Die, Crash, Goto
  <2>2. PICK s \in Seq(Book!Change), b \in BOOLEAN : s = <<>> /\ b = TRUE
    <3>1. <<>> \in Seq(Book!Change)
      OBVIOUS
    <3>2. QED
      BY <3>1, Zenon
  <2>3. Proceed(p, <<>>, TRUE)
    BY <1>9, Zenon DEF Die
  <2>4. Proceed(p, s, b)
    BY <2>2, <2>3, Zenon
  <2>5. /\ \A q \in Proc : handler'[q] = NoHandler => todo'[q] = <<>> /\ ~loaded'[q]
        /\ \A q \in Proc : q # p => todo'[q] = todo[q]
    BY <2>2, <2>4, ProceedPlace
  <2>6. QED
    BY <1>7, <2>1, <2>5
<1>10. QED
  BY <1>1, <1>2, <1>3, <1>4, <1>5, <1>6, <1>8, <1>9
     DEF Next, vars, lockVars, callVars, Time, Age, Deadline, Lapse, Work


-----------------------------------------------------------------------------
(***************************************************************************)
(* The document is a TaskBook.                                             *)
(***************************************************************************)

\* A step that leaves nobody without the lock leaves nobody behind it either.
LEMMA LockedStays ==
  ASSUME LockTypeOK, Next \/ UNCHANGED vars, Locked'
  PROVE  Locked
BY StepsOfTheLock, BoundsGrow DEF Locked

\* While the lock is one, one is inside.
LEMMA OneInside ==
  ASSUME LockInv, ContendedInv, frozen = FALSE, Locked,
         NEW p \in Proc, NEW q \in Proc, pc[p] \in Inside, pc[q] \in Inside
  PROVE  p = q /\ pc[p] = "held"
<1>1. pc[p] = "held" /\ pc[q] = "held"
  BY DEF ContendedInv, Locked, Inside
<1>2. QED
  BY <1>1, OneHolds DEF Locked

\* A caller's change stands while the book and its list do, whatever lapses.
LEMMA FreshKept ==
  ASSUME NEW p \in Proc, HasRead(p), HasWritten(p), lapsed \subseteq lapsed', tmp' = tmp,
         file' = file, todo'[p] = todo[p], at'[p] = at[p], copy'[p] = copy[p]
  PROVE  HasRead(p)' /\ HasWritten(p)'
<1>1. Book!Writes(Head(todo[p]), file) => Book!Writes(Head(todo[p]), file)'
  BY DEF Book!Writes, Book!HeldByOther
<1>2. HasRead(p)'
  BY <1>1 DEF HasRead
<1>3. HasWritten(p)'
  BY DEF HasWritten
<1>4. QED
  BY <1>2, <1>3

\* One that is not at it has nothing to stand.
LEMMA FreshIdle ==
  ASSUME NEW p \in Proc, at'[p] \notin {"read", "written"}
  PROVE  HasRead(p)' /\ HasWritten(p)'
BY DEF HasRead, HasWritten

\* Every step keeps FreshInv.
LEMMA FreshStep ==
  ASSUME TypeOK, LockInv, ContendedInv, frozen = FALSE, PlaceInv, FreshInv,
         Next \/ UNCHANGED vars
  PROVE  FreshInv'
<1> SUFFICES ASSUME Locked'
             PROVE  /\ ~spoilt'
                    /\ \A p \in Proc : at'[p] # "thrown" /\ HasRead(p)' /\ HasWritten(p)'
  BY DEF FreshInv
<1> DEFINE Goal == /\ ~spoilt'
                   /\ \A p \in Proc : at'[p] # "thrown" /\ HasRead(p)' /\ HasWritten(p)'
<1>0. /\ Locked /\ ~spoilt
      /\ \A p \in Proc : at[p] # "thrown" /\ HasRead(p) /\ HasWritten(p)
  BY LockedStays DEF FreshInv, TypeOK
<1>1. ASSUME lapsed \subseteq lapsed', UNCHANGED <<tmp, file, spoilt, todo, at, copy>>
      PROVE  Goal
  BY <1>0, <1>1, FreshKept
<1>2. ASSUME NEW p \in Proc, UNCHANGED <<tmp, file, lapsed, spoilt>>, at'[p] = "start",
             \A q \in Proc : q # p =>
               todo'[q] = todo[q] /\ at'[q] = at[q] /\ copy'[q] = copy[q]
      PROVE  Goal
  BY <1>0, <1>2, FreshKept, FreshIdle
<1>3. ASSUME NEW p \in Proc, NEW h \in Asked(p), Open(p, h) PROVE Goal
  <2>1. at[p] = "start"
    BY <1>3 DEF Open, PlaceInv, Inside
  <2>2. QED
    BY <1>2, <1>3, <2>1 DEF Open, boardVars, bookVars, TypeOK
<1>4. ASSUME NEW p \in Proc, Look(p) PROVE Goal
  <2>1. at[p] = "start"
    BY <1>4 DEF Look, PlaceInv, Inside
  <2>2. QED
    BY <1>2, <1>4, <2>1 DEF Look, Proceed, boardVars, bookVars, TypeOK
<1>5. ASSUME NEW p \in Proc, Read(p) PROVE Goal
  <2>1. /\ UNCHANGED <<tmp, file, lapsed, spoilt, todo>>
        /\ copy' = [copy EXCEPT ![p] = [book |-> file, corrupt |-> spoilt]]
        /\ at' = [at EXCEPT ![p] = IF Book!Writes(Head(todo[p]), file) THEN "read" ELSE "done"]
    BY <1>5 DEF Read, boardVars, bookVars
  <2>2. ASSUME NEW q \in Proc, q # p PROVE at'[q] # "thrown" /\ HasRead(q)' /\ HasWritten(q)'
    <3>1. at'[q] = at[q] /\ copy'[q] = copy[q]
      BY <2>1, <2>2 DEF TypeOK
    <3>2. QED
      BY <1>0, <2>1, <3>1, FreshKept
  <2>3. copy'[p] = [book |-> file, corrupt |-> FALSE]
    <3>1. spoilt = FALSE
      BY <1>0, Zenon DEF TypeOK
    <3>2. QED
      BY <2>1, <3>1 DEF TypeOK
  <2>4. CASE Book!Writes(Head(todo[p]), file)
    <3>1. at'[p] = "read"
      BY <2>1, <2>4 DEF TypeOK
    <3>2. Book!Writes(Head(todo[p]), file)'
      BY <2>1, <2>4 DEF Book!Writes, Book!HeldByOther
    <3>3. HasRead(p)' /\ HasWritten(p)'
      BY <2>1, <2>3, <3>1, <3>2 DEF HasRead, HasWritten
    <3>4. QED
      BY <1>0, <2>1, <2>2, <3>1, <3>3
  <2>5. CASE ~Book!Writes(Head(todo[p]), file)
    <3>1. at'[p] = "done"
      BY <2>1, <2>5 DEF TypeOK
    <3>2. QED
      BY <1>0, <2>1, <2>2, <3>1, FreshIdle
  <2>6. QED
    BY <2>4, <2>5
<1>6. ASSUME NEW p \in Proc, NEW q \in Proc, pc[p] \in Inside, q # p
      PROVE  at[q] \notin {"read", "written"}
  BY <1>0, <1>6, OneInside DEF PlaceInv
<1>7. ASSUME NEW p \in Proc, WriteTmp(p) PROVE Goal
  <2>1. pc[p] \in Inside /\ at[p] = "read" /\ at' = [at EXCEPT ![p] = "written"]
        /\ UNCHANGED <<lapsed, todo, copy>>
    BY <1>7 DEF WriteTmp
  <2>2. copy[p] = [book |-> file, corrupt |-> FALSE] /\ Book!Writes(Head(todo[p]), file)
    BY <1>0, <2>1 DEF HasRead
  <2>3. copy[p].corrupt = FALSE /\ copy[p].book = file
    BY <2>2
  <2>4. file' = file /\ spoilt' = spoilt
    BY <1>7, <2>3, Zenon DEF WriteTmp
  <2>5. tmp' = <<Book!Apply(Head(todo[p]), file), FALSE>>
    BY <1>6, <1>7, <2>1, <2>3, Zenon DEF WriteTmp
  <2>6. ASSUME NEW q \in Proc, q # p PROVE at'[q] # "thrown" /\ HasRead(q)' /\ HasWritten(q)'
    <3>1. at'[q] = at[q] /\ at[q] \notin {"read", "written"}
      BY <1>6, <2>1, <2>6 DEF TypeOK
    <3>2. QED
      BY <1>0, <3>1, FreshIdle
  <2>7. at'[p] = "written"
    BY <2>1 DEF TypeOK
  <2>8. Book!Writes(Head(todo[p]), file)'
    BY <2>1, <2>2, <2>4 DEF Book!Writes, Book!HeldByOther
  <2>9. HasRead(p)'
    BY <2>1, <2>2, <2>4, <2>8 DEF HasRead
  <2>10. HasWritten(p)'
    BY <2>1, <2>4, <2>5 DEF HasWritten
  <2>11. QED
    BY <1>0, <2>4, <2>6, <2>7, <2>9, <2>10
<1>8. ASSUME NEW p \in Proc, Rename(p) PROVE Goal
  <2>1. pc[p] \in Inside /\ at[p] = "written"
    BY <1>8 DEF Rename
  <2>2. tmp = <<Book!Apply(Head(todo[p]), file), FALSE>>
    BY <1>0, <2>1 DEF HasWritten
  <2>3. tmp # <<>> /\ tmp[2] = FALSE
    BY <2>2
  <2>4. at' = [at EXCEPT ![p] = "done"] /\ spoilt' = FALSE
    BY <1>8, <2>3, Zenon DEF Rename
  <2>5. \A q \in Proc : at'[q] # "thrown" /\ at'[q] \notin {"read", "written"}
    BY <1>0, <1>6, <2>1, <2>4 DEF TypeOK
  <2>6. QED
    BY <2>4, <2>5, FreshIdle
<1>9. ASSUME NEW p \in Proc, Leave(p) PROVE Goal
  <2>1. /\ at' = [at EXCEPT ![p] = "start"] /\ copy' = [copy EXCEPT ![p] = NotRead]
        /\ UNCHANGED boardVars
    BY <1>9 DEF Leave
  <2>2. \A q \in Proc : q # p => todo'[q] = todo[q]
    BY <1>9, LeaveOthers
  <2>3. QED
    BY <1>2, <2>1, <2>2 DEF boardVars, bookVars, TypeOK
<1>10. ASSUME NEW p \in Proc, Die(p) PROVE Goal
  <2>1. /\ at' = [at EXCEPT ![p] = "start"] /\ copy' = [copy EXCEPT ![p] = NotRead]
        /\ UNCHANGED boardVars
    BY <1>10 DEF Die
  <2>2. todo' = [todo EXCEPT ![p] = <<>>]
    BY <1>10, Zenon DEF Die, Proceed
  <2>3. QED
    BY <1>2, <2>1, <2>2 DEF boardVars, bookVars, TypeOK
<1>11. QED
  BY <1>1, <1>3, <1>4, <1>5, <1>7, <1>8, <1>9, <1>10
     DEF Next, vars, boardVars, bookVars, callVars, Time, Lapse, Book!Lapse, Work, Take


\* A rename makes its caller's change of the book as it stands.
LEMMA RenameDoes ==
  ASSUME TypeOK, PlaceInv, FreshInv, Locked, NEW p \in Proc, Rename(p)
  PROVE  /\ Book!Writes(Head(todo[p]), file)
         /\ file' = Book!Apply(Head(todo[p]), file)
         /\ told' = Book!Told(Head(todo[p]))
         /\ lapsed' = Book!Renewed(Head(todo[p]))
         /\ wiped' = Book!Wiped(Head(todo[p]))
         /\ Head(todo[p]) \in Book!Change
         /\ at' = [at EXCEPT ![p] = "done"]
<1>1. at[p] = "written" /\ pc[p] \in Inside
  BY DEF Rename
<1>2. /\ Book!Writes(Head(todo[p]), file)
      /\ tmp = <<Book!Apply(Head(todo[p]), file), FALSE>>
  BY <1>1 DEF FreshInv, HasRead, HasWritten
<1>3. tmp # <<>> /\ tmp[1] = Book!Apply(Head(todo[p]), file)
  BY <1>2
<1>4. /\ file' = tmp[1] /\ told' = Book!Told(Head(todo[p]))
      /\ lapsed' = Book!Renewed(Head(todo[p])) /\ wiped' = Book!Wiped(Head(todo[p]))
  BY <1>3, Zenon DEF Rename
<1>5. at' = [at EXCEPT ![p] = "done"]
  BY <1>3, Zenon DEF Rename
<1>6. QED
  BY <1>1, <1>2, <1>3, <1>4, <1>5, InsideChange

\* Only a rename changes the book, only it and the lapse of a lease what is
\* told of it; a writer of the temporary file has found no other's bytes there.
LEMMA OnlyRenames ==
  ASSUME TypeOK, PlaceInv, FreshInv, Locked, Next \/ UNCHANGED vars
  PROVE  \/ UNCHANGED <<file, lapsed, told, wiped>>
         \/ \E t \in Task : Lapse(t)
         \/ \E p \in Proc : Rename(p)
<1>1. ASSUME NEW p \in Proc, WriteTmp(p) PROVE UNCHANGED <<file, lapsed, told, wiped>>
  <2>1. at[p] = "read"
    BY <1>1 DEF WriteTmp
  <2>2. copy[p] = [book |-> file, corrupt |-> FALSE]
    BY <2>1 DEF FreshInv, HasRead
  <2>3. copy[p].corrupt = FALSE
    BY <2>2
  <2>4. QED
    BY <1>1, <2>3, Zenon DEF WriteTmp
<1>2. QED
  BY <1>1 DEF Next, vars, boardVars, bookVars, Time, Work, Look, Take, Read, Leave, Die, Open

\* A step of the store is a step of the book.
LEMMA BookStep ==
  ASSUME TypeOK, PlaceInv, FreshInv, Locked, Next \/ UNCHANGED vars
  PROVE  Book!Next \/ UNCHANGED <<file, lapsed, told, wiped>>
<1>1. ASSUME NEW t \in Task, Lapse(t) PROVE Book!Next
  BY <1>1 DEF Lapse, Book!Next
<1>2. ASSUME NEW p \in Proc, Rename(p) PROVE Book!Next
  <2>1. /\ Book!Writes(Head(todo[p]), file)
        /\ file' = Book!Apply(Head(todo[p]), file)
        /\ told' = Book!Told(Head(todo[p]))
        /\ lapsed' = Book!Renewed(Head(todo[p]))
        /\ wiped' = Book!Wiped(Head(todo[p]))
        /\ Head(todo[p]) \in Book!Change
    BY <1>2, RenameDoes
  <2>2. PICK c \in Book!Change : c = Head(todo[p])
    BY <2>1
  <2>3. Book!Do(c)
    BY <2>1, <2>2
       DEF Book!Do, Book!Writes, Book!HeldByOther, Book!Told, Book!Renewed, Book!Wiped
  <2>4. QED
    BY <2>3 DEF Book!Next
<1>3. QED
  BY <1>1, <1>2, OnlyRenames


-----------------------------------------------------------------------------
(***************************************************************************)
(* Claims.                                                                 *)
(***************************************************************************)

\* A change that is made at once leaves the answers true.
LEMMA AnswersStay ==
  ASSUME NEW c \in Book!Change, NEW b \in Book!Books, b = file,
         told \in [Task -> SUBSET Proc], Answers, Book!Writes(c, b),
         file' = Book!Apply(c, b), told' = Book!Told(c), lapsed' = Book!Renewed(c),
         wiped' = Book!Wiped(c)
  PROVE  Answers'
<1>0. /\ c.by \in Proc /\ None \notin Proc
      /\ c.do \in {"claim", "takeover", "release", "mint", "lift", "remove",
                   "join", "drop", "comment"}
      /\ c.do \in {"claim", "takeover", "release", "mint", "remove"} => c.on \in Task
      /\ lapsed' = lapsed \ {c.on} /\ wiped \subseteq wiped'
      /\ c.do = "mint" /\ b.claim[c.on] # None => c.on \in wiped'
  BY FileLockAssumption DEF Book!Change, Book!Renewed, Book!Wiped
<1> USE DEF Book!Books, Book!Apply, Book!Told, Answers
<1>1. CASE c.do = "claim"
  <2>1. /\ c.on \in b.tasks /\ (b.claim[c.on] \in {None, c.by} \/ c.on \in lapsed)
    BY <1>1 DEF Book!Writes, Book!HeldByOther
  <2>2. c.on \notin wiped => told[c.on] \subseteq {c.by}
    BY <1>0, <1>1, <2>1
  <2>3. /\ file'.tasks = b.tasks /\ file'.claim = [b.claim EXCEPT ![c.on] = c.by]
        /\ told' = [told EXCEPT ![c.on] = @ \cup {c.by}]
    BY <1>1
  <2>4. QED
    BY <1>0, <1>1, <2>1, <2>2, <2>3
<1>2. CASE c.do = "takeover"
  <2>1. c.on \in b.tasks
    BY <1>2 DEF Book!Writes
  <2>2. /\ file'.tasks = b.tasks /\ file'.claim = [b.claim EXCEPT ![c.on] = c.by]
        /\ told' = [told EXCEPT ![c.on] = {c.by}]
    BY <1>2
  <2>3. QED
    BY <1>0, <1>2, <2>1, <2>2
<1>3. CASE c.do = "release"
  <2>1. b.claim[c.on] \in {None, c.by}
    BY <1>3 DEF Book!Writes
  <2>2. /\ file'.tasks = b.tasks /\ file'.claim = [b.claim EXCEPT ![c.on] = None]
        /\ told' = [told EXCEPT ![c.on] = @ \ {c.by}]
    BY <1>3
  <2>3. c.on \notin wiped => told'[c.on] = {}
    BY <1>0, <1>3, <2>1, <2>2
  <2>4. QED
    BY <1>0, <1>3, <2>2, <2>3
<1>4. CASE c.do = "mint"
  <2>1. c.on \notin wiped' => told[c.on] = {}
    BY <1>0, <1>4
  <2>2. /\ file'.tasks = b.tasks \cup {c.on} /\ file'.claim = [b.claim EXCEPT ![c.on] = None]
        /\ told' = told
    BY <1>4
  <2>3. QED
    BY <1>0, <1>4, <2>1, <2>2
<1>5. CASE c.do = "remove"
  <2>1. /\ file'.tasks = b.tasks \ {c.on} /\ file'.claim = [b.claim EXCEPT ![c.on] = None]
        /\ told' = [told EXCEPT ![c.on] = {}]
    BY <1>5
  <2>2. QED
    BY <1>0, <1>5, <2>1
<1>6. CASE c.do \in {"lift", "join", "drop", "comment"}
  <2>1. file'.tasks = b.tasks /\ file'.claim = b.claim /\ told' = told
    BY <1>6
  <2>2. QED
    BY <1>0, <2>1
<1>7. QED
  BY <1>0, <1>1, <1>2, <1>3, <1>4, <1>5, <1>6

\* Every step keeps ToldInv.
LEMMA ToldStep ==
  ASSUME TypeOK, PlaceInv, FreshInv, ToldInv, Next \/ UNCHANGED vars
  PROVE  ToldInv'
<1> SUFFICES ASSUME Locked' PROVE Answers'
  BY DEF ToldInv
<1>0. Locked /\ Answers
  BY LockedStays DEF TypeOK, ToldInv
<1>1. CASE UNCHANGED <<file, lapsed, told, wiped>>
  BY <1>0, <1>1 DEF Answers
<1>2. ASSUME NEW t \in Task, Lapse(t) PROVE Answers'
  BY <1>0, <1>2 DEF Lapse, Book!Lapse, Answers, TypeOK
<1>3. ASSUME NEW p \in Proc, Rename(p) PROVE Answers'
  <2>1. /\ Book!Writes(Head(todo[p]), file)
        /\ file' = Book!Apply(Head(todo[p]), file)
        /\ told' = Book!Told(Head(todo[p]))
        /\ lapsed' = Book!Renewed(Head(todo[p]))
        /\ wiped' = Book!Wiped(Head(todo[p]))
        /\ Head(todo[p]) \in Book!Change
    BY <1>0, <1>3, RenameDoes
  <2>2. PICK c \in Book!Change, b \in Book!Books : c = Head(todo[p]) /\ b = file
    BY <2>1 DEF TypeOK
  <2>3. Book!Writes(c, b) /\ file' = Book!Apply(c, b)
    BY <2>1, <2>2
  <2>4. told' = Book!Told(c) /\ lapsed' = Book!Renewed(c) /\ wiped' = Book!Wiped(c)
    BY <2>1, <2>2 DEF Book!Told, Book!Renewed, Book!Wiped
  <2>5. QED
    BY <1>0, <2>2, <2>3, <2>4, AnswersStay DEF TypeOK
<1>4. QED
  BY <1>0, <1>1, <1>2, <1>3, OnlyRenames


-----------------------------------------------------------------------------
(***************************************************************************)
(* Titles.                                                                 *)
(***************************************************************************)

\* p is now about to make what s makes, of which it found no title in the book.
Announces(p, s) ==
  /\ todo' = [todo EXCEPT ![p] = s] /\ raced' = raced \cup Races(p, s)
  /\ UNCHANGED file
  /\ \A t, u \in Made(s) : Title[t] = Title[u] => t = u
  /\ \A t \in Made(s), u \in file.tasks : Title[t] # Title[u]

\* A handler that looks at the board announces what it will make; every other
\* step leaves less to be made.
LEMMA StepsAnnounce ==
  ASSUME TypeOK, PlaceInv, Next \/ UNCHANGED vars
  PROVE  \/ \E p \in Proc : \E s : Announces(p, s)
         \/ UNCHANGED raced /\ \A q \in Proc : Made(todo'[q]) \subseteq Made(todo[q])
<1> DEFINE Less == UNCHANGED raced /\ \A q \in Proc : Made(todo'[q]) \subseteq Made(todo[q])
           Goal == (\E p \in Proc : \E s : Announces(p, s)) \/ Less
<1>1. ASSUME UNCHANGED <<raced, todo>> PROVE Less
  BY <1>1
<1>2. ASSUME NEW p \in Proc, NEW h \in Asked(p), Open(p, h) PROVE Goal
  <2>1. PICK s : s = Mints(p)
    OBVIOUS
  <2>2. Made(s) \subseteq Missing(file)
    BY <2>1, MintsMake
  <2>3. \A t, u \in Made(s) : Title[t] = Title[u] => t = u
    BY <2>2, TaskStoreAssumption DEF Missing
  <2>4. \A t \in Made(s), u \in file.tasks : Title[t] # Title[u]
    BY <2>2 DEF Missing
  <2>5. Announces(p, s)
    BY <1>2, <2>1, <2>3, <2>4 DEF Announces, Open, bookVars
  <2>6. QED
    BY <2>5
<1>3. ASSUME NEW p \in Proc, Look(p) PROVE Goal
  <2>1. PICK h \in Handler, b \in {file} : h = handler[p] /\ b = file
    BY <1>3 DEF Look, TypeOK
  <2>2. PICK s : s = Plan(h, b)
    OBVIOUS
  <2>3. \A t \in Made(s) : t = h.on /\ \A u \in file.tasks : Title[u] # Title[t]
    BY <2>1, <2>2, PlanMakes
  <2>4. todo' = [todo EXCEPT ![p] = s] /\ raced' = raced \cup Races(p, s) /\ file' = file
    BY <1>3, <2>1, <2>2, Zenon DEF Look, Proceed, bookVars
  <2>5. Announces(p, s)
    BY <2>3, <2>4 DEF Announces
  <2>6. QED
    BY <2>5
<1>4. ASSUME NEW p \in Proc, NEW s \in Seq(Book!Change), NEW b \in BOOLEAN,
             s = <<>> \/ (todo[p] # <<>> /\ s = Tail(todo[p])), Proceed(p, s, b),
             UNCHANGED raced
      PROVE  Less
  <2>1. \A q \in Proc : todo'[q] = IF q = p THEN s ELSE todo[q]
    BY <1>4 DEF Proceed, TypeOK
  <2>2. PICK old \in Seq(Book!Change) : old = todo[p]
    BY DEF TypeOK
  <2>3. Made(s) \subseteq Made(todo[p])
    <3>1. CASE s = <<>>
      BY <3>1 DEF Made
    <3>2. CASE old # <<>> /\ s = Tail(old)
      BY <2>2, <3>2, RestMakes
    <3>3. QED
      BY <1>4, <2>2, <3>1, <3>2
  <2>4. QED
    BY <1>4, <2>1, <2>3
<1>5. ASSUME NEW p \in Proc, Leave(p) PROVE Less
  <2>1. todo[p] # <<>> /\ UNCHANGED raced
    BY <1>5, InsideChange DEF Leave, Release, boardVars
  <2>2. QED
    BY <1>1, <1>4, <1>5, <2>1, LeaveProceeds
<1>6. ASSUME NEW p \in Proc, Die(p) PROVE Less
  <2>1. \A q \in Proc : todo'[q] = IF q = p THEN <<>> ELSE todo[q]
    BY <1>6 DEF Die, Proceed, TypeOK
  <2>2. UNCHANGED raced
    BY <1>6 DEF Die, boardVars
  <2>3. Made(<<>>) = {}
    BY DEF Made
  <2>4. QED
    BY <2>1, <2>2, <2>3
<1>7. QED
  BY <1>1, <1>2, <1>3, <1>5, <1>6
     DEF Next, vars, boardVars, callVars, Time, Lapse, Work, Take, Read, WriteTmp, Rename

\* A rename puts no task into the book but the one its caller is to make.
LEMMA RenameMakes ==
  ASSUME TypeOK, PlaceInv, FreshInv, Locked, NEW p \in Proc, Rename(p)
  PROVE  file'.tasks \subseteq file.tasks \cup Made(todo[p])
<1>1. PICK c \in Book!Change, b \in Book!Books : c = Head(todo[p]) /\ b = file
  BY RenameDoes DEF TypeOK
<1>2. file' = Book!Apply(c, b)
  BY <1>1, RenameDoes
<1>3. c.do = "mint" => c.on \in Made(todo[p])
  <2>1. PICK s \in Seq(Book!Change) : s = todo[p] /\ s # <<>>
    BY InsideChange DEF Rename
  <2>2. c = s[1] /\ 1 \in DOMAIN s
    BY <1>1, <2>1
  <2>3. QED
    BY <2>1, <2>2 DEF Made
<1>4. file'.tasks \subseteq b.tasks \cup (IF c.do = "mint" THEN {c.on} ELSE {})
  BY <1>2 DEF Book!Apply, Book!Change, Book!Books
<1>5. QED
  BY <1>1, <1>3, <1>4

\* Every step keeps TitleInv.
LEMMA TitleStep ==
  ASSUME TypeOK, PlaceInv, FreshInv, TitleInv, Next \/ UNCHANGED vars
  PROVE  TitleInv'
<1> USE DEF OneMakesOne, TwoRace, BookTitles, Clash
<1>1. ASSUME NEW p \in Proc, NEW s, Announces(p, s) PROVE TitleInv'
  <2>1. \A q \in Proc : todo'[q] = IF q = p THEN s ELSE todo[q]
    BY <1>1 DEF Announces, TypeOK
  <2>2. raced \subseteq raced' /\ file' = file
    BY <1>1 DEF Announces
  <2>3. \A q \in Proc : q # p =>
          \A t \in Made(s), u \in Made(todo[q]) : Title[t] = Title[u] => Title[t] \in raced'
    BY <1>1 DEF Announces, Races
  <2>4. OneMakesOne'
    BY <1>1, <2>1 DEF Announces, TitleInv
  <2>5. TwoRace'
    <3> SUFFICES ASSUME NEW q \in Proc, NEW r \in Proc, NEW t \in Made(todo'[q]),
                        NEW u \in Made(todo'[r]), q # r, Title[t] = Title[u]
                 PROVE  Title[t] \in raced'
      OBVIOUS
    <3>1. CASE q = p
      BY <2>1, <2>3, <3>1
    <3>2. CASE r = p
      BY <2>1, <2>3, <3>2
    <3>3. CASE q # p /\ r # p
      BY <2>1, <2>2, <3>3 DEF TitleInv
    <3>4. QED
      BY <3>1, <3>2, <3>3
  <2>6. Locked' => BookTitles'
    <3> SUFFICES ASSUME Locked' PROVE BookTitles'
      OBVIOUS
    <3>1. BookTitles
      BY LockedStays DEF TitleInv, TypeOK
    <3>2. \A t \in Made(s), u \in file.tasks : Title[t] # Title[u]
      BY <1>1 DEF Announces
    <3>3. QED
      BY <2>1, <2>2, <3>1, <3>2
  <2>7. QED
    BY <2>4, <2>5, <2>6 DEF TitleInv
<1>2. ASSUME UNCHANGED raced, \A q \in Proc : Made(todo'[q]) \subseteq Made(todo[q])
      PROVE  TitleInv'
  <2>1. OneMakesOne' /\ TwoRace'
    BY <1>2 DEF TitleInv
  <2>2. ASSUME Locked' PROVE BookTitles'
    <3>1. Locked /\ BookTitles
      BY <2>2, LockedStays DEF TitleInv, TypeOK
    <3>2. CASE file' = file
      BY <1>2, <3>1, <3>2
    <3>3. ASSUME NEW p \in Proc, file'.tasks \subseteq file.tasks \cup Made(todo[p])
          PROVE  BookTitles'
      <4>1. \A t \in Made(todo[p]), u \in Made(todo[p]) : ~Clash(t, u)
        BY DEF TitleInv
      <4>2. \A q \in Proc : \A t \in Made(todo[q]), u \in Made(todo[p]) : ~Clash(t, u)
        BY <4>1 DEF TitleInv
      <4>3. \A t, u \in file.tasks \cup Made(todo[p]) : ~Clash(t, u)
        BY <3>1, <4>1
      <4>4. \A q \in Proc : \A t \in Made(todo'[q]), u \in file'.tasks : ~Clash(t, u)
        BY <1>2, <3>1, <3>3, <4>2
      <4>5. QED
        BY <1>2, <3>3, <4>3, <4>4
    <3>4. QED
      BY <3>1, <3>2, <3>3, OnlyRenames, RenameMakes DEF Lapse, Book!Lapse
  <2>3. QED
    BY <2>1, <2>2 DEF TitleInv
<1>3. QED
  BY <1>1, <1>2, StepsAnnounce


-----------------------------------------------------------------------------
(***************************************************************************)
(* The invariant holds, and what follows.                                  *)
(***************************************************************************)

\* Init establishes the invariant.
LEMMA InvInit == Init => IInv
<1> SUFFICES ASSUME Init PROVE IInv
  OBVIOUS
<1>1. LockInv /\ ContendedInv /\ frozen = FALSE
  BY LockInvInit DEF Init, LockInit, ContendedInv
<1>2. /\ file \in Book!Books /\ file.tasks = {Home}
      /\ lapsed \subseteq Task /\ told \in [Task -> SUBSET Proc]
      /\ wiped \subseteq Task /\ \A t \in Task : told[t] = {}
  BY TaskStoreAssumption DEF Init, Book!Init, Book!EmptyBook, Book!Books
<1>3. TypeOK
  <2>1. spoilt \in BOOLEAN
    BY Zenon DEF Init
  <2>2. tmp \in {<<>>} \cup (Book!Books \X BOOLEAN)
    BY DEF Init
  <2>3. handler \in [Proc -> Handler \cup {NoHandler}]
    BY DEF Init
  <2>4. todo \in [Proc -> Seq(Book!Change)]
    BY DEF Init
  <2>5. loaded \in [Proc -> BOOLEAN] /\ again \in [Proc -> BOOLEAN]
    BY Zenon DEF Init
  <2>6. at \in [Proc -> {"start", "read", "written", "done", "thrown"}]
    BY DEF Init
  <2>7. copy \in [Proc -> [book : Book!Books, corrupt : BOOLEAN]]
    <3>1. Book!EmptyBook \in Book!Books
      BY DEF Book!EmptyBook, Book!Books
    <3>2. PICK b \in Book!Books : b = Book!EmptyBook
      BY <3>1
    <3>3. [book |-> b, corrupt |-> FALSE] \in [book : Book!Books, corrupt : BOOLEAN]
      OBVIOUS
    <3>4. NotRead \in [book : Book!Books, corrupt : BOOLEAN]
      BY <3>2, <3>3, Zenon DEF NotRead
    <3>5. QED
      BY <3>4, Zenon DEF Init
  <2>8. raced \subseteq {Title[t] : t \in Task}
    BY DEF Init
  <2>9. QED
    BY <1>1, <1>2, <2>1, <2>2, <2>3, <2>4, <2>5, <2>6, <2>7, <2>8 DEF TypeOK, LockInv
<1>4. PlaceInv
  BY DEF Init, LockInit, PlaceInv
<1>5. FreshInv
  BY DEF Init, FreshInv, HasRead, HasWritten
<1>6. ToldInv
  BY <1>2 DEF ToldInv, Answers
<1>7. TitleInv
  <2>1. \A p \in Proc : Made(todo[p]) = {}
    BY DEF Init, Made
  <2>2. QED
    BY <1>2, <2>1 DEF TitleInv, OneMakesOne, TwoRace, BookTitles, Clash
<1>8. QED
  BY <1>1, <1>3, <1>4, <1>5, <1>6, <1>7 DEF IInv

\* Every step keeps it.
LEMMA InvStep ==
  ASSUME IInv, [Next]_vars
  PROVE  IInv'
<1>0. TypeOK /\ LockTypeOK /\ LockInv /\ ContendedInv /\ PlaceInv
  BY DEF IInv, TypeOK
<1>1. LockInv' /\ ContendedInv' /\ frozen' = FALSE
  BY <1>0, StepsOfTheLock, LockInvStep, ContendedStep, NotFrozen DEF IInv
<1>2. TypeOK'
  BY <1>0, <1>1, BoardTypeStep, RacedTypeStep, CallTypeStep DEF TypeOK, LockInv
<1>3. PlaceInv' /\ FreshInv'
  BY PlaceStep, FreshStep DEF IInv
<1>4. ToldInv' /\ TitleInv'
  BY ToldStep, TitleStep DEF IInv
<1>5. QED
  BY <1>1, <1>2, <1>3, <1>4 DEF IInv

\* The invariant always holds.
LEMMA InvHolds == Spec => []IInv
<1>1. IInv /\ [Next]_vars => IInv'
  BY InvStep
<1>2. QED
  BY <1>1, InvInit, PTL DEF Spec

\* Every variable keeps its type.
THEOREM StoreTypes == Spec => []TypeOK
<1>1. IInv => TypeOK
  BY DEF IInv
<1>2. QED
  BY <1>1, InvHolds, PTL

\* task-store.ts:12-14: however many processes share the document, they make
\* their changes of it one at a time, each whole and decided by the book it is
\* made in, whatever handlers, crashes and takeovers of the lock come between;
\* unless one goes ahead without the lock, or is robbed of it.
THEOREM ChangesAreAtomic == Spec => Atomic
<1>1. Init => Book!Init
  BY DEF Init
<1>2. ASSUME IInv, IInv', [Next]_vars
      PROVE  [Book!Next \/ lates' > 0 \/ robbed']_<<file, lapsed, told, wiped>>
  <2>1. CASE lates' > 0 \/ robbed'
    BY <2>1
  <2>2. CASE ~(lates' > 0 \/ robbed')
    <3>1. Locked'
      BY <1>2, <2>2 DEF IInv, TypeOK, LockTypeOK, Locked
    <3>2. QED
      BY <1>2, <3>1, LockedStays, BookStep DEF IInv, TypeOK
  <2>3. QED
    BY <2>1, <2>2
<1>3. QED
  BY <1>1, <1>2, InvHolds, PTL DEF Spec, Atomic

\* task-next.ts:7-10, "Two agents taking the same task and doing it twice is
\* the failure mode of every shared queue": no task is ever two callers', by
\* what the board has told them, however many tasks and handlers there are,
\* whatever leases run out and whatever board the handlers had looked at; but
\* for a task whose claim a late minting has wiped.
THEOREM TasksHaveOneClaimant == Spec => []OneClaimant
<1>1. IInv => OneClaimant
  BY DEF IInv, ToldInv, Answers, Locked, OneClaimant, Book!OneClaimant
<1>2. QED
  BY <1>1, InvHolds, PTL

\* task-web.ts:119-120, "Same title = same work. Creating a second one silently
\* would split a delivery's metrics in two": no two tasks have one title,
\* however many handlers create, mint and delete, and whichever die half-way;
\* but a title that two handlers were about to make a task of at once.
THEOREM TitlesNameOneTask == Spec => []OneTaskPerTitle
<1>1. IInv => OneTaskPerTitle
  BY DEF IInv, TitleInv, BookTitles, Clash, Locked, OneTaskPerTitle
<1>2. QED
  BY <1>1, InvHolds, PTL
=============================================================================
