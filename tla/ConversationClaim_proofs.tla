---------------------- MODULE ConversationClaim_proofs ----------------------
(***************************************************************************)
(* Proofs about ConversationClaim, for any number of calls, rows,          *)
(* processes and conversations, and any number of mishaps and restarts.    *)
(*                                                                         *)
(* The invariant has two layers.  Base holds whatever the calls see: the   *)
(* first of a chain has its conversation to itself, and a row without a    *)
(* pane has a call that answers for it.  IInv adds what a call knows of    *)
(* the world past its last look, and that it stays so until the call acts, *)
(* but for the rows and the conversations that the histories name: what a  *)
(* call has misjudged stays misjudged, and the others go on undisturbed.   *)
(***************************************************************************)
EXTENDS ConversationClaim, FiniteSetTheorems, WellFoundedInduction, TLAPS

\* Numbers: a nonempty set of naturals has a least element.
LEMMA SmallestNumber ==
  ASSUME NEW T \in SUBSET Nat, T # {}
  PROVE  \E x \in T : \A y \in T : x <= y
<1>1. \E x \in T : \A y \in T : <<y, x>> \notin OpToRel(<, Nat)
  BY NatLessThanWellFounded, WFMin, Zenon
<1>2. OpToRel(<, Nat) = {ss \in Nat \X Nat : ss[1] < ss[2]}
  BY Zenon DEF OpToRel
<1>3. \E x \in T : \A y \in T : <<y, x>> \notin {ss \in Nat \X Nat : ss[1] < ss[2]}
  BY <1>1, <1>2, Zenon
<1>4. \A x, y \in Nat : y < x => <<y, x>> \in {ss \in Nat \X Nat : ss[1] < ss[2]}
  OBVIOUS
<1>5. \E x \in T : \A y \in T : ~(y < x)
  BY <1>3, <1>4, Zenon
<1>6. QED
  BY <1>5

-----------------------------------------------------------------------------
(* What holds whatever others may see: a call past the lock of its          *)
(* conversation is the first of its chain.                                 *)

Place == {"idle", "asked", "plan", "next", "confirm", "ending", "gate", "pane", "settle",
          "abandon", "list", "read", "patch", "supersede", "retire", "done", "lost"}

Job == [at : Place, kind : {"resume", "reopen", "start", "end", None},
        conv : Conv \cup {None}, old : Id \cup {None}, new : Id \cup {None},
        todo : SUBSET Id, ids : SUBSET Id, doomed : SUBSET Id,
        target : Proc \cup Id \cup {None}, last : BOOLEAN]

\* Where a call is that has its conversation to itself.
Locked == {"confirm", "ending", "gate", "pane", "settle", "abandon", "list", "read",
           "patch", "supersede"}

LockInv(r) ==
  /\ \A i \in job[r].todo : row[i] # "free"
  /\ Locks(r) /\ job[r].at \in Locked => Inside(r)
  /\ Locks(r) /\ job[r].at \in Locked \cup {"asked"} => job[r].conv \in Conv
  /\ job[r].at \in {"gate", "pane"} => job[r].conv \in Conv
  /\ job[r].at \in {"confirm", "ending"} => Locks(r)
  /\ At(r, "retire") => job[r].kind = "end" /\ job[r].old \in Id
  /\ job[r].at \in {"pane", "settle", "abandon"} =>
       job[r].new \in Id /\ row[job[r].new] # "free"
  /\ At(r, "idle") => job[r] = Idle

RowInv == \A i \in Id : row[i] # "free" => conv[i] \in Conv

Base == TypeOK /\ RowInv /\ (\A r \in Req : LockInv(r)) /\ NoRowWithoutPane

-----------------------------------------------------------------------------
(* What a call knows past its last look, whatever has been misjudged.      *)

\* Who drives a conversation.
Live(c) == (Up \cap RowsOf(c)) \cup {p \in Proc : proc[p] = c}

\* A row whose pane has fallen; one that is over, or was taken for it.
Fell(i) == pane[i] \in {"dead", "gone"}
Over(i) == Fell(i) \/ i \in early

\* A conversation about which nobody has been wrong.
Clean(c) == c \notin misread /\ \A i \in early : conv[i] # c

\* A call that launches a session, and one that is about to.
Launching(r) == job[r].at \in {"pane", "settle", "abandon"}
Starting(r)  == job[r].kind = "start" /\ job[r].at \in {"gate", "pane"}

\* The rows a call will mark are rows of sessions that are over. A pane that a
\* start has not listed and may take for fallen has been noted.
OverInv(r) ==
  /\ job[r].old # None =>
       /\ Over(job[r].old) /\ row[job[r].old] # "free"
       /\ Locks(r) => conv[job[r].old] = job[r].conv
  /\ job[r].at \notin {"plan", "done"} => \A i \in job[r].todo : Over(i) /\ Begun(conv[i])
  /\ \A i \in job[r].doomed : Over(i)
  /\ At(r, "read") => \A i \in Up \ (job[r].ids \cup {job[r].new}) :
                        DirOf[conv[i]] = DirOf[job[r].conv] => i \in early

\* The row a call opens is its own.
OpeningInv(r) ==
  /\ At(r, "pane") => /\ row[job[r].new] = "standing" \/ job[r].new \in early
                      /\ conv[job[r].new] = job[r].conv
                      /\ pane[job[r].new] = "unborn"
  /\ At(r, "settle") => pane[job[r].new] # "unborn"
  /\ At(r, "abandon") => pane[job[r].new] # "up"
  /\ \A q \in Req : Launching(r) /\ Launching(q) /\ job[q].new = job[r].new => q = r

\* What a call knows of its conversation, if nobody has been wrong about it.
ClaimInv(r) ==
  /\ job[r].at \in {"gate", "pane"} => job[r].kind \in {"resume", "reopen", "start"}
  /\ job[r].at \in {"confirm", "ending"} =>
       Locks(r) /\ (Clean(job[r].conv) => Live(job[r].conv) \subseteq {job[r].target})
  /\ job[r].at \in {"gate", "pane"} => (Clean(job[r].conv) => Live(job[r].conv) = {})
  /\ job[r].at \notin {"plan", "done"} =>
       \A i \in job[r].todo : Clean(conv[i]) => \A p \in Proc : proc[p] # conv[i]
  /\ job[r].kind = "reopen" /\ job[r].conv # None =>
       (Clean(job[r].conv) => \A p \in Proc : proc[p] # job[r].conv)
  /\ Starting(r) =>
       /\ \A i \in RowsOf(job[r].conv) : pane[i] = "unborn"
       /\ job[r].conv \in Fresh
       /\ \A q \in Req : job[q].conv = job[r].conv => q = r

WorldInv ==
  /\ \A i \in Id : row[i] = "free" => pane[i] = "unborn"
  /\ \A i \in early : row[i] # "free"
  /\ \A p \in Proc : proc[p] \notin Fresh
  /\ \A c \in Conv : Clean(c) => \A x, y \in Live(c) : x = y
  /\ LiveRowsStand

JobInv(r) == OverInv(r) /\ OpeningInv(r) /\ ClaimInv(r)

IInv == Base /\ WorldInv /\ \A r \in Req : JobInv(r)

-----------------------------------------------------------------------------
(* Helpers.                                                                *)

\* The least of some ids is one of them.
LEMMA LeastIn ==
  ASSUME NEW S \in SUBSET Id, S # {}
  PROVE  Least(S) \in S
<1>1. Cardinality(Id) \in Nat /\ S \subseteq Nat
  BY ClaimAssumption, FS_CardinalityType DEF ClaimAssumption
<1>2. PICK n \in S : \A m \in S : n <= m
  BY <1>1, SmallestNumber
<1>3. QED
  BY <1>2 DEF Least

\* Reads that fail are counted by a number, and the bound is kept.
LEMMA BlindType ==
  ASSUME TypeOK, NEW hidden \in SUBSET Sources, Blind(hidden)
  PROVE  mishaps' \in 0..MaxMishaps
<1>1. IsFiniteSet({"rows"}) /\ IsFiniteSet({"rows"} \cup {"panes"})
  BY FS_Singleton, FS_AddElement
<1>2. IsFiniteSet({"rows", "panes", "procs"})
  <2>1. {"rows", "panes", "procs"} = ({"rows"} \cup {"panes"}) \cup {"procs"}
    OBVIOUS
  <2>2. QED
    BY <1>1, <2>1, FS_AddElement
<1>3. Cardinality(hidden) \in Nat
  BY <1>2, FS_Subset, FS_CardinalityType DEF Sources
<1>4. QED
  BY <1>3, ClaimAssumption DEF ClaimAssumption, Blind, TypeOK

\* So it is by any other mishap.
LEMMA MishapType ==
  ASSUME TypeOK, Mishap
  PROVE  mishaps' \in 0..MaxMishaps
BY ClaimAssumption DEF ClaimAssumption, Mishap, TypeOK

\* A call that sets out holds nothing.
LEMMA IdleType == Idle \in Job
BY DEF Idle, Job, Place

\* The parts of a call.
LEMMA JobFields ==
  ASSUME TypeOK, NEW r \in Req
  PROVE  /\ job \in [Req -> Job] /\ job[r] \in Job
         /\ job[r].todo \subseteq Id /\ job[r].ids \subseteq Id /\ job[r].doomed \subseteq Id
         /\ job[r].conv \in Conv \cup {None}
         /\ job[r].old \in Id \cup {None} /\ job[r].new \in Id \cup {None}
<1>1. job \in [Req -> Job]
  BY DEF TypeOK, Job, Place
<1>2. QED
  BY <1>1 DEF Job

\* A step that sets one call leaves the others alone.
Sets(r, J) ==
  /\ job' = [job EXCEPT ![r] = J]
  /\ job' \in [Req -> Job]
  /\ job'[r] = J
  /\ \A q \in Req : q # r => job'[q] = job[q]

\* A step that sets one call leaves the others alone.
LEMMA SetsJob ==
  ASSUME TypeOK, NEW r \in Req, NEW J \in Job, job' = [job EXCEPT ![r] = J]
  PROVE  Sets(r, J)
BY JobFields DEF Sets

\* So does one that sends a call to another place.
LEMMA GoesSets ==
  ASSUME TypeOK, NEW r \in Req, NEW place \in Place, Goes(r, place)
  PROVE  /\ Sets(r, [job[r] EXCEPT !.at = place])
         /\ [job[r] EXCEPT !.at = place] \in Job
<1>1. [job[r] EXCEPT !.at = place] \in Job
  BY JobFields DEF Job
<1>2. job' = [job EXCEPT ![r] = [job[r] EXCEPT !.at = place]]
  BY DEF Goes
<1>3. QED
  BY <1>1, <1>2, SetsJob

-----------------------------------------------------------------------------
(* The chains.                                                             *)

\* What a call does to the chains: nothing, or it joins one, or it leaves the
\* one it was the first of.
ChainMoves(r) ==
  \/ chain' = chain
  \/ \E c \in Conv : chain' = [chain EXCEPT ![c] = Append(chain[c], r)]
  \/ /\ Locks(r) /\ Inside(r) /\ job[r].conv \in Conv
     /\ chain' = [chain EXCEPT ![job[r].conv] = Tail(chain[job[r].conv])]

\* Whatever a call does to the chains, they stay chains.
LEMMA ChainType ==
  ASSUME TypeOK, NEW r \in Req, ChainMoves(r)
  PROVE  chain' \in [Conv -> Seq(Req)]
<1>1. chain \in [Conv -> Seq(Req)]
  BY DEF TypeOK
<1>2. CASE chain' = chain
  BY <1>1, <1>2
<1>3. CASE \E c \in Conv : chain' = [chain EXCEPT ![c] = Append(chain[c], r)]
  BY <1>1, <1>3
<1>4. CASE /\ Locks(r) /\ Inside(r) /\ job[r].conv \in Conv
           /\ chain' = [chain EXCEPT ![job[r].conv] = Tail(chain[job[r].conv])]
  <2>1. PICK s \in Seq(Req) : s = chain[job[r].conv]
    BY <1>1, <1>4
  <2>2. s # <<>>
    BY <1>4, <2>1 DEF Inside
  <2>3. Tail(s) \in Seq(Req)
    BY <2>2
  <2>4. QED
    BY <1>1, <1>4, <2>1, <2>3
<1>5. QED
  BY <1>2, <1>3, <1>4 DEF ChainMoves

\* The first of a chain stays the first, whatever the others do.
LEMMA OthersInside ==
  ASSUME TypeOK, NEW r \in Req, ChainMoves(r), NEW q \in Req, q # r,
         Inside(q), job[q].conv \in Conv, job'[q] = job[q]
  PROVE  Inside(q)'
<1>1. chain \in [Conv -> Seq(Req)]
  BY DEF TypeOK
<1>2. CASE chain' = chain
  BY <1>2 DEF Inside
<1>3. CASE \E c \in Conv : chain' = [chain EXCEPT ![c] = Append(chain[c], r)]
  <2>1. PICK c \in Conv : chain' = [chain EXCEPT ![c] = Append(chain[c], r)]
    BY <1>3
  <2>2. CASE c = job[q].conv
    <3>1. PICK s \in Seq(Req) : s = chain[c]
      BY <1>1
    <3>2. s # <<>> /\ Head(s) = q
      BY <2>2, <3>1 DEF Inside
    <3>3. Append(s, r) # <<>> /\ Head(Append(s, r)) = q
      BY <3>2
    <3>4. chain'[c] = Append(s, r)
      BY <1>1, <2>1, <3>1
    <3>5. QED
      BY <2>2, <3>3, <3>4 DEF Inside
  <2>3. CASE c # job[q].conv
    BY <1>1, <2>1, <2>3 DEF Inside
  <2>4. QED
    BY <2>2, <2>3
<1>4. CASE /\ Locks(r) /\ Inside(r) /\ job[r].conv \in Conv
           /\ chain' = [chain EXCEPT ![job[r].conv] = Tail(chain[job[r].conv])]
  BY <1>1, <1>4 DEF Inside
<1>5. QED
  BY <1>2, <1>3, <1>4 DEF ChainMoves

\* A call that is over, or goes on with its next row, has left its chain.
LEMMA FinishMoves ==
  ASSUME TypeOK, NEW r \in Req, Finish(r), Locks(r) => Inside(r) /\ job[r].conv \in Conv
  PROVE  /\ ChainMoves(r)
         /\ \E J \in Job :
              /\ Sets(r, J)
              /\ J.at \in {"next", "done"} /\ J.todo \subseteq job[r].todo
              /\ J.at = "done" => J.todo = {}
              /\ J.kind \in {"reopen", None}
              /\ J.conv = None /\ J.old = None /\ J.new = None
              /\ J.ids = {} /\ J.doomed = {}
<1>1. ChainMoves(r)
  BY DEF Finish, ChainMoves
<1>2. CASE job[r].kind = "reopen"
  <2> DEFINE J == [Idle EXCEPT !.at = "next", !.kind = "reopen", !.todo = job[r].todo]
  <2>1. J \in Job
    BY JobFields, IdleType DEF Job, Place
  <2>2. Sets(r, J)
    BY <1>2, <2>1, SetsJob DEF Finish
  <2>3. QED
    BY <1>1, <2>1, <2>2, IdleType DEF Idle
<1>3. CASE job[r].kind # "reopen"
  <2> DEFINE J == [Idle EXCEPT !.at = "done"]
  <2>1. J \in Job
    BY IdleType DEF Job, Place
  <2>2. Sets(r, J)
    BY <1>3, <2>1, SetsJob DEF Finish
  <2>3. QED
    BY <1>1, <2>1, <2>2, IdleType DEF Idle
<1>4. QED
  BY <1>2, <1>3

-----------------------------------------------------------------------------
(* The histories.                                                          *)

HistoryType == early \subseteq Id /\ misread \subseteq Conv

\* They only grow, and name rows that have begun.
Noted ==
  /\ early \subseteq early' /\ misread \subseteq misread' /\ HistoryType'
  /\ \A i \in early' : i \in early \/ row[i] # "free"

\* Whatever a call does, it notes no more than rows and conversations.
LEMMA CallNotes ==
  ASSUME Base, NEW r \in Req, Ask(r) \/ Serve(r)
  PROVE  Noted
<1>0. /\ HistoryType /\ TypeOK /\ LockInv(r) /\ RowInv /\ job[r].todo \subseteq Id
  BY JobFields DEF Base, TypeOK, HistoryType
<1>1. CASE AskResume(r) \/ Kill(r)
  <2>1. PICK i \in Offered \cup {None} : early' = early \cup ({i} \cap Unborn) /\ misread' = misread
    BY <1>1, Zenon DEF AskResume, Kill
  <2>2. {i} \cap Unborn \subseteq {j \in Id : row[j] # "free"}
    BY <2>1, ClaimAssumption DEF ClaimAssumption, Unborn, Offered
  <2>3. QED
    BY <1>0, <2>1, <2>2 DEF Noted, HistoryType
<1>2. CASE ReadClaims(r) \/ Recheck(r)
  <2>1. job[r].conv \in Conv
    BY <1>0, <1>2 DEF ReadClaims, Recheck, At, LockInv, Locks
  <2>2. misread' \subseteq misread \cup {job[r].conv} /\ misread \subseteq misread' /\ early' = early
    BY <1>2 DEF ReadClaims, Recheck
  <2>3. QED
    BY <1>0, <2>1, <2>2 DEF Noted, HistoryType
<1>3. CASE Plan(r)
  <2>1. CASE UNCHANGED history
    BY <1>0, <2>1 DEF Noted, HistoryType, history
  <2>2. CASE \E hidden \in SUBSET Sources :
               LET chosen == Reopenable(job[r].todo, hidden) IN
               /\ early' = early \cup (chosen \cap Unborn)
               /\ misread' = misread \cup {conv[i] : i \in {j \in chosen : Hides(conv[j], hidden, j)}}
    <3>1. PICK hidden \in SUBSET Sources :
               LET chosen == Reopenable(job[r].todo, hidden) IN
               /\ early' = early \cup (chosen \cap Unborn)
               /\ misread' = misread \cup {conv[i] : i \in {j \in chosen : Hides(conv[j], hidden, j)}}
      BY <2>2, Zenon
    <3>2. PICK S \in SUBSET job[r].todo : S = Reopenable(job[r].todo, hidden)
      BY DEF Reopenable
    <3>3. \A i \in S : i \in Id /\ row[i] # "free" /\ conv[i] \in Conv
      BY <1>0, <3>2 DEF LockInv, RowInv
    <3>4. early' = early \cup (S \cap Unborn)
      BY <3>1, <3>2, Zenon
    <3>5. misread' = misread \cup {conv[i] : i \in {j \in S : Hides(conv[j], hidden, j)}}
      BY <3>1, <3>2, Zenon
    <3>6. early \subseteq early' /\ early' \subseteq Id /\ \A i \in early' : i \in early \/ row[i] # "free"
      BY <1>0, <3>3, <3>4 DEF HistoryType
    <3>7. misread \subseteq misread' /\ misread' \subseteq Conv
      BY <1>0, <3>3, <3>5, Zenon DEF HistoryType
    <3>8. QED
      BY <3>6, <3>7 DEF Noted, HistoryType
  <2>3. QED
    BY <1>3, <2>1, <2>2, Zenon DEF Plan
<1>4. CASE SpawnPane(r)
  <2>1. job[r].new \in Id /\ row[job[r].new] # "free"
    BY <1>0, <1>4 DEF SpawnPane, At, LockInv
  <2>2. early \subseteq early' /\ early' \subseteq early \cup {job[r].new} /\ misread' = misread
    BY <1>4 DEF SpawnPane, Missed
  <2>3. QED
    BY <1>0, <2>1, <2>2 DEF Noted, HistoryType
<1>5. CASE ReadRows(r)
  <2>1. early' = early \cup (Fallen(r) \cap Unborn) /\ misread' = misread
    BY <1>5 DEF ReadRows
  <2>2. Fallen(r) \subseteq {i \in Id : row[i] # "free"}
    BY DEF Fallen, Standing
  <2>3. QED
    BY <1>0, <2>1, <2>2 DEF Noted, HistoryType
<1>6. CASE UNCHANGED history
  BY <1>0, <1>6 DEF Noted, HistoryType, history
<1>7. CASE \/ AskReopen(r) \/ AskStart(r) \/ Retire(r) \/ Confirm(r) \/ HolderGone(r)
           \/ WillNotDie(r) \/ NextRow(r) \/ LastRow(r) \/ Refuse(r) \/ AddRow(r)
           \/ Settle(r) \/ Abandon(r) \/ ListPanes(r) \/ RetireOne(r) \/ Retired(r)
           \/ Supersede(r)
  <2>1. UNCHANGED history
    BY <1>7, Zenon DEF AskReopen, AskStart, Retire, Confirm, HolderGone, WillNotDie, NextRow,
       LastRow, Refuse, AddRow, Settle, Abandon, ListPanes, RetireOne, Retired, Supersede
  <2>2. QED
    BY <1>6, <2>1
<1>8. QED
  BY <1>1, <1>2, <1>3, <1>4, <1>5, <1>7, Zenon DEF Ask, Serve

\* The machine notes nothing.
LEMMA MachineNotes == Machine => UNCHANGED history
BY Zenon DEF Machine, Fall, PaneEnds, ProcessEnds, Restart

-----------------------------------------------------------------------------
(* The steps of a call keep what holds whatever others may see.            *)

\* Rows are begun once and their conversation is fixed at birth.
RowsKept ==
  \A i \in Id : row[i] # "free" => row'[i] # "free" /\ conv'[i] = conv[i]

WorldType ==
  /\ row \in [Id -> {"free", "standing", "ended", "removed"}]
  /\ conv \in [Id -> Conv \cup {None}]
  /\ pane \in [Id -> {"unborn", "up", "dead", "gone"}]
  /\ proc \in [Proc -> Conv \cup {None}]

\* What a step of a call does.
CallStep(r) ==
  /\ \E J \in Job : Sets(r, J)
  /\ ChainMoves(r)
  /\ WorldType' /\ mishaps' \in 0..MaxMishaps
  /\ RowsKept /\ RowInv' /\ LockInv(r)'

\* A step that leaves the rows alone.
LEMMA SameRows ==
  ASSUME Base, UNCHANGED <<row, conv>>
  PROVE  RowsKept /\ RowInv'
BY DEF RowsKept, RowInv, Base

\* So does one that leaves the world alone.
LEMMA SameWorld ==
  ASSUME Base, UNCHANGED <<row, conv, pane, proc>>
  PROVE  WorldType' /\ RowsKept /\ RowInv'
BY SameRows DEF WorldType, Base, TypeOK

\* A row that is marked is a row.
LEMMA MarkedRow ==
  ASSUME Base, UNCHANGED <<conv, pane, proc>>, NEW i \in Id, row[i] # "free",
         NEW how \in {"standing", "ended", "removed"}, row' = [row EXCEPT ![i] = how]
  PROVE  WorldType' /\ RowsKept /\ RowInv'
BY DEF WorldType, RowsKept, RowInv, Base, TypeOK

\* A call that leaves its chain.
LEMMA FinishStep ==
  ASSUME Base, NEW r \in Req, Finish(r), Locks(r) => Inside(r) /\ job[r].conv \in Conv,
         WorldType', mishaps' \in 0..MaxMishaps, RowsKept, RowInv'
  PROVE  CallStep(r)
<1>1. TypeOK /\ LockInv(r)
  BY DEF Base
<1>2. PICK J \in Job :
        /\ Sets(r, J) /\ ChainMoves(r)
        /\ J.at \in {"next", "done"} /\ J.todo \subseteq job[r].todo
  BY <1>1, FinishMoves
<1>3. job[r].todo \subseteq Id
  BY <1>1, JobFields
<1>4. LockInv(r)'
  BY <1>1, <1>2, <1>3 DEF LockInv, Locked, Sets, At, RowsKept
<1>5. QED
  BY <1>2, <1>4 DEF CallStep

\* A call that goes to another place, its chain and its conversation the same.
LEMMA GoesStep ==
  ASSUME Base, NEW r \in Req, NEW J \in Job, job' = [job EXCEPT ![r] = J], UNCHANGED chain,
         J.kind = job[r].kind, J.conv = job[r].conv, J.todo \subseteq job[r].todo,
         J.at \in Locked \cup {"asked"} /\ Locks(r) => job[r].conv \in Conv,
         J.at \in Locked /\ Locks(r) => Inside(r),
         J.at \in {"gate", "pane"} => job[r].conv \in Conv,
         J.at \notin {"retire", "idle"}, J.at \in {"confirm", "ending"} => Locks(r),
         J.at \in {"pane", "settle", "abandon"} => J.new \in Id /\ row'[J.new] # "free",
         WorldType', mishaps' \in 0..MaxMishaps, RowsKept, RowInv'
  PROVE  CallStep(r)
<1>1. TypeOK /\ LockInv(r) /\ Sets(r, J)
  BY SetsJob DEF Base
<1>2. job[r].todo \subseteq Id
  BY <1>1, JobFields
<1>3. Locks(r)' = Locks(r) /\ (Inside(r) => Inside(r)')
  BY <1>1 DEF Locks, Inside, Sets
<1>4. LockInv(r)'
  BY <1>1, <1>2, <1>3 DEF LockInv, Sets, At, RowsKept
<1>5. QED
  BY <1>1, <1>4 DEF CallStep, ChainMoves

\* A call begins: it joins its chain, or needs none.
LEMMA AskStep ==
  ASSUME Base, NEW r \in Req, Ask(r)
  PROVE  CallStep(r)
<1>0. /\ TypeOK /\ LockInv(r) /\ Idle \in Job
      /\ mishaps \in 0..MaxMishaps
  BY IdleType DEF Base, TypeOK
<1>1. CASE AskResume(r)
  <2>1. PICK c \in Conv, i \in Id \cup {None} :
          /\ job' = [job EXCEPT ![r] =
                      [Idle EXCEPT !.at = "asked", !.kind = "resume", !.conv = c, !.old = i]]
          /\ Joins(r, c)
    BY <1>1, Zenon DEF AskResume, Offered
  <2> DEFINE J == [Idle EXCEPT !.at = "asked", !.kind = "resume", !.conv = c, !.old = i]
  <2>2. /\ J \in Job /\ J.at = "asked" /\ J.conv = c /\ J.todo = {}
    BY <1>0 DEF Job, Place, Idle
  <2>3. Sets(r, J)
    BY <1>0, <2>1, <2>2, SetsJob
  <2>4. ChainMoves(r)
    BY <2>1 DEF Joins, ChainMoves
  <2>5. LockInv(r)'
    BY <2>2, <2>3 DEF LockInv, Sets, At, Locked
  <2>6. QED
    BY <1>0, <1>1, <2>2, <2>3, <2>4, <2>5, SameWorld DEF CallStep, AskResume
<1>2. CASE AskReopen(r)
  <2>1. PICK S \in SUBSET Standing :
          job' = [job EXCEPT ![r] = [Idle EXCEPT !.at = "plan", !.kind = "reopen", !.todo = S]]
    BY <1>2 DEF AskReopen
  <2> DEFINE J == [Idle EXCEPT !.at = "plan", !.kind = "reopen", !.todo = S]
  <2>2. J \in Job /\ J.at = "plan" /\ J.todo = S
    BY <1>0 DEF Job, Place, Idle, Standing
  <2>3. Sets(r, J)
    BY <1>0, <2>1, <2>2, SetsJob
  <2>4. LockInv(r)'
    BY <1>2, <2>2, <2>3 DEF LockInv, Sets, At, Locked, Standing, AskReopen
  <2>5. QED
    BY <1>0, <1>2, <2>2, <2>3, <2>4, SameWorld DEF CallStep, ChainMoves, AskReopen
<1>3. CASE AskStart(r)
  <2>1. PICK c \in Fresh :
          job' = [job EXCEPT ![r] = [Idle EXCEPT !.at = "gate", !.kind = "start", !.conv = c]]
    BY <1>3 DEF AskStart
  <2> DEFINE J == [Idle EXCEPT !.at = "gate", !.kind = "start", !.conv = c]
  <2>2. c \in Conv
    BY ClaimAssumption DEF ClaimAssumption
  <2>3. /\ J \in Job /\ J.at = "gate" /\ J.conv = c /\ J.todo = {} /\ J.kind = "start"
    BY <1>0, <2>2 DEF Job, Place, Idle
  <2>4. Sets(r, J)
    BY <1>0, <2>1, <2>3, SetsJob
  <2>5. LockInv(r)'
    BY <2>2, <2>3, <2>4 DEF LockInv, Sets, At, Locked, Locks
  <2>6. QED
    BY <1>0, <1>3, <2>3, <2>4, <2>5, SameWorld DEF CallStep, ChainMoves, AskStart
<1>4. CASE Kill(r)
  <2>1. PICK i \in Id :
          /\ pane' = [pane EXCEPT ![i] = IF pane[i] = "unborn" THEN pane[i] ELSE "gone"]
          /\ job' = [job EXCEPT ![r] = [Idle EXCEPT !.at = "retire", !.kind = "end", !.old = i]]
    BY <1>4, Zenon DEF Kill, Offered
  <2> DEFINE J == [Idle EXCEPT !.at = "retire", !.kind = "end", !.old = i]
  <2>2. /\ J \in Job /\ J.at = "retire" /\ J.old = i /\ J.todo = {} /\ J.kind = "end"
    BY <1>0 DEF Job, Place, Idle
  <2>3. Sets(r, J)
    BY <1>0, <2>1, <2>2, SetsJob
  <2>4. LockInv(r)'
    BY <2>2, <2>3 DEF LockInv, Sets, At, Locked
  <2>5. WorldType'
    BY <1>0, <1>4, <2>1 DEF WorldType, TypeOK, Kill
  <2>6. QED
    BY <1>0, <1>4, <2>2, <2>3, <2>4, <2>5, SameRows DEF CallStep, ChainMoves, Kill
<1>5. QED
  BY <1>1, <1>2, <1>3, <1>4 DEF Ask

\* Whom a claim names.
LEMMA HolderType ==
  ASSUME NEW c, NEW hidden, NEW except, NEW h \in HeldBy(c, hidden, except),
         h.kind # "managed"
  PROVE  h.who \in Proc \cup Id
BY DEF HeldBy, Holders, Up

\* Resuming: the claims are read, and a holder is ended.
LEMMA ResumeStep ==
  ASSUME Base, NEW r \in Req, ReadClaims(r) \/ Confirm(r) \/ HolderGone(r) \/ WillNotDie(r)
  PROVE  CallStep(r)
<1>0. /\ TypeOK /\ LockInv(r) /\ mishaps \in 0..MaxMishaps /\ job[r] \in Job
  BY JobFields DEF Base, TypeOK
<1>1. WorldType' /\ RowsKept /\ RowInv'
  BY SameWorld DEF ReadClaims, Confirm, HolderGone, WillNotDie
<1>2. CASE ReadClaims(r)
  <2>1. PICK hidden \in SUBSET Sources :
          /\ Blind(hidden)
          /\ LET held == HeldBy(job[r].conv, hidden, job[r].old)
             IN  \/ held = {} /\ Goes(r, "gate") /\ UNCHANGED chain
                 \/ \E h \in held :
                      IF h.kind = "managed" THEN Finish(r)
                      ELSE /\ job' = [job EXCEPT ![r] =
                                       [job[r] EXCEPT !.at = "confirm", !.target = h.who]]
                           /\ UNCHANGED chain
    BY <1>2 DEF ReadClaims
  <2>2. mishaps' \in 0..MaxMishaps
    BY <1>0, <2>1, BlindType
  <2>3. Locks(r) /\ Inside(r) /\ job[r].conv \in Conv
    BY <1>0, <1>2 DEF ReadClaims, At, Locks, LockInv
  <2>4. CASE Goes(r, "gate") /\ UNCHANGED chain
    <3> DEFINE J == [job[r] EXCEPT !.at = "gate"]
    <3>1. J \in Job /\ J.at = "gate" /\ J.kind = job[r].kind /\ J.conv = job[r].conv
             /\ J.todo = job[r].todo
      BY <1>0 DEF Job, Place
    <3>2. job' = [job EXCEPT ![r] = J]
      BY <2>4 DEF Goes
    <3> HIDE DEF J
    <3>3. QED
      BY <1>1, <2>2, <2>3, <2>4, <3>1, <3>2, GoesStep
  <2>5. CASE Finish(r)
    BY <1>1, <2>2, <2>3, <2>5, FinishStep
  <2>6. ASSUME NEW h \in HeldBy(job[r].conv, hidden, job[r].old), h.kind # "managed",
               job' = [job EXCEPT ![r] = [job[r] EXCEPT !.at = "confirm", !.target = h.who]],
               UNCHANGED chain
        PROVE  CallStep(r)
    <3> DEFINE J == [job[r] EXCEPT !.at = "confirm", !.target = h.who]
    <3>0. h.who \in Proc \cup Id
      BY <2>6, HolderType
    <3>1. J \in Job /\ J.at = "confirm" /\ J.kind = job[r].kind /\ J.conv = job[r].conv
             /\ J.todo = job[r].todo
      BY <1>0, <3>0 DEF Job, Place
    <3>2. job' = [job EXCEPT ![r] = J]
      BY <2>6
    <3> HIDE DEF J
    <3>3. QED
      BY <1>1, <2>2, <2>3, <2>6, <3>1, <3>2, GoesStep
  <2>7. QED
    BY <2>1, <2>4, <2>5, <2>6
<1>3. CASE Confirm(r) \/ HolderGone(r) \/ WillNotDie(r)
  <2>1. mishaps' \in 0..MaxMishaps
    BY <1>0, <1>3 DEF Confirm, HolderGone, WillNotDie
  <2>2. Locks(r) => Inside(r) /\ job[r].conv \in Conv
    BY <1>0, <1>3 DEF Confirm, HolderGone, WillNotDie, At, LockInv, Locked
  <2>3. CASE Finish(r)
    BY <1>1, <2>1, <2>2, <2>3, FinishStep
  <2>4. CASE Confirm(r) /\ Goes(r, "ending") /\ UNCHANGED chain
    <3> DEFINE J == [job[r] EXCEPT !.at = "ending"]
    <3>1. J \in Job /\ J.at = "ending" /\ J.kind = job[r].kind /\ J.conv = job[r].conv
             /\ J.todo = job[r].todo
      BY <1>0 DEF Job, Place
    <3>2. job' = [job EXCEPT ![r] = J]
      BY <2>4 DEF Goes
    <3> HIDE DEF J
    <3>3. QED
      BY <1>0, <1>1, <2>1, <2>2, <2>4, <3>1, <3>2, GoesStep DEF Confirm, LockInv, At
  <2>5. CASE HolderGone(r) /\ job[r].conv \in Conv
    <3> DEFINE J == [job[r] EXCEPT !.at = "gate", !.target = None]
    <3>1. J \in Job /\ J.at = "gate" /\ J.kind = job[r].kind /\ J.conv = job[r].conv
             /\ J.todo = job[r].todo
      BY <1>0 DEF Job, Place
    <3>2. job' = [job EXCEPT ![r] = J]
      BY <2>5 DEF HolderGone
    <3> HIDE DEF J
    <3>3. QED
      BY <1>0, <1>1, <2>1, <2>2, <2>5, <3>1, <3>2, GoesStep DEF HolderGone, LockInv, At
  <2>6. HolderGone(r) => Locks(r)
    BY <1>0 DEF HolderGone, At, LockInv
  <2>7. QED
    BY <1>3, <2>2, <2>3, <2>4, <2>5, <2>6 DEF Confirm, HolderGone, WillNotDie
<1>4. QED
  BY <1>2, <1>3

\* Reopening: the plan, and its rows one at a time.
LEMMA ReopenStep ==
  ASSUME Base, NEW r \in Req, Plan(r) \/ NextRow(r) \/ LastRow(r) \/ Recheck(r)
  PROVE  CallStep(r)
<1>0. /\ TypeOK /\ LockInv(r) /\ mishaps \in 0..MaxMishaps /\ job[r] \in Job
      /\ job[r].todo \subseteq Id
  BY JobFields DEF Base, TypeOK
<1>1. WorldType' /\ RowsKept /\ RowInv'
  BY SameWorld DEF Plan, NextRow, LastRow, Recheck
<1>2. CASE Plan(r)
  <2>1. CASE \E hidden \in SUBSET Sources :
            /\ Blind(hidden)
            /\ job' = [job EXCEPT ![r] =
                 [job[r] EXCEPT !.at = "next", !.todo = Reopenable(job[r].todo, hidden)]]
    <3>1. PICK hidden \in SUBSET Sources :
            /\ Blind(hidden)
            /\ job' = [job EXCEPT ![r] =
                 [job[r] EXCEPT !.at = "next", !.todo = Reopenable(job[r].todo, hidden)]]
      BY <2>1
    <3>2. PICK S \in SUBSET job[r].todo : S = Reopenable(job[r].todo, hidden)
      BY DEF Reopenable
    <3> DEFINE J == [job[r] EXCEPT !.at = "next", !.todo = S]
    <3>3. J \in Job /\ J.at = "next" /\ J.kind = job[r].kind /\ J.conv = job[r].conv
             /\ J.todo \subseteq job[r].todo
      BY <1>0, <3>2 DEF Job, Place
    <3>4. job' = [job EXCEPT ![r] = J]
      BY <3>1, <3>2
    <3>5. mishaps' \in 0..MaxMishaps
      BY <1>0, <3>1, BlindType
    <3> HIDE DEF J
    <3>6. QED
      BY <1>1, <1>2, <3>3, <3>4, <3>5, GoesStep DEF Plan, Locked
  <2>2. CASE Mishap /\ Goes(r, "done")
    <3> DEFINE J == [job[r] EXCEPT !.at = "done"]
    <3>1. J \in Job /\ J.at = "done" /\ J.kind = job[r].kind /\ J.conv = job[r].conv
             /\ J.todo = job[r].todo
      BY <1>0 DEF Job, Place
    <3>2. job' = [job EXCEPT ![r] = J]
      BY <2>2 DEF Goes
    <3>3. mishaps' \in 0..MaxMishaps
      BY <1>0, <2>2, MishapType
    <3> HIDE DEF J
    <3>4. QED
      BY <1>1, <1>2, <3>1, <3>2, <3>3, GoesStep DEF Plan, Locked
  <2>3. QED
    BY <1>2, <2>1, <2>2 DEF Plan
<1>3. CASE NextRow(r)
  <2>1. PICK i \in job[r].todo : i = Least(job[r].todo)
    BY <1>0, <1>3, LeastIn DEF NextRow
  <2> DEFINE J == [job[r] EXCEPT !.at = "asked", !.conv = conv[i], !.old = i,
                                 !.todo = job[r].todo \ {i}]
  <2>2. i \in Id /\ conv[i] \in Conv
    BY <1>0, <2>1 DEF LockInv, Base, RowInv
  <2>3. /\ J \in Job /\ J.at = "asked" /\ J.conv = conv[i] /\ J.todo \subseteq job[r].todo
    BY <1>0, <2>2 DEF Job, Place
  <2>4. job' = [job EXCEPT ![r] = J] /\ Joins(r, conv[i])
    BY <1>3, <2>1 DEF NextRow
  <2> HIDE DEF J
  <2>5. Sets(r, J)
    BY <1>0, <2>3, <2>4, SetsJob
  <2>6. ChainMoves(r)
    BY <2>2, <2>4 DEF Joins, ChainMoves
  <2>7. LockInv(r)'
    BY <1>0, <1>1, <2>2, <2>3, <2>5 DEF LockInv, Sets, At, Locked, RowsKept
  <2>8. QED
    BY <1>0, <1>1, <1>3, <2>3, <2>5, <2>6, <2>7 DEF CallStep, NextRow
<1>4. CASE LastRow(r)
  <2> DEFINE J == [job[r] EXCEPT !.at = "done"]
  <2>1. J \in Job /\ J.at = "done" /\ J.kind = job[r].kind /\ J.conv = job[r].conv
             /\ J.todo = job[r].todo
    BY <1>0 DEF Job, Place
  <2>2. job' = [job EXCEPT ![r] = J]
    BY <1>4 DEF Goes, LastRow
  <2> HIDE DEF J
  <2>3. QED
    BY <1>0, <1>1, <1>4, <2>1, <2>2, GoesStep DEF LastRow, Locked
<1>5. CASE Recheck(r)
  <2>1. Locks(r) /\ Inside(r) /\ job[r].conv \in Conv
    BY <1>0, <1>5 DEF Recheck, At, Locks, LockInv
  <2>2. mishaps' \in 0..MaxMishaps
    <3>1. CASE Mishap
      BY <1>0, <3>1, MishapType
    <3>2. CASE \E hidden \in SUBSET {"rows"} : Blind(hidden)
      BY <1>0, <3>2, BlindType DEF Sources
    <3>3. QED
      BY <1>5, <3>1, <3>2 DEF Recheck
  <2>3. CASE Finish(r)
    BY <1>1, <2>1, <2>2, <2>3, FinishStep
  <2>4. CASE Goes(r, "gate") /\ UNCHANGED chain
    <3> DEFINE J == [job[r] EXCEPT !.at = "gate"]
    <3>1. J \in Job /\ J.at = "gate" /\ J.kind = job[r].kind /\ J.conv = job[r].conv
             /\ J.todo = job[r].todo
      BY <1>0 DEF Job, Place
    <3>2. job' = [job EXCEPT ![r] = J]
      BY <2>4 DEF Goes
    <3> HIDE DEF J
    <3>3. QED
      BY <1>1, <2>1, <2>2, <2>4, <3>1, <3>2, GoesStep
  <2>5. QED
    BY <1>5, <2>3, <2>4 DEF Recheck
<1>6. QED
  BY <1>2, <1>3, <1>4, <1>5

\* Marking a row that stands as ended.
LEMMA EndedRow ==
  ASSUME Base, UNCHANGED <<conv, pane, proc>>, NEW i \in Id,
         row' = [row EXCEPT ![i] = IF row[i] = "standing" THEN "ended" ELSE row[i]]
  PROVE  WorldType' /\ RowsKept /\ RowInv'
<1>1. CASE row[i] = "standing"
  BY <1>1, MarkedRow
<1>2. CASE row[i] # "standing"
  <2>1. row' = row
    BY <1>2 DEF Base, TypeOK
  <2>2. QED
    BY <2>1, SameWorld
<1>3. QED
  BY <1>1, <1>2

\* Launching a session, down to the rows of those it replaces.
LEMMA LaunchStep ==
  ASSUME Base, NEW r \in Req,
         Refuse(r) \/ AddRow(r) \/ SpawnPane(r) \/ Settle(r) \/ Abandon(r)
  PROVE  CallStep(r)
<1>0. /\ TypeOK /\ LockInv(r) /\ mishaps \in 0..MaxMishaps /\ job[r] \in Job
      /\ job[r].at \in Locked
      /\ Locks(r) => Inside(r) /\ job[r].conv \in Conv
      /\ job[r].at \in {"gate", "pane"} => job[r].conv \in Conv
  BY JobFields DEF Base, TypeOK, Refuse, AddRow, SpawnPane, Settle, Abandon, At, Locked, LockInv
<1>1. ASSUME NEW place \in Place, Goes(r, place), UNCHANGED <<chain, row>>, place \in Locked,
             place \in {"gate", "confirm", "ending"} => FALSE,
             place \in {"pane", "settle", "abandon"} => job[r].at \in {"pane", "settle", "abandon"},
             place = "pane" => FALSE, WorldType', mishaps' \in 0..MaxMishaps, RowsKept, RowInv'
      PROVE  CallStep(r)
  <2> DEFINE J == [job[r] EXCEPT !.at = place]
  <2>1. J \in Job /\ J.at = place /\ J.kind = job[r].kind /\ J.conv = job[r].conv
             /\ J.todo = job[r].todo /\ J.new = job[r].new
    BY <1>0 DEF Job
  <2>2. job' = [job EXCEPT ![r] = J]
    BY <1>1 DEF Goes
  <2>3. place \notin {"retire", "idle"}
    BY <1>1 DEF Locked
  <2>4. place \in {"pane", "settle", "abandon"} => J.new \in Id /\ row'[J.new] # "free"
    BY <1>0, <1>1, <2>1 DEF LockInv
  <2> HIDE DEF J
  <2>5. QED
    BY <1>0, <1>1, <2>1, <2>2, <2>3, <2>4, GoesStep
<1>2. CASE Refuse(r)
  <2>1. mishaps' \in 0..MaxMishaps
    BY <1>0, <1>2, MishapType DEF Refuse
  <2>2. QED
    BY <1>0, <1>2, <2>1, SameWorld, FinishStep DEF Refuse
<1>3. CASE AddRow(r)
  <2>1. PICK i \in Id :
          /\ row[i] = "free"
          /\ row' = [row EXCEPT ![i] = "standing"]
          /\ conv' = [conv EXCEPT ![i] = job[r].conv]
          /\ job' = [job EXCEPT ![r] = [job[r] EXCEPT !.at = "pane", !.new = i]]
    BY <1>3 DEF AddRow
  <2> DEFINE J == [job[r] EXCEPT !.at = "pane", !.new = i]
  <2>2. J \in Job /\ J.at = "pane" /\ J.kind = job[r].kind /\ J.conv = job[r].conv
             /\ J.todo = job[r].todo /\ J.new = i
    BY <1>0 DEF Job, Place
  <2>3. job' = [job EXCEPT ![r] = J]
    BY <2>1
  <2>4. job[r].conv \in Conv
    BY <1>0, <1>3 DEF AddRow, At
  <2>5. WorldType'
    BY <1>0, <1>3, <2>1, <2>4 DEF TypeOK, WorldType, AddRow
  <2>6. RowsKept /\ RowInv' /\ row'[i] # "free"
    BY <1>0, <2>1, <2>4 DEF Base, TypeOK, RowsKept, RowInv
  <2>7. chain' = chain /\ mishaps' = mishaps
    BY <1>3 DEF AddRow
  <2> HIDE DEF J
  <2>8. QED
    BY <1>0, <2>2, <2>3, <2>4, <2>5, <2>6, <2>7, GoesStep
<1>4. CASE SpawnPane(r)
  <2>1. RowsKept /\ RowInv'
    BY <1>4, SameRows DEF SpawnPane
  <2>2. WorldType'
    BY <1>0, <1>4 DEF SpawnPane, TypeOK, WorldType
  <2>3. mishaps' \in 0..MaxMishaps
    BY <1>0, <1>4, MishapType DEF SpawnPane
  <2>4. Goes(r, "settle") \/ Goes(r, "abandon")
    BY <1>4 DEF SpawnPane
  <2>5. QED
    BY <1>0, <1>1, <1>4, <2>1, <2>2, <2>3, <2>4 DEF SpawnPane, At, Place, Locked
<1>5. CASE Settle(r)
  <2>1. RowsKept /\ RowInv'
    BY <1>5, SameRows DEF Settle
  <2>2. WorldType'
    BY <1>0, <1>5 DEF Settle, TypeOK, WorldType
  <2>3. Goes(r, "list") \/ Goes(r, "abandon")
    BY <1>5 DEF Settle
  <2>4. QED
    BY <1>0, <1>1, <1>5, <2>1, <2>2, <2>3 DEF Settle, At, Place, Locked
<1>6. CASE Abandon(r)
  <2>1. WorldType' /\ RowsKept /\ RowInv'
    BY <1>0, <1>6, MarkedRow DEF Abandon, At, LockInv
  <2>2. QED
    BY <1>0, <1>6, <2>1, FinishStep DEF Abandon
<1>7. QED
  BY <1>2, <1>3, <1>4, <1>5, <1>6

\* Retiring fallen siblings, and marking the row that was replaced.
LEMMA RetireStep ==
  ASSUME Base, NEW r \in Req,
         \/ ListPanes(r) \/ ReadRows(r) \/ RetireOne(r) \/ Retired(r) \/ Supersede(r)
         \/ Retire(r)
  PROVE  CallStep(r)
<1>0. /\ TypeOK /\ LockInv(r) /\ mishaps \in 0..MaxMishaps /\ job[r] \in Job
      /\ job[r].doomed \subseteq Id
      /\ Locks(r) => Inside(r) /\ job[r].conv \in Conv
  BY JobFields DEF Base, TypeOK, ListPanes, ReadRows, RetireOne, Retired, Supersede, Retire,
     At, Locked, Locks, LockInv
<1>1. ASSUME NEW J \in Job, job' = [job EXCEPT ![r] = J], UNCHANGED chain,
             J.kind = job[r].kind, J.conv = job[r].conv, J.todo = job[r].todo,
             J.at \in {"list", "read", "patch", "supersede"},
             WorldType', mishaps' \in 0..MaxMishaps, RowsKept, RowInv'
      PROVE  CallStep(r)
  BY <1>0, <1>1, GoesStep
<1>2. CASE ListPanes(r)
  <2>1. mishaps' \in 0..MaxMishaps
    BY <1>0, <1>2, MishapType DEF ListPanes
  <2>2. CASE job' = [job EXCEPT ![r] = [job[r] EXCEPT !.at = "read", !.ids = Listed]]
    <3> DEFINE J == [job[r] EXCEPT !.at = "read", !.ids = Listed]
    <3>1. J \in Job /\ J.at = "read" /\ J.kind = job[r].kind
          /\ J.conv = job[r].conv /\ J.todo = job[r].todo
      BY <1>0 DEF Job, Place, Listed
    <3>2. job' = [job EXCEPT ![r] = J]
      BY <2>2
    <3> HIDE DEF J
    <3>3. QED
      BY <1>1, <1>2, <2>1, <3>1, <3>2, SameWorld DEF ListPanes
  <2>3. CASE job' = [job EXCEPT ![r] = [job[r] EXCEPT !.at = "patch", !.doomed = {}]]
    <3> DEFINE J == [job[r] EXCEPT !.at = "patch", !.doomed = {}]
    <3>1. J \in Job /\ J.at = "patch" /\ J.kind = job[r].kind
          /\ J.conv = job[r].conv /\ J.todo = job[r].todo
      BY <1>0 DEF Job, Place
    <3>2. job' = [job EXCEPT ![r] = J]
      BY <2>3
    <3> HIDE DEF J
    <3>3. QED
      BY <1>1, <1>2, <2>1, <3>1, <3>2, SameWorld DEF ListPanes
  <2>4. QED
    BY <1>2, <2>2, <2>3 DEF ListPanes
<1>3. CASE ReadRows(r)
  <2> DEFINE J == [job[r] EXCEPT !.at = "patch", !.doomed = Fallen(r), !.ids = {}]
  <2>1. Fallen(r) \subseteq Id
    BY DEF Fallen, Standing
  <2>2. J \in Job /\ J.at = "patch" /\ J.kind = job[r].kind
          /\ J.conv = job[r].conv /\ J.todo = job[r].todo
    BY <1>0, <2>1 DEF Job, Place
  <2>3. job' = [job EXCEPT ![r] = J]
    BY <1>3 DEF ReadRows
  <2> HIDE DEF J
  <2>4. QED
    BY <1>0, <1>1, <1>3, <2>2, <2>3, SameWorld DEF ReadRows
<1>4. CASE RetireOne(r)
  <2>1. PICK i \in job[r].doomed : i = Least(job[r].doomed)
    BY <1>0, <1>4, LeastIn DEF RetireOne
  <2> DEFINE J == [job[r] EXCEPT !.doomed = job[r].doomed \ {i}]
  <2>2. J \in Job /\ J.at = "patch" /\ J.kind = job[r].kind
          /\ J.conv = job[r].conv /\ J.todo = job[r].todo
    BY <1>0, <1>4 DEF Job, Place, RetireOne, At
  <2>3. job' = [job EXCEPT ![r] = J]
    BY <1>4, <2>1 DEF RetireOne
  <2>4. row' = [row EXCEPT ![i] = IF row[i] = "standing" THEN "ended" ELSE row[i]]
    BY <1>4, <2>1 DEF RetireOne
  <2>5. WorldType' /\ RowsKept /\ RowInv'
    BY <1>0, <1>4, <2>1, <2>4, EndedRow DEF RetireOne
  <2> HIDE DEF J
  <2>6. QED
    BY <1>0, <1>1, <1>4, <2>2, <2>3, <2>5 DEF RetireOne
<1>5. CASE Retired(r)
  <2>1. CASE Finish(r)
    BY <1>0, <1>5, <2>1, FinishStep, SameWorld DEF Retired
  <2>2. CASE Goes(r, "supersede") /\ UNCHANGED chain
    <3> DEFINE J == [job[r] EXCEPT !.at = "supersede"]
    <3>1. J \in Job /\ J.at = "supersede" /\ J.kind = job[r].kind
          /\ J.conv = job[r].conv /\ J.todo = job[r].todo
      BY <1>0 DEF Job, Place
    <3>2. job' = [job EXCEPT ![r] = J]
      BY <2>2 DEF Goes
    <3> HIDE DEF J
    <3>3. QED
      BY <1>0, <1>1, <1>5, <2>2, <3>1, <3>2, SameWorld DEF Retired
  <2>3. QED
    BY <1>5, <2>1, <2>2 DEF Retired
<1>6. CASE Supersede(r)
  <2>1. WorldType' /\ RowsKept /\ RowInv'
    <3>1. CASE row' = row
      BY <1>6, <3>1, SameWorld DEF Supersede
    <3>2. CASE row' # row
      <4>1. /\ job[r].old \in Id /\ row[job[r].old] = "standing"
            /\ row' = [row EXCEPT ![job[r].old] = "ended"]
        BY <1>0, <1>6, <3>2 DEF Supersede, Job
      <4>2. QED
        BY <1>6, <4>1, MarkedRow DEF Supersede
    <3>3. QED
      BY <3>1, <3>2
  <2>2. CASE Finish(r)
    BY <1>0, <1>6, <2>1, <2>2, FinishStep DEF Supersede
  <2>3. CASE job[r].kind = "resume"
    <3> DEFINE J == [job[r] EXCEPT !.at = "list", !.last = TRUE]
    <3>1. J \in Job /\ J.at = "list" /\ J.kind = job[r].kind
          /\ J.conv = job[r].conv /\ J.todo = job[r].todo
      BY <1>0 DEF Job, Place
    <3>2. job' = [job EXCEPT ![r] = J] /\ chain' = chain
      BY <1>6, <2>3 DEF Supersede
    <3> HIDE DEF J
    <3>3. QED
      BY <1>0, <1>1, <1>6, <2>1, <3>1, <3>2 DEF Supersede
  <2>4. QED
    BY <1>6, <2>2, <2>3 DEF Supersede
<1>7. CASE Retire(r)
  <2>1. /\ job[r].old \in Id /\ ~Locks(r)
    BY <1>0, <1>7 DEF Retire, LockInv, At, Locks
  <2>2. row' = [row EXCEPT ![job[r].old] = IF row[job[r].old] = "standing" THEN "ended"
                                           ELSE row[job[r].old]]
    BY <1>7 DEF Retire
  <2>3. WorldType' /\ RowsKept /\ RowInv'
    BY <1>7, <2>1, <2>2, EndedRow DEF Retire
  <2>4. QED
    BY <1>0, <1>7, <2>1, <2>3, FinishStep DEF Retire
<1>8. QED
  BY <1>2, <1>3, <1>4, <1>5, <1>6, <1>7

\* Whatever a call does is such a step.
LEMMA CallSteps ==
  ASSUME Base, NEW r \in Req, Ask(r) \/ Serve(r)
  PROVE  CallStep(r)
BY AskStep, ResumeStep, ReopenStep, LaunchStep, RetireStep DEF Serve

\* The machine: sessions and processes that end, and a restart.
LEMMA MachineStep ==
  ASSUME Base, Machine
  PROVE  TypeOK' /\ RowInv' /\ \A r \in Req : LockInv(r)'
<1>0. TypeOK /\ RowInv /\ mishaps \in 0..MaxMishaps /\ job \in [Req -> Job]
  BY DEF Base, TypeOK, Job, Place
<1>5. early' = early /\ misread' = misread
  BY MachineNotes DEF history
<1>1. CASE \E i \in Id : Fall(i) \/ PaneEnds(i)
  <2>1. PICK i \in Id, how \in {"dead", "gone"} :
          pane' = [pane EXCEPT ![i] = how] /\ UNCHANGED <<row, conv, proc, chain, job>>
    BY <1>1 DEF Fall, PaneEnds
  <2>2. mishaps' \in 0..MaxMishaps
    BY <1>0, <1>1, MishapType DEF Fall, PaneEnds
  <2>3. TypeOK'
    BY <1>0, <1>5, <2>1, <2>2 DEF TypeOK
  <2>4. QED
    BY <2>1, <2>3 DEF Base, RowInv, LockInv, Locks, At, Inside
<1>2. CASE \E p \in Proc : ProcessEnds(p)
  <2>1. PICK p \in Proc : ProcessEnds(p)
    BY <1>2
  <2>2. TypeOK'
    BY <1>0, <1>5, <2>1 DEF TypeOK, ProcessEnds
  <2>3. QED
    BY <2>1, <2>2 DEF Base, RowInv, LockInv, Locks, At, Inside, ProcessEnds
<1>3. CASE Restart
  <2> DEFINE J(r) == IF At(r, "idle") \/ At(r, "done") THEN job[r]
                     ELSE [Idle EXCEPT !.at = "lost", !.new = job[r].new]
  <2>1. \A r \in Req : J(r) \in Job
    BY <1>0, IdleType DEF Job, Place
  <2>2. job' = [r \in Req |-> J(r)] /\ UNCHANGED <<row, conv, pane, proc>>
    BY <1>3 DEF Restart
  <2>3. job' \in [Req -> Job] /\ \A r \in Req : job'[r] = J(r)
    BY <2>1, <2>2
  <2>4. chain' \in [Conv -> Seq(Req)]
    <3>1. <<>> \in Seq(Req)
      OBVIOUS
    <3>2. QED
      BY <1>3, <3>1 DEF Restart
  <2>5. mishaps' \in 0..MaxMishaps
    BY <1>0, <1>3, MishapType DEF Restart
  <2>6. TypeOK'
    BY <1>0, <1>5, <2>2, <2>3, <2>4, <2>5 DEF TypeOK, Job, Place
  <2>7. ASSUME NEW r \in Req PROVE LockInv(r)'
    <3>1. LockInv(r)
      BY DEF Base
    <3>2. CASE At(r, "idle") \/ At(r, "done")
      BY <2>2, <2>3, <3>1, <3>2 DEF LockInv, At, Locked
    <3>3. CASE ~(At(r, "idle") \/ At(r, "done"))
      <4>1. job'[r].at = "lost" /\ job'[r].todo = {}
        BY <2>3, <3>3 DEF Idle
      <4>2. QED
        BY <4>1 DEF LockInv, At, Locked
    <3>4. QED
      BY <3>2, <3>3
  <2>8. QED
    BY <1>0, <2>2, <2>6, <2>7 DEF RowInv
<1>4. QED
  BY <1>1, <1>2, <1>3 DEF Machine

-----------------------------------------------------------------------------
(* No row is left for a session that never was.                            *)

\* The calls that may answer for a row without a pane.
Answers(r, i) == job[r].new = i /\ job[r].at \in {"pane", "abandon", "lost"}
Bare(i) == row[i] \in {"standing", "ended"} /\ pane[i] = "unborn"

\* A step that makes no such row, and leaves the calls that answer for them.
LEMMA BareKept ==
  ASSUME NoRowWithoutPane, \A i \in Id : Bare(i)' => Bare(i),
         \A i \in Id, r \in Req : Bare(i)' /\ Answers(r, i) => Answers(r, i)'
  PROVE  NoRowWithoutPane'
BY DEF NoRowWithoutPane, Bare, Answers

\* No step of a call leaves a row that nobody answers for.
LEMMA RowPaneStep ==
  ASSUME Base, NEW r \in Req, Ask(r) \/ Serve(r), CallStep(r)
  PROVE  NoRowWithoutPane'
<1>0. /\ TypeOK /\ NoRowWithoutPane /\ LockInv(r) /\ WorldType
      /\ \E J \in Job : Sets(r, J)
  BY DEF Base, CallStep, TypeOK, WorldType
<1>1. ASSUME job[r].at \notin {"pane", "abandon", "lost"},
             \A i \in Id : Bare(i)' => Bare(i)
      PROVE  NoRowWithoutPane'
  BY <1>0, <1>1, BareKept DEF Answers, Sets
<1>2. ASSUME UNCHANGED <<row, pane>>
      PROVE  \A i \in Id : Bare(i)' => Bare(i)
  BY <1>2 DEF Bare
<1>3. ASSUME NEW i \in Id, row' = [row EXCEPT ![i] = IF row[i] = "standing" THEN "ended" ELSE row[i]],
             UNCHANGED pane
      PROVE  \A j \in Id : Bare(j)' => Bare(j)
  BY <1>0, <1>3 DEF Bare, WorldType
<1>4. CASE Kill(r)
  <2>1. \A j \in Id : Bare(j)' => Bare(j)
    BY <1>0, <1>4 DEF Kill, Bare, WorldType
  <2>2. QED
    BY <1>1, <1>4, <2>1 DEF Kill, At
<1>5. CASE \/ AskResume(r) \/ AskReopen(r) \/ AskStart(r)
           \/ ReadClaims(r) \/ Confirm(r) \/ HolderGone(r) \/ WillNotDie(r)
           \/ Plan(r) \/ NextRow(r) \/ LastRow(r) \/ Recheck(r) \/ Refuse(r)
           \/ ListPanes(r) \/ ReadRows(r) \/ Retired(r)
  <2>1. UNCHANGED <<row, pane>> /\ job[r].at \notin {"pane", "abandon", "lost"}
    BY <1>5 DEF AskResume, AskReopen, AskStart, ReadClaims, Confirm, HolderGone, WillNotDie,
       Plan, NextRow, LastRow, Recheck, Refuse, ListPanes, ReadRows, Retired, At
  <2>2. QED
    BY <1>1, <1>2, <2>1
<1>6. CASE RetireOne(r)
  <2>1. PICK i \in job[r].doomed : i = Least(job[r].doomed)
    BY <1>0, <1>6, LeastIn, JobFields DEF RetireOne
  <2>2. i \in Id
    BY <1>0, <2>1, JobFields
  <2>3. row' = [row EXCEPT ![i] = IF row[i] = "standing" THEN "ended" ELSE row[i]]
    BY <1>6, <2>1 DEF RetireOne
  <2>4. QED
    BY <1>1, <1>3, <1>6, <2>2, <2>3 DEF RetireOne, At
<1>7. CASE Retire(r)
  <2>1. job[r].old \in Id
    BY <1>0, <1>7 DEF Retire, LockInv, At
  <2>2. row' = [row EXCEPT ![job[r].old] = IF row[job[r].old] = "standing" THEN "ended"
                                           ELSE row[job[r].old]]
    BY <1>7 DEF Retire
  <2>3. QED
    BY <1>1, <1>3, <1>7, <2>1, <2>2 DEF Retire, At
<1>8. CASE Supersede(r)
  <2>1. \A i \in Id : Bare(i)' => Bare(i)
    BY <1>0, <1>8 DEF Supersede, Bare, WorldType
  <2>2. QED
    BY <1>1, <1>8, <2>1 DEF Supersede, At
<1>9. CASE AddRow(r)
  <2>1. PICK i \in Id :
          /\ row[i] = "free"
          /\ row' = [row EXCEPT ![i] = "standing"]
          /\ job' = [job EXCEPT ![r] = [job[r] EXCEPT !.at = "pane", !.new = i]]
    BY <1>9 DEF AddRow
  <2>2. Answers(r, i)'
    BY <1>0, <2>1, JobFields DEF Answers, Job
  <2>3. \A j \in Id : j # i => (Bare(j)' => Bare(j))
    BY <1>0, <1>9, <2>1 DEF Bare, AddRow, WorldType
  <2>4. \A j \in Id, q \in Req : Answers(q, j) => Answers(q, j)'
    BY <1>0, <1>9 DEF Answers, Sets, AddRow, At
  <2>5. QED
    BY <1>0, <2>2, <2>3, <2>4 DEF NoRowWithoutPane, Answers, Bare
<1>10. CASE SpawnPane(r) \/ Settle(r)
  <2>1. UNCHANGED row /\ \A i \in Id : pane'[i] = "unborn" => pane[i] = "unborn"
    BY <1>0, <1>10 DEF SpawnPane, Settle, WorldType
  <2>2. \A i \in Id : Bare(i)' => Bare(i)
    BY <2>1 DEF Bare
  <2>3. \A i \in Id : Bare(i)' /\ Answers(r, i) => Answers(r, i)'
    <3>1. CASE Settle(r)
      BY <3>1 DEF Settle, Answers, At
    <3>2. CASE SpawnPane(r) /\ pane' = [pane EXCEPT ![job[r].new] = "up"]
      BY <1>0, <3>2 DEF Answers, Bare, WorldType
    <3>3. CASE SpawnPane(r) /\ Goes(r, "abandon")
      <4>1. Sets(r, [job[r] EXCEPT !.at = "abandon"])
        BY <1>0, <3>3, GoesSets DEF Place
      <4>2. QED
        BY <1>0, <4>1, JobFields DEF Answers, Sets, Job
    <3>4. QED
      BY <1>10, <3>1, <3>2, <3>3 DEF SpawnPane
  <2>4. \A i \in Id, q \in Req : Bare(i)' /\ Answers(q, i) => Answers(q, i)'
    BY <1>0, <2>3 DEF Answers, Sets
  <2>5. QED
    BY <1>0, <2>2, <2>4, BareKept
<1>11. CASE Abandon(r)
  <2>1. \A i \in Id : Bare(i)' => Bare(i) /\ i # job[r].new
    BY <1>0, <1>11 DEF Abandon, Bare, WorldType
  <2>2. \A i \in Id, q \in Req : Bare(i)' /\ Answers(q, i) => Answers(q, i)'
    BY <1>0, <2>1 DEF Answers, Sets
  <2>3. QED
    BY <1>0, <2>1, <2>2, BareKept
<1>12. QED
  BY <1>4, <1>5, <1>6, <1>7, <1>8, <1>9, <1>10, <1>11 DEF Ask, Serve

\* Nor does the machine.
LEMMA RowPaneMachine ==
  ASSUME Base, Machine
  PROVE  NoRowWithoutPane'
<1>0. WorldType /\ NoRowWithoutPane /\ job \in [Req -> Job]
  BY JobFields DEF Base, TypeOK, WorldType, Job, Place
<1>1. \A i \in Id : Bare(i)' => Bare(i)
  BY <1>0 DEF Machine, Fall, PaneEnds, ProcessEnds, Restart, Bare, WorldType
<1>2. \A i \in Id, q \in Req : Answers(q, i) => Answers(q, i)'
  <2>1. CASE job' = job
    BY <2>1 DEF Answers
  <2>2. CASE Restart
    <3> SUFFICES ASSUME NEW i \in Id, NEW q \in Req, Answers(q, i) PROVE Answers(q, i)'
      OBVIOUS
    <3>1. job'[q] = [Idle EXCEPT !.at = "lost", !.new = job[q].new]
      BY <2>2 DEF Restart, At, Answers
    <3>2. job'[q].at = "lost" /\ job'[q].new = job[q].new
      BY <3>1 DEF Idle
    <3>3. QED
      BY <3>2 DEF Answers
  <2>3. QED
    BY <2>1, <2>2 DEF Machine, Fall, PaneEnds, ProcessEnds
<1>3. QED
  BY <1>0, <1>1, <1>2, BareKept

\* What holds whatever others may see: at the start, ...
LEMMA BaseInit == Init => Base
<1> SUFFICES ASSUME Init PROVE Base
  OBVIOUS
<1>1. /\ Old \subseteq Id /\ \A i \in Old : OldConv[i] \in Conv
  BY FS_CardinalityType, ClaimAssumption DEF ClaimAssumption, Old
<1>2. TypeOK
  <2>1. job \in [Req -> Job]
    BY IdleType DEF Init
  <2>2. chain \in [Conv -> Seq(Req)]
    <3>1. <<>> \in Seq(Req)
      OBVIOUS
    <3>2. QED
      BY <3>1 DEF Init
  <2>3. mishaps \in 0..MaxMishaps
    BY ClaimAssumption DEF Init, ClaimAssumption
  <2>4. QED
    BY <1>1, <2>1, <2>2, <2>3 DEF Init, TypeOK, Job, Place
<1>3. RowInv
  BY <1>1 DEF Init, RowInv
<1>4. \A r \in Req : LockInv(r)
  BY DEF Init, Idle, LockInv, At, Locked
<1>5. NoRowWithoutPane
  BY DEF Init, NoRowWithoutPane
<1>6. QED
  BY <1>2, <1>3, <1>4, <1>5 DEF Base

\* ... in every step, ...
LEMMA BaseStep == Base /\ [Next]_vars => Base'
<1> SUFFICES ASSUME Base, [Next]_vars PROVE Base'
  OBVIOUS
<1>1. ASSUME NEW r \in Req, Ask(r) \/ Serve(r) PROVE Base'
  <2>1. CallStep(r) /\ TypeOK /\ \A q \in Req : LockInv(q)
    BY <1>1, CallSteps DEF Base
  <2>2. chain' \in [Conv -> Seq(Req)]
    BY <2>1, ChainType DEF CallStep
  <2>3. TypeOK'
    <3>1. early' \subseteq Id /\ misread' \subseteq Conv
      BY <1>1, CallNotes DEF Noted, HistoryType
    <3>2. QED
      BY <2>1, <2>2, <3>1 DEF CallStep, WorldType, TypeOK, Sets, Job, Place
  <2>4. ASSUME NEW q \in Req, q # r PROVE LockInv(q)'
    <3>1. job'[q] = job[q] /\ job[q].todo \subseteq Id /\ job[q].new \in Id \cup {None}
      BY <2>1, <2>4, JobFields DEF CallStep, Sets
    <3>2. Locks(q) /\ job[q].at \in Locked => Inside(q)'
      BY <2>1, <2>4, <3>1, OthersInside DEF CallStep, LockInv
    <3>3. QED
      BY <2>1, <3>1, <3>2 DEF CallStep, RowsKept, LockInv, At, Locks
  <2>5. NoRowWithoutPane'
    BY <1>1, <2>1, RowPaneStep
  <2>6. QED
    BY <2>1, <2>3, <2>4, <2>5 DEF Base, CallStep
<1>2. CASE Machine
  BY <1>2, MachineStep, RowPaneMachine DEF Base
<1>3. CASE UNCHANGED vars
  BY <1>3 DEF vars, history, Base, TypeOK, RowInv, LockInv, Locks, At, Inside, NoRowWithoutPane
<1>4. QED
  BY <1>1, <1>2, <1>3 DEF Next

\* ... and so always.
LEMMA BaseHolds == Spec => []Base
BY BaseInit, BaseStep, PTL DEF Spec

\* The server's rows, panes, chains and calls keep their types: no call leaves
\* a chain that is empty.
THEOREM ClaimTypes == Spec => []TypeOK
BY BaseHolds, PTL DEF Base

\* A row without a pane is one a call is about to open or to take back, or one
\* a restart cut off, whatever others see and whatever cannot be read: a launch
\* that fails takes its row with it (spawnManaged).
THEOREM RowsHavePanes == Spec => []NoRowWithoutPane
BY BaseHolds, PTL DEF Base
-----------------------------------------------------------------------------
(* What a step leaves of the world, as another call sees it.               *)

Kept(q) ==
  /\ RowsKept /\ Noted
  /\ \A i \in Id : pane[i] \in {"dead", "gone"} => pane'[i] \in {"dead", "gone"}
  /\ \A i \in Id : pane[i] = "up" => pane'[i] # "unborn"
  /\ \A i \in Id : pane[i] = "unborn" => pane'[i] \in {"unborn", "up"}
  /\ \A i \in Id : pane'[i] = "up" =>
       pane[i] = "up" \/ \E r \in Req \ {q} : At(r, "pane") /\ job[r].new = i
  /\ At(q, "read") => \A i \in Id :
       pane'[i] = "up" /\ DirOf[conv[i]] = DirOf[job[q].conv] => pane[i] = "up" \/ i \in early'
  /\ \A p \in Proc : proc'[p] \in {proc[p], None}
  /\ \A i \in Id : row[i] = "standing" /\ row'[i] # "standing" =>
       ~(At(q, "pane") /\ job[q].new = i) \/ i \in early'
  /\ \A r \in Req : At(r, "pane")' =>
       (At(r, "pane") /\ job'[r].new = job[r].new) \/ row[job'[r].new] = "free"
  /\ \A r \in Req : Launching(r)' =>
       (Launching(r) /\ job'[r].new = job[r].new) \/ row[job'[r].new] = "free"
  /\ Starting(q) => \A r \in Req \ {q} : job'[r].conv # job[q].conv

\* What is over stays so: a pane never comes back.
LEMMA OverStays ==
  ASSUME Noted, NEW i, Over(i), Fell(i) => Fell(i)'
  PROVE  Over(i)'
BY DEF Over, Noted

\* A conversation about which nobody is wrong is one about which nobody was.
LEMMA CleanBefore ==
  ASSUME WorldInv, RowsKept, Noted, HistoryType, NEW c, Clean(c)'
  PROVE  Clean(c)
BY DEF Clean, WorldInv, RowsKept, Noted, HistoryType

\* A conversation that has begun stays so.
LEMMA BegunStays ==
  ASSUME WorldInv, RowsKept, NEW c, Begun(c),
         \A i \in Id : pane[i] # "unborn" => pane'[i] # "unborn"
  PROVE  Begun(c)'
BY DEF Begun, WorldInv, RowsKept, RowsOf

\* Two calls that have a conversation to themselves are one.
LEMMA Alone ==
  ASSUME IInv, NEW q \in Req, NEW r \in Req, At(r, "pane"),
         job[q].at \in {"confirm", "ending", "gate", "pane"}, job[q].conv = job[r].conv
  PROVE  q = r
<1>1. LockInv(q) /\ LockInv(r) /\ ClaimInv(q) /\ ClaimInv(r)
  BY DEF IInv, Base, JobInv
<1>2. CASE Starting(r) \/ Starting(q)
  BY <1>1, <1>2 DEF ClaimInv
<1>3. CASE Locks(r) /\ Locks(q)
  BY <1>1, <1>3 DEF LockInv, Locked, Inside, At
<1>4. QED
  BY <1>1, <1>2, <1>3 DEF ClaimInv, Starting, Locks, At

\* Nobody else brings a driver into the conversation of such a call.
LEMMA LiveShrinks ==
  ASSUME IInv, NEW q \in Req, Kept(q), job[q].at \in {"confirm", "ending", "gate", "pane"},
         NEW c \in Conv, job[q].conv = c
  PROVE  Live(c)' \subseteq Live(c)
<1>1. ASSUME NEW p \in Proc, proc'[p] = c PROVE proc[p] = c
  BY <1>1, ClaimAssumption DEF Kept, ClaimAssumption
<1>2. ASSUME NEW i \in Id, pane'[i] = "up", conv'[i] = c PROVE pane[i] = "up" /\ conv[i] = c
  <2>1. CASE pane[i] = "up"
    BY <1>2, <2>1 DEF IInv, WorldInv, Kept, RowsKept
  <2>2. CASE pane[i] # "up"
    <3>1. PICK r \in Req \ {q} : At(r, "pane") /\ job[r].new = i
      BY <1>2, <2>2 DEF Kept
    <3>2. conv[i] = job[r].conv /\ row[i] # "free"
      BY <3>1 DEF IInv, Base, LockInv, JobInv, OpeningInv, At
    <3>3. conv'[i] = conv[i]
      BY <3>2 DEF Kept, RowsKept
    <3>4. QED
      BY <1>2, <3>1, <3>2, <3>3, Alone
  <2>3. QED
    BY <2>1, <2>2
<1>3. QED
  BY <1>1, <1>2 DEF Live, Up, RowsOf

\* What a call knows is not undone by the others.
LEMMA OthersKept ==
  ASSUME IInv, NEW q \in Req, Kept(q), job'[q] = job[q]
  PROVE  JobInv(q)'
<1>0. /\ TypeOK /\ LockInv(q) /\ OverInv(q) /\ OpeningInv(q) /\ ClaimInv(q) /\ RowInv
      /\ job[q].todo \subseteq Id /\ job[q].doomed \subseteq Id /\ job[q].old \in Id \cup {None}
      /\ pane \in [Id -> {"unborn", "up", "dead", "gone"}]
      /\ conv \in [Id -> Conv \cup {None}]
      /\ WorldInv /\ RowsKept /\ Noted /\ HistoryType
  BY JobFields DEF IInv, Base, JobInv, TypeOK, Kept, HistoryType
<1>1. \A c : Clean(c)' => Clean(c)
  BY <1>0, CleanBefore
<1>2. \A i \in Id : Over(i) => Over(i)'
  BY <1>0, OverStays DEF Kept, Fell
<1>3. \A c : Begun(c) => Begun(c)'
  <2>1. \A i \in Id : pane[i] # "unborn" => pane'[i] # "unborn"
    BY <1>0 DEF Kept
  <2>2. QED
    BY <1>0, <2>1, BegunStays
<1>4. \A i \in Id : row[i] # "free" => row'[i] # "free" /\ conv'[i] = conv[i]
  BY <1>0 DEF RowsKept
<1>5. OverInv(q)'
  <2>1. job[q].old # None =>
          /\ Over(job[q].old)' /\ row'[job[q].old] # "free"
          /\ Locks(q) => conv'[job[q].old] = job[q].conv
    BY <1>0, <1>2, <1>4 DEF OverInv
  <2>2. job[q].at \notin {"plan", "done"} => \A i \in job[q].todo : Over(i)' /\ Begun(conv[i])'
    <3>1. \A i \in job[q].todo : row[i] # "free"
      BY <1>0 DEF LockInv
    <3>2. QED
      BY <1>0, <1>2, <1>3, <1>4, <3>1 DEF OverInv
  <2>3. \A i \in job[q].doomed : Over(i)'
    BY <1>0, <1>2 DEF OverInv
  <2>4. At(q, "read") => \A i \in Id : pane'[i] = "up" /\ i \notin job[q].ids \cup {job[q].new} =>
                           (DirOf[conv'[i]] = DirOf[job[q].conv] => i \in early')
    <3> SUFFICES ASSUME At(q, "read"), NEW i \in Id, pane'[i] = "up",
                        i \notin job[q].ids \cup {job[q].new}, DirOf[conv'[i]] = DirOf[job[q].conv]
                 PROVE  i \in early'
      OBVIOUS
    <3>1. row[i] # "free"
      <4>1. CASE pane[i] = "up"
        BY <1>0, <4>1 DEF WorldInv
      <4>2. CASE pane[i] # "up"
        <5>1. PICK r \in Req : At(r, "pane") /\ job[r].new = i
          BY <4>2 DEF Kept
        <5>2. QED
          BY <5>1 DEF IInv, Base, LockInv, At
      <4>3. QED
        BY <4>1, <4>2
    <3>2. conv'[i] = conv[i]
      BY <1>4, <3>1
    <3>3. pane[i] = "up" \/ i \in early'
      BY <3>2 DEF Kept
    <3>4. CASE pane[i] = "up"
      BY <1>0, <3>2, <3>4 DEF OverInv, Up, Noted
    <3>5. QED
      BY <3>3, <3>4
  <2>5. QED
    BY <2>1, <2>2, <2>3, <2>4 DEF OverInv, At, Up, Locks
<1>6. OpeningInv(q)'
  <2>1. Launching(q) => job[q].new \in Id /\ row[job[q].new] # "free"
    BY <1>0 DEF LockInv, Launching
  <2>2. \A r \in Req : Launching(q) /\ Launching(r)' /\ job'[r].new = job[q].new => r = q
    BY <1>0, <2>1 DEF Kept, OpeningInv
  <2>3. At(q, "pane") => /\ row'[job[q].new] = "standing" \/ job[q].new \in early'
                         /\ conv'[job[q].new] = job[q].conv
                         /\ pane'[job[q].new] = "unborn"
    <3> SUFFICES ASSUME At(q, "pane")
                 PROVE  /\ row'[job[q].new] = "standing" \/ job[q].new \in early'
                        /\ conv'[job[q].new] = job[q].conv
                        /\ pane'[job[q].new] = "unborn"
      OBVIOUS
    <3>1. /\ Launching(q) /\ job[q].new \in Id /\ (row[job[q].new] = "standing" \/ job[q].new \in early)
          /\ conv[job[q].new] = job[q].conv /\ pane[job[q].new] = "unborn"
          /\ row[job[q].new] # "free"
      BY <1>0, <2>1 DEF OpeningInv, Launching, At
    <3>2. ~ \E r \in Req \ {q} : At(r, "pane") /\ job[r].new = job[q].new
      BY <1>0, <3>1 DEF OpeningInv, Launching, At
    <3>3. QED
      BY <3>1, <3>2 DEF Kept, RowsKept, Noted
  <2>4. At(q, "settle") => pane'[job[q].new] # "unborn"
    BY <1>0, <2>1 DEF OpeningInv, Launching, At, Kept
  <2>5. At(q, "abandon") => pane'[job[q].new] # "up"
    BY <1>0, <2>1 DEF OpeningInv, Launching, At, Kept
  <2>6. QED
    BY <2>2, <2>3, <2>4, <2>5 DEF OpeningInv, At, Launching
<1>7. ClaimInv(q)'
  <2>1. job[q].at \in {"confirm", "ending", "gate", "pane"} => Live(job[q].conv)' \subseteq Live(job[q].conv)
    BY <1>0, LiveShrinks DEF LockInv, Locked, ClaimInv
  <2>2. job[q].at \in {"confirm", "ending"} =>
          (Clean(job[q].conv)' => Live(job[q].conv)' \subseteq {job[q].target})
    BY <1>0, <1>1, <2>1 DEF ClaimInv
  <2>3. job[q].at \in {"gate", "pane"} => (Clean(job[q].conv)' => Live(job[q].conv)' = {})
    BY <1>0, <1>1, <2>1 DEF ClaimInv
  <2>4. job[q].at \notin {"plan", "done"} =>
          \A i \in job[q].todo : Clean(conv[i])' => \A p \in Proc : proc'[p] # conv'[i]
    <3> SUFFICES ASSUME job[q].at \notin {"plan", "done"}, NEW i \in job[q].todo, NEW c \in Conv,
                        conv[i] = c, Clean(c)'
                 PROVE  \A p \in Proc : proc'[p] # c
      <4>1. \A i \in job[q].todo : conv[i] \in Conv /\ conv'[i] = conv[i]
        BY <1>0, <1>4 DEF LockInv, RowInv
      <4>2. QED
        BY <4>1 DEF Clean
    <3>1. \A p \in Proc : proc[p] # c
      BY <1>0, <1>1 DEF ClaimInv
    <3>2. QED
      BY <3>1, ClaimAssumption DEF Kept, ClaimAssumption
  <2>5. job[q].kind = "reopen" /\ job[q].conv # None =>
          (Clean(job[q].conv)' => \A p \in Proc : proc'[p] # job[q].conv)
    BY <1>0, <1>1 DEF ClaimInv, Kept
  <2>6. Starting(q) => /\ \A i \in Id : conv'[i] = job[q].conv => pane'[i] = "unborn"
                       /\ \A r \in Req : job'[r].conv = job[q].conv => r = q
    <3> SUFFICES ASSUME Starting(q)
                 PROVE  /\ \A i \in Id : conv'[i] = job[q].conv => pane'[i] = "unborn"
                        /\ \A r \in Req : job'[r].conv = job[q].conv => r = q
      OBVIOUS
    <3>1. \A i \in Id : conv[i] = job[q].conv => pane[i] = "unborn"
      BY <1>0 DEF ClaimInv, RowsOf
    <3>2. ASSUME NEW i \in Id, conv'[i] = job[q].conv PROVE pane'[i] = "unborn"
      <4>1. pane[i] = "unborn"
        BY <1>0, <3>1, <3>2 DEF IInv, WorldInv, Kept, RowsKept
      <4>2. ASSUME NEW r \in Req \ {q}, At(r, "pane"), job[r].new = i PROVE FALSE
        <5>1. row[i] # "free" /\ conv[i] = job[r].conv
          BY <4>2 DEF IInv, Base, LockInv, JobInv, OpeningInv, At
        <5>2. conv'[i] = job[r].conv
          BY <5>1 DEF Kept, RowsKept
        <5>3. QED
          BY <1>0, <3>2, <4>2, <5>2 DEF ClaimInv
      <4>3. QED
        BY <4>1, <4>2 DEF Kept
    <3>3. QED
      BY <3>2 DEF Kept
  <2>7. QED
    BY <1>0, <2>2, <2>3, <2>4, <2>5, <2>6 DEF ClaimInv, At, Locks, Starting, RowsOf, Clean
<1>8. QED
  BY <1>5, <1>6, <1>7 DEF JobInv

\* The world, when nobody comes up.
LEMMA WorldKept ==
  ASSUME IInv, RowsKept, Noted, WorldType',
         \A i \in Id : pane'[i] = "up" => pane[i] = "up",
         \A i \in Id : pane[i] = "unborn" => pane'[i] = "unborn",
         \A p \in Proc : proc'[p] \in {proc[p], None},
         \A i \in Id : row[i] = "standing" /\ pane[i] = "up" =>
           row'[i] = "standing" \/ pane'[i] # "up" \/ i \in early'
  PROVE  WorldInv'
<1>0. WorldInv /\ HistoryType /\ HistoryType'
  BY DEF IInv, Base, TypeOK, HistoryType, Noted
<1>1. \A i \in Id : row'[i] = "free" => pane'[i] = "unborn"
  BY DEF IInv, WorldInv, RowsKept
<1>2. \A p \in Proc : proc'[p] \notin Fresh
  BY ClaimAssumption DEF IInv, WorldInv, ClaimAssumption
<1>3. ASSUME NEW c \in Conv PROVE Live(c)' \subseteq Live(c)
  <2>1. \A p \in Proc : proc'[p] = c => proc[p] = c
    BY ClaimAssumption DEF ClaimAssumption
  <2>2. \A i \in Id : pane'[i] = "up" /\ conv'[i] = c => pane[i] = "up" /\ conv[i] = c
    BY DEF IInv, WorldInv, RowsKept
  <2>3. QED
    BY <2>1, <2>2 DEF Live, Up, RowsOf
<1>4. \A c \in Conv : Clean(c)' => \A x, y \in Live(c)' : x = y
  <2> SUFFICES ASSUME NEW c \in Conv, Clean(c)' PROVE \A x, y \in Live(c)' : x = y
    OBVIOUS
  <2>1. Clean(c)
    BY <1>0, CleanBefore
  <2>2. QED
    BY <1>0, <1>3, <2>1 DEF WorldInv
<1>5. LiveRowsStand'
  BY DEF IInv, WorldInv, LiveRowsStand, Up, Standing, Noted
<1>6. \A i \in early' : row'[i] # "free"
  BY <1>0 DEF WorldInv, Noted, RowsKept, HistoryType
<1>7. QED
  BY <1>1, <1>2, <1>4, <1>5, <1>6 DEF WorldInv

-----------------------------------------------------------------------------
(* Steps of a call that open nothing.                                      *)

Calm(r, J) ==
  /\ J \in Job /\ Sets(r, J) /\ RowsKept /\ Noted /\ WorldType' /\ proc' = proc
  /\ \A i \in Id : pane[i] \in {"dead", "gone"} => pane'[i] \in {"dead", "gone"}
  /\ \A i \in Id : pane[i] = "unborn" => pane'[i] = "unborn"
  /\ \A i \in Id : pane[i] = "up" => pane'[i] # "unborn"
  /\ \A i \in Id : pane'[i] = "up" => pane[i] = "up"
  /\ \A i \in Id : row[i] = "standing" /\ row'[i] # "standing" =>
       \/ i \in early'
       \/ pane[i] # "up" /\ \A q \in Req \ {r} : ~(At(q, "pane") /\ job[q].new = i)
  /\ J.at # "pane"
  /\ J.at \in {"settle", "abandon"} => Launching(r) /\ J.new = job[r].new
  /\ \A q \in Req \ {r} : Starting(q) => J.conv # job[q].conv

\* They leave the world, and what the others know of it.
LEMMA CalmStep ==
  ASSUME IInv, NEW r \in Req, NEW J, Calm(r, J)
  PROVE  /\ WorldInv' /\ (\A q \in Req \ {r} : Kept(q))
         /\ \A i \in Id : Over(i) => Over(i)'
         /\ \A c : (Clean(c)' => Clean(c)) /\ (Begun(c) => Begun(c)')
<1>1. WorldInv'
  BY WorldKept DEF Calm
<1>2. ASSUME NEW q \in Req \ {r} PROVE Kept(q)
  <2>1. \A x \in Req : x # r => job'[x] = job[x]
    BY DEF Calm, Sets
  <2>2. job'[r] = J
    BY DEF Calm, Sets
  <2>3. \A x \in Req : At(x, "pane")' => At(x, "pane") /\ job'[x].new = job[x].new
    BY <2>1, <2>2 DEF Calm, At
  <2>4. \A x \in Req : Launching(x)' => Launching(x) /\ job'[x].new = job[x].new
    BY <2>1, <2>2 DEF Calm, Launching
  <2>5. Starting(q) => \A x \in Req \ {q} : job'[x].conv # job[q].conv
    <3>1. Starting(q) => \A x \in Req \ {q} : job[x].conv # job[q].conv
      BY DEF IInv, JobInv, ClaimInv
    <3>2. QED
      BY <2>1, <2>2, <3>1 DEF Calm
  <2>6. QED
    BY <2>3, <2>4, <2>5 DEF Kept, Calm
<1>3. \A i \in Id : Over(i) => Over(i)'
  BY OverStays DEF Calm, Fell
<1>4. WorldInv /\ HistoryType /\ RowsKept /\ Noted /\ WorldType
  BY DEF IInv, Base, TypeOK, HistoryType, Calm, WorldType
<1>5. \A i \in Id : pane[i] # "unborn" => pane'[i] # "unborn"
  BY <1>4 DEF Calm, WorldType
<1>6. QED
  BY <1>1, <1>2, <1>3, <1>4, <1>5, CleanBefore, BegunStays

\* Nobody else is about to start the conversation of a call, or of none.
LEMMA NoStart ==
  ASSUME IInv, NEW r \in Req, NEW c \in {None, job[r].conv}, NEW q \in Req \ {r}, Starting(q)
  PROVE  c # job[q].conv
<1>1. job[q].conv \in Conv /\ job[q].conv # None
  BY ClaimAssumption DEF IInv, Base, LockInv, Starting, ClaimAssumption
<1>2. job[r].conv # job[q].conv
  BY DEF IInv, JobInv, ClaimInv
<1>3. QED
  BY <1>1, <1>2

\* A step that leaves the rows and the panes alone is calm.
LEMMA StillCalm ==
  ASSUME IInv, NEW r \in Req, NEW J \in Job, Sets(r, J), UNCHANGED <<row, conv, pane, proc>>,
         Noted,
         J.at # "pane", J.at \in {"settle", "abandon"} => Launching(r) /\ J.new = job[r].new,
         J.conv \in {None, job[r].conv}
  PROVE  Calm(r, J)
<1>1. WorldType' /\ RowsKept
  BY SameWorld DEF IInv
<1>2. \A q \in Req \ {r} : Starting(q) => J.conv # job[q].conv
  BY NoStart
<1>3. QED
  BY <1>1, <1>2 DEF Calm

\* So is one that marks the row of a session that is over.
LEMMA MarkCalm ==
  ASSUME IInv, NEW r \in Req, NEW J \in Job, Sets(r, J), UNCHANGED <<conv, pane, proc>>,
         RowsKept, Noted, WorldType',
         NEW i \in Id, Over(i) \/ (At(r, "abandon") /\ job[r].new = i),
         \A j \in Id : j # i => row'[j] = row[j],
         J.at \notin {"pane", "settle", "abandon"},
         J.conv \in {None, job[r].conv}
  PROVE  Calm(r, J)
<1>1. \A q \in Req \ {r} : Starting(q) => J.conv # job[q].conv
  BY NoStart
<1>2. \/ i \in early'
      \/ pane[i] # "up" /\ \A q \in Req \ {r} : ~(At(q, "pane") /\ job[q].new = i)
  <2>1. CASE i \in early
    BY <2>1 DEF Noted
  <2>2. CASE Fell(i)
    BY <2>2 DEF Fell, IInv, JobInv, OpeningInv
  <2>3. CASE At(r, "abandon") /\ job[r].new = i
    BY <2>3 DEF IInv, JobInv, OpeningInv, Launching, At
  <2>4. QED
    BY <2>1, <2>2, <2>3 DEF Over
<1>3. QED
  BY <1>1, <1>2 DEF Calm

\* What is known of the rows a reopen has left.
TodoInv(T) ==
  /\ \A i \in T : Over(i) /\ Begun(conv[i])
  /\ \A i \in T : Clean(conv[i]) => \A p \in Proc : proc[p] # conv[i]

LEMMA TodoKept ==
  ASSUME IInv, NEW r \in Req, NEW J, Calm(r, J), J.todo \subseteq job[r].todo,
         TodoInv(J.todo)
  PROVE  /\ \A i \in J.todo : Over(i)' /\ Begun(conv[i])'
         /\ \A i \in J.todo : Clean(conv[i])' => \A p \in Proc : proc'[p] # conv'[i]
<1>1. /\ LockInv(r) /\ job[r].todo \subseteq Id /\ RowInv /\ RowsKept /\ proc' = proc
  BY JobFields DEF IInv, Base, Calm
<1>2. \A i \in J.todo : i \in Id /\ conv[i] \in Conv /\ conv'[i] = conv[i]
  BY <1>1 DEF LockInv, RowInv, RowsKept
<1>3. \A i \in J.todo : Over(i)'
  BY <1>2, CalmStep DEF TodoInv
<1>4. ASSUME NEW i \in J.todo, NEW c \in Conv, c = conv[i]
      PROVE  Begun(c)' /\ (Clean(c)' => \A p \in Proc : proc'[p] # c)
  <2>1. Begun(c) /\ (Clean(c) => \A p \in Proc : proc[p] # c)
    BY <1>4 DEF TodoInv
  <2>2. (Clean(c)' => Clean(c)) /\ (Begun(c) => Begun(c)')
    BY CalmStep
  <2>3. QED
    BY <1>1, <2>1, <2>2
<1>5. \A i \in J.todo : Begun(conv[i])'
  BY <1>2, <1>4 DEF Begun, RowsOf
<1>6. \A i \in J.todo : Clean(conv[i])' => \A p \in Proc : proc'[p] # conv'[i]
  BY <1>2, <1>4 DEF Clean
<1>7. QED
  BY <1>3, <1>5, <1>6

\* It is known past the plan.
LEMMA TodoKnown ==
  ASSUME IInv, NEW r \in Req, NEW T \in SUBSET job[r].todo, job[r].at \notin {"plan", "done"}
  PROVE  TodoInv(T)
BY DEF IInv, JobInv, OverInv, ClaimInv, TodoInv

\* A call that is over, or at its next row, knows nothing but the rows left.
LEMMA FinishKeeps ==
  ASSUME IInv, NEW r \in Req, NEW J, Calm(r, J), job[r].at \notin {"plan", "done"},
         J.at \in {"next", "done"}, J.todo \subseteq job[r].todo,
         J.conv = None, J.old = None, J.doomed = {}
  PROVE  JobInv(r)'
<1>1. job'[r] = J
  BY DEF Calm, Sets
<1>0. /\ \A i \in J.todo : Over(i)' /\ Begun(conv[i])'
      /\ \A i \in J.todo : Clean(conv[i])' => \A p \in Proc : proc'[p] # conv'[i]
  BY TodoKept, TodoKnown
<1>2. OverInv(r)'
  BY <1>0, <1>1 DEF OverInv, At
<1>3. OpeningInv(r)'
  BY <1>1 DEF OpeningInv, At, Launching
<1>4. ClaimInv(r)'
  BY <1>0, <1>1 DEF ClaimInv, At, Starting
<1>5. QED
  BY <1>2, <1>3, <1>4 DEF JobInv

\* A call that goes on with its conversation.
LEMMA GoesKeeps ==
  ASSUME IInv, NEW r \in Req, NEW J, Calm(r, J), job[r].at \notin {"plan", "done", "idle"},
         J.at \notin {"plan", "done", "idle", "pane", "settle"}, J.todo \subseteq job[r].todo,
         J.conv = job[r].conv, J.kind = job[r].kind, J.old = job[r].old,
         \A i \in J.doomed : Over(i)',
         J.at = "read" => Up' \subseteq J.ids,
         J.at = "abandon" => pane'[J.new] # "up",
         J.at \in {"confirm", "ending"} =>
           Locks(r) /\ (Clean(J.conv)' => Live(J.conv)' \subseteq {J.target}),
         J.at = "gate" => J.kind \in {"resume", "reopen"} /\ (Clean(J.conv)' => Live(J.conv)' = {})
  PROVE  JobInv(r)'
<1>0. /\ OverInv(r) /\ OpeningInv(r) /\ ClaimInv(r) /\ job[r].old \in Id \cup {None}
      /\ job'[r] = J /\ \A q \in Req : q # r => job'[q] = job[q]
      /\ proc' = proc /\ RowsKept
  BY JobFields DEF IInv, JobInv, Calm, Sets, Base
<1>6. /\ \A c : Clean(c)' => Clean(c)
      /\ \A i \in Id : Over(i) => Over(i)'
  BY CalmStep
<1>7. Locks(r)' = Locks(r)
  BY <1>0 DEF Locks
<1>4. /\ \A i \in J.todo : Over(i)' /\ Begun(conv[i])'
      /\ \A i \in J.todo : Clean(conv[i])' => \A p \in Proc : proc'[p] # conv'[i]
  BY TodoKept, TodoKnown
<1>1. OverInv(r)'
  <2>1. J.old # None => /\ Over(J.old)' /\ row'[J.old] # "free"
                        /\ Locks(r) => conv'[J.old] = J.conv
    BY <1>0, <1>6 DEF OverInv, RowsKept
  <2>2. QED
    BY <1>0, <1>4, <1>7, <2>1 DEF OverInv, At
<1>2. OpeningInv(r)'
  <2>1. Launching(r)' => Launching(r) /\ J.new = job[r].new
    BY <1>0 DEF Launching, Calm
  <2>2. \A q \in Req : Launching(r)' /\ Launching(q)' /\ job'[q].new = J.new => q = r
    BY <1>0, <2>1 DEF OpeningInv, Launching
  <2>3. QED
    BY <1>0, <2>2 DEF OpeningInv, At
<1>3. ClaimInv(r)'
  <2>1. J.kind = "reopen" /\ J.conv # None =>
          (Clean(J.conv)' => \A p \in Proc : proc'[p] # J.conv)
    <3> SUFFICES ASSUME J.kind = "reopen", NEW c, c = J.conv, c # None, Clean(c)'
                 PROVE  \A p \in Proc : proc'[p] # c
      BY <1>0 DEF Clean
    <3>1. Clean(c)
      BY <1>6
    <3>2. QED
      BY <1>0, <3>1 DEF ClaimInv
  <2>2. QED
    BY <1>0, <1>4, <1>7, <2>1 DEF ClaimInv, At, Starting
<1>5. QED
  BY <1>1, <1>2, <1>3 DEF JobInv

-----------------------------------------------------------------------------
(* Every step of a call keeps what is known.                               *)

Good(r) == WorldInv' /\ JobInv(r)' /\ \A q \in Req \ {r} : Kept(q)

\* A call that is over, the rows as they are.
LEMMA FinishGood ==
  ASSUME IInv, NEW r \in Req, Finish(r), Locks(r) => Inside(r) /\ job[r].conv \in Conv,
         Noted, UNCHANGED <<row, conv, pane, proc>>, job[r].at \notin {"plan", "done"}
  PROVE  Good(r)
<1>1. PICK J \in Job :
        /\ Sets(r, J)
        /\ J.at \in {"next", "done"} /\ J.todo \subseteq job[r].todo
        /\ J.conv = None /\ J.old = None /\ J.doomed = {}
  BY FinishMoves DEF IInv, Base
<1>2. Calm(r, J)
  BY <1>1, StillCalm
<1>3. QED
  BY <1>1, <1>2, CalmStep, FinishKeeps DEF Good

\* A call that is over and marks the row of a session that is over.
LEMMA FinishMarks ==
  ASSUME IInv, NEW r \in Req, Finish(r), Locks(r) => Inside(r) /\ job[r].conv \in Conv,
         Noted, UNCHANGED <<conv, pane, proc>>, job[r].at \notin {"plan", "done"}, RowsKept, WorldType',
         NEW i \in Id, Over(i) \/ (At(r, "abandon") /\ job[r].new = i),
         \A j \in Id : j # i => row'[j] = row[j]
  PROVE  Good(r)
<1>1. PICK J \in Job :
        /\ Sets(r, J)
        /\ J.at \in {"next", "done"} /\ J.todo \subseteq job[r].todo
        /\ J.conv = None /\ J.old = None /\ J.doomed = {}
  BY FinishMoves DEF IInv, Base
<1>2. Calm(r, J)
  BY <1>1, MarkCalm
<1>3. QED
  BY <1>1, <1>2, CalmStep, FinishKeeps DEF Good

\* A call that goes on, the rows and the panes as they are.
LEMMA GoesGood ==
  ASSUME IInv, NEW r \in Req, NEW J \in Job, job' = [job EXCEPT ![r] = J],
         Noted, UNCHANGED <<row, conv, pane, proc>>, job[r].at \notin {"plan", "done", "idle"},
         J.at \notin {"plan", "done", "idle", "pane", "settle"}, J.todo \subseteq job[r].todo,
         J.conv = job[r].conv, J.kind = job[r].kind, J.old = job[r].old,
         \A i \in J.doomed : i \in Id /\ Over(i)',
         J.at = "read" => Up \subseteq J.ids,
         J.at = "abandon" => Launching(r) /\ J.new = job[r].new /\ pane[J.new] # "up",
         J.at \in {"confirm", "ending"} =>
           Locks(r) /\ (Clean(J.conv)' => Live(J.conv) \subseteq {J.target}),
         J.at = "gate" => J.kind \in {"resume", "reopen"} /\ (Clean(J.conv)' => Live(J.conv) = {})
  PROVE  Good(r)
<1>1. Sets(r, J)
  BY SetsJob DEF IInv, Base
<1>2. Calm(r, J)
  BY <1>1, StillCalm
<1>3. WorldInv' /\ (\A q \in Req \ {r} : Kept(q))
  BY <1>2, CalmStep
<1>4. J.at = "read" => Up' \subseteq J.ids
  BY DEF Up
<1>5. J.at = "abandon" => pane'[J.new] # "up"
  OBVIOUS
<1>6. Live(J.conv)' = Live(J.conv)
  BY DEF Live, Up, RowsOf
<1>7. JobInv(r)'
  BY <1>2, <1>4, <1>5, <1>6, GoesKeeps
<1>8. QED
  BY <1>3, <1>7 DEF Good

\* A call begins and keeps what the others know; it knows nothing itself, or
\* that its conversation is fresh.
LEMMA AskGood ==
  ASSUME IInv, NEW r \in Req, Ask(r)
  PROVE  Good(r)
<1>0. /\ TypeOK /\ LockInv(r) /\ Idle \in Job /\ WorldType
      /\ \A i \in Offered : i \in Id /\ row[i] # "free"
  BY IdleType DEF IInv, Base, TypeOK, WorldType, Offered
<1>6. job[r] = Idle
  <2>1. At(r, "idle")
    BY Zenon DEF Ask, AskResume, AskReopen, AskStart, Kill
  <2>2. QED
    BY <1>0, <2>1 DEF LockInv
<1>7. Noted
  BY CallNotes DEF IInv
<1>1. CASE AskResume(r)
  <2>1. PICK c \in Conv, i \in (Offered \ Up) \cup {None} :
          /\ Begun(c) /\ (i # None => conv[i] = c)
          /\ job' = [job EXCEPT ![r] =
                      [Idle EXCEPT !.at = "asked", !.kind = "resume", !.conv = c, !.old = i]]
          /\ early' = early \cup ({i} \cap Unborn)
    BY <1>1, Zenon DEF AskResume
  <2> DEFINE J == [Idle EXCEPT !.at = "asked", !.kind = "resume", !.conv = c, !.old = i]
  <2>2. /\ J \in Job /\ J.at = "asked" /\ J.kind = "resume" /\ J.conv = c /\ J.old = i
        /\ J.todo = {} /\ J.doomed = {}
    BY <1>0, <2>1 DEF Job, Place, Idle
  <2>3. job' = [job EXCEPT ![r] = J]
    BY <2>1
  <2> HIDE DEF J
  <2>4. Sets(r, J)
    BY <1>0, <2>2, <2>3, SetsJob
  <2>5. UNCHANGED <<row, conv, pane, proc>>
    BY <1>1, Zenon DEF AskResume
  <2>6. \A q \in Req \ {r} : Starting(q) => c # job[q].conv
    BY <2>1 DEF IInv, JobInv, ClaimInv, Begun
  <2>7. Calm(r, J)
    BY <1>7, <2>2, <2>4, <2>5, <2>6, SameWorld DEF Calm, IInv
  <2>8. i # None => Over(i)' /\ row'[i] # "free" /\ conv'[i] = c
    <3> SUFFICES ASSUME i # None PROVE Over(i)' /\ row'[i] # "free" /\ conv'[i] = c
      OBVIOUS
    <3>1. i \in Id /\ row[i] # "free" /\ pane[i] # "up" /\ conv[i] = c
      BY <1>0, <2>1 DEF Up
    <3>2. pane[i] = "unborn" => i \in early'
      BY <2>1, <3>1 DEF Unborn
    <3>3. QED
      BY <1>0, <2>5, <3>1, <3>2 DEF Over, Fell, WorldType
  <2>9. JobInv(r)'
    <3>1. OverInv(r)'
      BY <2>2, <2>4, <2>8 DEF OverInv, Sets, At
    <3>2. OpeningInv(r)' /\ ClaimInv(r)'
      BY <2>2, <2>4 DEF OpeningInv, ClaimInv, Sets, At, Launching, Starting
    <3>3. QED
      BY <3>1, <3>2 DEF JobInv
  <2>10. QED
    BY <2>7, <2>9, CalmStep DEF Good
<1>2. CASE AskReopen(r)
  <2>1. PICK S \in SUBSET (Offered \cap Standing) :
          job' = [job EXCEPT ![r] = [Idle EXCEPT !.at = "plan", !.kind = "reopen", !.todo = S]]
    BY <1>2, Zenon DEF AskReopen
  <2> DEFINE J == [Idle EXCEPT !.at = "plan", !.kind = "reopen", !.todo = S]
  <2>2. /\ J \in Job /\ J.at = "plan" /\ J.kind = "reopen" /\ J.conv = None /\ J.old = None
        /\ J.todo = S /\ J.doomed = {}
    BY <1>0, <2>1 DEF Job, Place, Idle
  <2>3. job' = [job EXCEPT ![r] = J]
    BY <2>1
  <2> HIDE DEF J
  <2>4. Sets(r, J)
    BY <1>0, <2>2, <2>3, SetsJob
  <2>5. UNCHANGED <<row, conv, pane, proc>>
    BY <1>2, Zenon DEF AskReopen
  <2>6. Calm(r, J)
    BY <1>7, <2>2, <2>4, <2>5, StillCalm
  <2>7. JobInv(r)'
    <3>1. OverInv(r)' /\ OpeningInv(r)'
      BY <2>2, <2>4 DEF OverInv, OpeningInv, Sets, At, Launching
    <3>2. ClaimInv(r)'
      BY <2>2, <2>4 DEF ClaimInv, Sets, At, Starting
    <3>3. QED
      BY <3>1, <3>2 DEF JobInv
  <2>8. QED
    BY <2>6, <2>7, CalmStep DEF Good
<1>3. CASE AskStart(r)
  <2>1. PICK c \in Fresh :
          /\ RowsOf(c) = {} /\ \A q \in Req : job[q].conv # c
          /\ job' = [job EXCEPT ![r] = [Idle EXCEPT !.at = "gate", !.kind = "start", !.conv = c]]
    BY <1>3, Zenon DEF AskStart
  <2> DEFINE J == [Idle EXCEPT !.at = "gate", !.kind = "start", !.conv = c]
  <2>2. /\ J \in Job /\ J.at = "gate" /\ J.kind = "start" /\ J.conv = c /\ J.old = None
        /\ J.todo = {} /\ J.doomed = {}
    <3>1. c \in Conv
      BY ClaimAssumption DEF ClaimAssumption
    <3>2. QED
      BY <1>0, <3>1 DEF Job, Place, Idle
  <2>3. job' = [job EXCEPT ![r] = J]
    BY <2>1
  <2> HIDE DEF J
  <2>4. Sets(r, J)
    BY <1>0, <2>2, <2>3, SetsJob
  <2>5. UNCHANGED <<row, conv, pane, proc>>
    BY <1>3, Zenon DEF AskStart
  <2>6. Calm(r, J)
    BY <1>7, <2>1, <2>2, <2>4, <2>5, SameWorld DEF Calm, IInv
  <2>7. RowsOf(c)' = {} /\ Live(c)' = {}
    BY <2>1, <2>5 DEF RowsOf, Live, IInv, WorldInv
  <2>8. \A q \in Req : job'[q].conv = c => q = r
    BY <2>1, <2>4 DEF Sets
  <2>9. JobInv(r)'
    <3>1. OverInv(r)'
      BY <2>2, <2>4 DEF OverInv, Sets, At
    <3>2. OpeningInv(r)'
      BY <2>2, <2>4 DEF OpeningInv, Sets, At, Launching
    <3>3. ClaimInv(r)'
      BY <2>2, <2>4, <2>7, <2>8 DEF ClaimInv, Sets, At, Starting
    <3>4. QED
      BY <3>1, <3>2, <3>3 DEF JobInv
  <2>10. QED
    BY <2>6, <2>9, CalmStep DEF Good
<1>4. CASE Kill(r)
  <2>1. PICK i \in Offered :
          /\ pane' = [pane EXCEPT ![i] = IF pane[i] = "unborn" THEN pane[i] ELSE "gone"]
          /\ job' = [job EXCEPT ![r] = [Idle EXCEPT !.at = "retire", !.kind = "end", !.old = i]]
          /\ early' = early \cup ({i} \cap Unborn)
    BY <1>4, Zenon DEF Kill
  <2> DEFINE J == [Idle EXCEPT !.at = "retire", !.kind = "end", !.old = i]
  <2>2. /\ J \in Job /\ J.at = "retire" /\ J.kind = "end" /\ J.conv = None /\ J.old = i
        /\ J.todo = {} /\ J.doomed = {}
    BY <1>0, <2>1 DEF Job, Place, Idle
  <2>3. job' = [job EXCEPT ![r] = J]
    BY <2>1
  <2> HIDE DEF J
  <2>4. Sets(r, J)
    BY <1>0, <2>2, <2>3, SetsJob
  <2>5. UNCHANGED <<row, conv, proc>>
    BY <1>4, Zenon DEF Kill
  <2>6. /\ i \in Id /\ row[i] # "free"
        /\ pane'[i] = IF pane[i] = "unborn" THEN "unborn" ELSE "gone"
        /\ \A j \in Id : j # i => pane'[j] = pane[j]
    BY <1>0, <2>1 DEF WorldType
  <2>7. RowsKept /\ WorldType'
    BY <1>0, <2>1, <2>5, <2>6 DEF RowsKept, WorldType
  <2>8. \A q \in Req \ {r} : Starting(q) => None # job[q].conv
    BY ClaimAssumption DEF IInv, Base, LockInv, Starting, ClaimAssumption
  <2>9. Calm(r, J)
    BY <1>0, <1>7, <2>2, <2>4, <2>5, <2>6, <2>7, <2>8 DEF Calm, WorldType
  <2>10. Over(i)' /\ row'[i] # "free"
    <3>1. pane[i] = "unborn" => i \in early'
      BY <2>1, <2>6 DEF Unborn
    <3>2. QED
      BY <2>5, <2>6, <3>1 DEF Over, Fell
  <2>11. JobInv(r)'
    <3>1. OverInv(r)'
      BY <2>2, <2>4, <2>10 DEF OverInv, Sets, At, Locks
    <3>2. OpeningInv(r)' /\ ClaimInv(r)'
      BY <2>2, <2>4 DEF OpeningInv, ClaimInv, Sets, At, Launching, Starting
    <3>3. QED
      BY <3>1, <3>2 DEF JobInv
  <2>12. QED
    BY <2>9, <2>11, CalmStep DEF Good
<1>5. QED
  BY <1>1, <1>2, <1>3, <1>4 DEF Ask

\* The claims, read without a failure, tell who drives the conversation.
LEMMA ClaimsTell ==
  ASSUME NEW c, NEW except, except \notin Up, HeldBy(c, {}, except) = {}
  PROVE  Live(c) = {}
<1> DEFINE managed == Standing \cap Up \cap RowsOf(c)
<1>1. CASE managed = {}
  <2>1. Holders(c, {}) = {[kind |-> "process", who |-> p] : p \in Live(c)}
    BY <1>1, Zenon DEF Holders, Live
  <2>2. HeldBy(c, {}, except) = {[kind |-> "process", who |-> p] : p \in Live(c)}
    BY <2>1 DEF HeldBy
  <2> HIDE DEF managed
  <2>3. QED
    BY <2>2
<1>2. CASE managed # {}
  <2>1. managed \subseteq Id /\ managed \subseteq Up
    BY DEF Up
  <2>2. Least(managed) \in managed
    BY <1>2, <2>1, LeastIn
  <2>3. Holders(c, {}) = {[kind |-> "managed", who |-> Least(managed)]}
    BY <1>2, Zenon DEF Holders
  <2> HIDE DEF managed
  <2>4. Least(managed) # except
    BY <2>1, <2>2
  <2>5. HeldBy(c, {}, except) = {[kind |-> "managed", who |-> Least(managed)]}
    BY <2>3, <2>4 DEF HeldBy
  <2>6. QED
    BY <2>5
<1>3. QED
  BY <1>1, <1>2

\* A process that a claim names does drive the conversation, whatever failed.
LEMMA ClaimsName ==
  ASSUME NEW c, NEW hidden, NEW except, NEW h \in HeldBy(c, hidden, except), h.kind # "managed"
  PROVE  h.who \in Live(c)
<1> DEFINE managed == IF hidden \cap {"rows", "panes"} # {} THEN {}
                      ELSE Standing \cap Up \cap RowsOf(c)
           process == IF "procs" \in hidden THEN {}
                      ELSE {p \in Proc : proc[p] = c} \cup (Up \cap RowsOf(c))
<1>1. h \in Holders(c, hidden)
  BY DEF HeldBy
<1>2. CASE managed # {}
  <2>1. Holders(c, hidden) = {[kind |-> "managed", who |-> Least(managed)]}
    BY <1>2, Zenon DEF Holders
  <2> HIDE DEF managed
  <2>2. QED
    BY <1>1, <2>1
<1>3. CASE managed = {}
  <2>1. Holders(c, hidden) = {[kind |-> "process", who |-> p] : p \in process}
    BY <1>3, Zenon DEF Holders
  <2>2. process \subseteq Live(c)
    BY DEF Live
  <2> HIDE DEF managed, process
  <2>3. QED
    BY <1>1, <2>1, <2>2
<1>4. QED
  BY <1>2, <1>3

\* A resume: past its last look, nobody but the holder it is to end is in the
\* conversation.
LEMMA ResumeGood ==
  ASSUME IInv, NEW r \in Req,
         ReadClaims(r) \/ Confirm(r) \/ HolderGone(r) \/ WillNotDie(r)
  PROVE  Good(r)
<1>0. /\ TypeOK /\ LockInv(r) /\ OverInv(r) /\ ClaimInv(r) /\ job[r] \in Job
      /\ UNCHANGED <<row, conv, pane, proc>>
  BY JobFields DEF IInv, Base, JobInv, ReadClaims, Confirm, HolderGone, WillNotDie
<1>8. Noted /\ WorldInv /\ HistoryType
  BY CallNotes DEF IInv, Serve, Base, TypeOK, HistoryType
<1>9. RowsKept
  BY <1>0, SameRows DEF IInv
<1>10. \A i \in job[r].doomed : i \in Id /\ Over(i)'
  BY <1>0, <1>8, JobFields, OverStays DEF OverInv, Fell
<1>1. job[r].at \in {"asked", "confirm", "ending"}
  BY DEF ReadClaims, Confirm, HolderGone, WillNotDie, At
<1>2. Locks(r) /\ Inside(r) /\ job[r].conv \in Conv
  BY <1>0 DEF ReadClaims, Confirm, HolderGone, WillNotDie, At, LockInv, Locked, Locks
<1>11. PICK c \in Conv : c = job[r].conv
  BY <1>2
<1>3. CASE Finish(r)
  BY <1>0, <1>1, <1>2, <1>3, <1>8, FinishGood
<1>4. CASE ReadClaims(r)
  <2>1. PICK hidden \in SUBSET Sources :
          /\ misread' = misread \cup {x \in {job[r].conv} : Hides(x, hidden, job[r].old)}
          /\ early' = early
          /\ LET held == HeldBy(job[r].conv, hidden, job[r].old)
             IN  \/ held = {} /\ Goes(r, "gate")
                 \/ \E h \in held :
                      IF h.kind = "managed" THEN Finish(r)
                      ELSE job' = [job EXCEPT ![r] =
                                    [job[r] EXCEPT !.at = "confirm", !.target = h.who]]
    BY <1>4, Zenon DEF ReadClaims
  <2>2. ASSUME Clean(c)' PROVE job[r].old \notin Up
    <3>1. job[r].old = None => job[r].old \notin Up
      BY ClaimAssumption DEF Up, ClaimAssumption
    <3>2. job[r].old # None => Over(job[r].old) /\ conv[job[r].old] = c
      BY <1>0, <1>2, <1>11 DEF OverInv
    <3>3. job[r].old \notin early
      BY <1>0, <2>1, <2>2, <3>2, ClaimAssumption DEF Clean, ClaimAssumption, HistoryType, TypeOK
    <3>4. QED
      BY <3>1, <3>2, <3>3 DEF Over, Fell, Up
  <2>3. CASE HeldBy(job[r].conv, hidden, job[r].old) = {} /\ Goes(r, "gate")
    <3> DEFINE J == [job[r] EXCEPT !.at = "gate"]
    <3>1. /\ J \in Job /\ J.at = "gate" /\ J.kind = job[r].kind /\ J.conv = job[r].conv
          /\ J.todo = job[r].todo /\ J.old = job[r].old /\ J.doomed = job[r].doomed
      BY <1>0 DEF Job, Place
    <3>2. job' = [job EXCEPT ![r] = J]
      BY <2>3 DEF Goes
    <3>3. Clean(c)' => Live(c) = {}
      <4> SUFFICES ASSUME Clean(c)' PROVE Live(c) = {}
        OBVIOUS
      <4>1. ~Hides(c, hidden, job[r].old)
        BY <1>11, <2>1 DEF Clean
      <4>2. HeldBy(c, {}, job[r].old) = {}
        BY <1>11, <2>3, <4>1, Zenon DEF Hides
      <4>3. QED
        BY <2>2, <4>2, ClaimsTell
    <3>4. job[r].kind \in {"resume", "reopen"}
      BY <1>2 DEF Locks
    <3> HIDE DEF J
    <3>5. QED
      BY <1>0, <1>1, <1>8, <1>10, <1>11, <3>1, <3>2, <3>3, <3>4, GoesGood
  <2>4. ASSUME NEW h \in HeldBy(job[r].conv, hidden, job[r].old), h.kind # "managed",
               job' = [job EXCEPT ![r] = [job[r] EXCEPT !.at = "confirm", !.target = h.who]]
        PROVE  Good(r)
    <3> DEFINE J == [job[r] EXCEPT !.at = "confirm", !.target = h.who]
    <3>0. h.who \in Proc \cup Id
      BY <2>4, HolderType
    <3>1. /\ J \in Job /\ J.at = "confirm" /\ J.kind = job[r].kind /\ J.conv = job[r].conv
          /\ J.todo = job[r].todo /\ J.old = job[r].old /\ J.doomed = job[r].doomed
          /\ J.target = h.who
      BY <1>0, <3>0 DEF Job, Place
    <3>2. job' = [job EXCEPT ![r] = J]
      BY <2>4
    <3>3. Clean(c)' => Live(c) \subseteq {h.who}
      <4>1. h.who \in Live(c)
        BY <1>11, <2>4, ClaimsName
      <4>2. Clean(c)' => \A x, y \in Live(c) : x = y
        BY <1>8, <1>9, <1>11, CleanBefore DEF WorldInv
      <4>3. QED
        BY <4>1, <4>2
    <3> HIDE DEF J
    <3>4. QED
      BY <1>0, <1>1, <1>2, <1>8, <1>10, <1>11, <3>1, <3>2, <3>3, GoesGood
  <2>5. QED
    BY <1>3, <2>1, <2>3, <2>4
<1>5. CASE Confirm(r) /\ Goes(r, "ending")
  <2> DEFINE J == [job[r] EXCEPT !.at = "ending"]
  <2>1. /\ J \in Job /\ J.at = "ending" /\ J.kind = job[r].kind /\ J.conv = job[r].conv
        /\ J.todo = job[r].todo /\ J.old = job[r].old /\ J.doomed = job[r].doomed
        /\ J.target = job[r].target
    BY <1>0 DEF Job, Place
  <2>2. job' = [job EXCEPT ![r] = J]
    BY <1>5 DEF Goes
  <2>3. Clean(c)' => Live(c) \subseteq {job[r].target}
    <3>1. Clean(c) => Live(c) \subseteq {job[r].target}
      BY <1>0, <1>5, <1>11 DEF ClaimInv, Confirm, At
    <3>2. QED
      BY <1>8, <1>9, <3>1, CleanBefore
  <2> HIDE DEF J
  <2>4. QED
    BY <1>0, <1>1, <1>2, <1>8, <1>10, <1>11, <2>1, <2>2, <2>3, GoesGood
<1>6. CASE HolderGone(r)
  <2> DEFINE J == [job[r] EXCEPT !.at = "gate", !.target = None]
  <2>1. /\ J \in Job /\ J.at = "gate" /\ J.kind = job[r].kind /\ J.conv = job[r].conv
        /\ J.todo = job[r].todo /\ J.old = job[r].old /\ J.doomed = job[r].doomed
    BY <1>0 DEF Job, Place
  <2>2. job' = [job EXCEPT ![r] = J]
    BY <1>6 DEF HolderGone
  <2>3. (Clean(c) => Live(c) \subseteq {job[r].target}) /\ ~Runs(job[r].target)
    BY <1>0, <1>6, <1>11 DEF ClaimInv, HolderGone, At
  <2>6. Clean(c) => Live(c) = {}
    BY <2>3, ClaimAssumption DEF Runs, Live, Up, ClaimAssumption
  <2>4. Clean(c)' => Live(c) = {}
    BY <1>8, <1>9, <2>6, CleanBefore
  <2>5. job[r].kind \in {"resume", "reopen"}
    BY <1>2 DEF Locks
  <2> HIDE DEF J
  <2>7. QED
    BY <1>0, <1>1, <1>8, <1>10, <1>11, <2>1, <2>2, <2>4, <2>5, GoesGood
<1>7. QED
  BY <1>3, <1>4, <1>5, <1>6 DEF Confirm, WillNotDie

\* A reopen: whoever is in the conversation of a row, the second look finds,
\* unless the rows cannot be read.
LEMMA ReopenGood ==
  ASSUME IInv, NEW r \in Req, Plan(r) \/ NextRow(r) \/ LastRow(r) \/ Recheck(r)
  PROVE  Good(r)
<1>0. /\ TypeOK /\ LockInv(r) /\ OverInv(r) /\ ClaimInv(r) /\ job[r] \in Job
      /\ UNCHANGED <<row, conv, pane, proc>>
      /\ job[r].todo \subseteq Id /\ job[r].doomed \subseteq Id /\ job[r].old \in Id \cup {None}
  BY JobFields DEF IInv, Base, JobInv, Plan, NextRow, LastRow, Recheck
<1>7. Noted /\ WorldInv /\ HistoryType /\ RowInv
  BY CallNotes DEF IInv, Serve, Base, TypeOK, HistoryType
<1>8. RowsKept
  BY <1>0, SameRows DEF IInv
<1>9. \A i \in Id : Over(i) => Over(i)'
  BY <1>0, <1>7, OverStays DEF Fell
<1>10. \A c : (Clean(c)' => Clean(c)) /\ (Begun(c) => Begun(c)')
  <2>1. \A c : Begun(c) => Begun(c)'
    BY <1>0, <1>7, <1>8, BegunStays
  <2>2. QED
    BY <1>7, <1>8, <2>1, CleanBefore
<1>11. \A i \in job[r].todo : row[i] # "free" /\ conv[i] \in Conv
  BY <1>0, <1>7 DEF LockInv, RowInv
\* Only the rows left and the row replaced matter to a call at such a place.
<1>1. ASSUME NEW J \in Job, job' = [job EXCEPT ![r] = J], J.at \in {"next", "done"},
             J.conv \in {None, job[r].conv}, J.kind = job[r].kind, J.old = job[r].old,
             J.doomed = job[r].doomed, J.todo \subseteq job[r].todo, J.conv = job[r].conv,
             J.at = "next" => \A i \in J.todo :
                                /\ Over(i)' /\ Begun(conv[i])
                                /\ \A c \in Conv : c = conv[i] /\ Clean(c)' =>
                                     \A p \in Proc : proc[p] # c
      PROVE  Good(r)
  <2>1. Sets(r, J)
    BY <1>0, <1>1, SetsJob
  <2>2. Calm(r, J)
    BY <1>0, <1>1, <1>7, <2>1, StillCalm
  <2>3. Locks(r)' = Locks(r) /\ job'[r] = J
    BY <1>1, <2>1 DEF Locks, Sets
  <2>4. OverInv(r)'
    <3>1. J.at = "next" => \A i \in J.todo : Over(i)' /\ Begun(conv[i])'
      <4>1. ASSUME J.at = "next", NEW i \in J.todo, NEW c \in Conv, c = conv[i]
            PROVE  Begun(c)'
        BY <1>1, <1>10, <4>1
      <4>2. QED
        BY <1>0, <1>1, <1>11, <4>1 DEF Begun, RowsOf
    <3>2. J.old # None => /\ Over(J.old)' /\ row'[J.old] # "free"
                          /\ Locks(r) => conv'[J.old] = J.conv
      BY <1>0, <1>1, <1>9 DEF OverInv
    <3>3. \A i \in J.doomed : Over(i)'
      BY <1>0, <1>1, <1>9 DEF OverInv
    <3>4. QED
      BY <1>1, <2>3, <3>1, <3>2, <3>3 DEF OverInv, At
  <2>5. OpeningInv(r)'
    BY <1>1, <2>3 DEF OpeningInv, At, Launching
  <2>6. ClaimInv(r)'
    <3>1. J.at = "next" => \A i \in J.todo : Clean(conv[i])' => \A p \in Proc : proc'[p] # conv'[i]
      <4>1. ASSUME J.at = "next", NEW i \in J.todo, NEW c \in Conv, c = conv[i], Clean(c)'
            PROVE  \A p \in Proc : proc[p] # c
        BY <1>1, <4>1
      <4>2. QED
        BY <1>0, <1>1, <1>11, <4>1 DEF Clean
    <3>2. J.kind = "reopen" /\ J.conv # None =>
            (Clean(J.conv)' => \A p \in Proc : proc'[p] # J.conv)
      BY <1>0, <1>1, <1>10 DEF ClaimInv
    <3>3. QED
      BY <1>1, <2>3, <3>1, <3>2 DEF ClaimInv, At, Starting
  <2>7. QED
    BY <2>2, <2>4, <2>5, <2>6, CalmStep DEF Good, JobInv
<1>2. CASE Plan(r)
  <2>1. CASE \E hidden \in SUBSET Sources :
               LET chosen == Reopenable(job[r].todo, hidden) IN
               /\ job' = [job EXCEPT ![r] = [job[r] EXCEPT !.at = "next", !.todo = chosen]]
               /\ early' = early \cup (chosen \cap Unborn)
               /\ misread' = misread \cup {conv[i] : i \in {j \in chosen : Hides(conv[j], hidden, j)}}
    <3>1. PICK hidden \in SUBSET Sources :
               LET chosen == Reopenable(job[r].todo, hidden) IN
               /\ job' = [job EXCEPT ![r] = [job[r] EXCEPT !.at = "next", !.todo = chosen]]
               /\ early' = early \cup (chosen \cap Unborn)
               /\ misread' = misread \cup {conv[i] : i \in {j \in chosen : Hides(conv[j], hidden, j)}}
      BY <2>1, Zenon
    <3>2. PICK S \in SUBSET job[r].todo : S = Reopenable(job[r].todo, hidden)
      BY DEF Reopenable
    <3> DEFINE J == [job[r] EXCEPT !.at = "next", !.todo = S]
    <3>3. /\ J \in Job /\ J.at = "next" /\ J.kind = job[r].kind /\ J.conv = job[r].conv
          /\ J.old = job[r].old /\ J.doomed = job[r].doomed /\ J.todo = S
      BY <1>0, <3>2 DEF Job, Place
    <3>4. job' = [job EXCEPT ![r] = J]
      BY <3>1, <3>2, Zenon
    <3>5. /\ early' = early \cup (S \cap Unborn)
          /\ misread' = misread \cup {conv[i] : i \in {j \in S : Hides(conv[j], hidden, j)}}
      BY <3>1, <3>2, Zenon
    <3>6. ASSUME NEW i \in S
          PROVE  /\ Over(i)' /\ Begun(conv[i])
                 /\ \A c \in Conv : c = conv[i] /\ Clean(c)' => \A p \in Proc : proc[p] # c
      <4>1. i \in Id /\ i \notin Up /\ Begun(conv[i]) /\ HeldBy(conv[i], hidden, i) = {}
        BY <1>0, <3>2, <3>6 DEF Reopenable
      <4>2. Over(i)'
        <5>1. pane[i] = "unborn" => i \in early'
          BY <3>5, <3>6, <4>1 DEF Unborn
        <5>2. pane[i] \in {"unborn", "up", "dead", "gone"}
          BY <1>0, <4>1 DEF TypeOK
        <5>3. QED
          BY <1>0, <4>1, <5>1, <5>2 DEF Over, Fell, Up
      <4>3. ASSUME NEW c \in Conv, c = conv[i], Clean(c)' PROVE Live(c) = {}
        <5>1. ~Hides(c, hidden, i)
          <6> SUFFICES ASSUME Hides(c, hidden, i) PROVE c \in misread'
            BY <4>3 DEF Clean
          <6>1. i \in {j \in S : Hides(conv[j], hidden, j)}
            BY <3>6, <4>3, Zenon
          <6>2. QED
            BY <3>5, <4>3, <6>1, Zenon
        <5>2. HeldBy(c, {}, i) = {}
          BY <4>1, <4>3, <5>1, Zenon DEF Hides
        <5>3. QED
          BY <4>1, <5>2, ClaimsTell
      <4>4. QED
        BY <4>1, <4>2, <4>3 DEF Live
    <3> HIDE DEF J
    <3>7. QED
      BY <1>1, <3>3, <3>4, <3>6
  <2>2. CASE Goes(r, "done")
    <3> DEFINE J == [job[r] EXCEPT !.at = "done"]
    <3>1. /\ J \in Job /\ J.at = "done" /\ J.kind = job[r].kind /\ J.conv = job[r].conv
          /\ J.old = job[r].old /\ J.doomed = job[r].doomed /\ J.todo = job[r].todo
      BY <1>0 DEF Job, Place
    <3>2. job' = [job EXCEPT ![r] = J]
      BY <2>2 DEF Goes
    <3> HIDE DEF J
    <3>3. QED
      BY <1>1, <3>1, <3>2
  <2>3. QED
    BY <1>2, <2>1, <2>2, Zenon DEF Plan
<1>3. CASE LastRow(r)
  <2> DEFINE J == [job[r] EXCEPT !.at = "done"]
  <2>1. /\ J \in Job /\ J.at = "done" /\ J.kind = job[r].kind /\ J.conv = job[r].conv
        /\ J.old = job[r].old /\ J.doomed = job[r].doomed /\ J.todo = job[r].todo
    BY <1>0 DEF Job, Place
  <2>2. job' = [job EXCEPT ![r] = J]
    BY <1>3, Zenon DEF LastRow, Goes
  <2> HIDE DEF J
  <2>3. QED
    BY <1>1, <2>1, <2>2
<1>4. CASE NextRow(r)
  <2>1. PICK i \in job[r].todo : i = Least(job[r].todo)
    BY <1>0, <1>4, LeastIn DEF NextRow
  <2> DEFINE J == [job[r] EXCEPT !.at = "asked", !.conv = conv[i], !.old = i,
                                 !.todo = job[r].todo \ {i}]
  <2>0. At(r, "next")
    BY <1>4 DEF NextRow
  <2>10. TodoInv(job[r].todo)
    BY <2>0, TodoKnown DEF At
  <2>2. PICK c \in Conv : c = conv[i]
    BY <1>11, <2>1
  <2>3. /\ i \in Id /\ row[i] # "free" /\ Over(i) /\ Begun(c)
        /\ Clean(c) => \A p \in Proc : proc[p] # c
    BY <1>0, <1>11, <2>1, <2>2, <2>10 DEF TodoInv
  <2>4. /\ J \in Job /\ J.at = "asked" /\ J.kind = job[r].kind /\ J.conv = c
        /\ J.old = i /\ J.doomed = job[r].doomed /\ J.todo \subseteq job[r].todo
    BY <1>0, <2>2, <2>3 DEF Job, Place
  <2>5. job' = [job EXCEPT ![r] = J]
    BY <1>4, <2>1, Zenon DEF NextRow
  <2> HIDE DEF J
  <2>6. Sets(r, J)
    BY <1>0, <2>4, <2>5, SetsJob
  <2>7. \A q \in Req \ {r} : Starting(q) => c # job[q].conv
    BY <2>3 DEF IInv, JobInv, ClaimInv, Begun
  <2>8. Calm(r, J)
    BY <1>0, <1>7, <2>4, <2>6, <2>7, SameWorld DEF Calm, IInv
  <2>9. /\ \A k \in J.todo : Over(k)' /\ Begun(conv[k])'
        /\ \A k \in J.todo : Clean(conv[k])' => \A p \in Proc : proc'[p] # conv'[k]
    <3>1. TodoInv(J.todo)
      BY <2>4, <2>10 DEF TodoInv
    <3>2. QED
      BY <2>4, <2>8, <3>1, TodoKept
  <2>11. job'[r] = J
    BY <2>6 DEF Sets
  <2>12. OverInv(r)'
    <3>1. Over(i)' /\ row'[i] # "free" /\ conv'[i] = J.conv
      BY <1>0, <1>9, <2>2, <2>3, <2>4
    <3>2. \A k \in J.doomed : Over(k)'
      BY <1>0, <1>9, <2>4 DEF OverInv
    <3>3. QED
      BY <2>4, <2>9, <2>11, <3>1, <3>2 DEF OverInv, At
  <2>13. OpeningInv(r)'
    BY <2>4, <2>11 DEF OpeningInv, At, Launching
  <2>14. ClaimInv(r)'
    <3>1. Clean(c)' => Clean(c)
      BY <1>10
    <3>2. Clean(c)' => \A p \in Proc : proc'[p] # c
      BY <1>0, <2>3, <3>1
    <3>3. job'[r].conv = c /\ job'[r].at = "asked"
      BY <2>4, <2>11
    <3>4. Clean(job[r].conv)' => \A p \in Proc : proc'[p] # job'[r].conv
      BY <3>2, <3>3 DEF Clean
    <3>5. QED
      BY <2>4, <2>9, <2>11, <3>3, <3>4 DEF ClaimInv, At, Starting
  <2>15. QED
    BY <2>8, <2>12, <2>13, <2>14, CalmStep DEF Good, JobInv
<1>5. CASE Recheck(r)
  <2>1. Locks(r) /\ Inside(r) /\ job[r].conv \in Conv
    BY <1>0, <1>5 DEF Recheck, At, Locks, LockInv
  <2>2. CASE Finish(r)
    BY <1>0, <1>5, <1>7, <2>1, <2>2, FinishGood DEF Recheck, At
  <2>3. CASE Goes(r, "gate") /\ \E hidden \in SUBSET {"rows"} :
               /\ misread' = misread \cup
                    {x \in {job[r].conv} : hidden # {} /\ AlreadyOpen(x, job[r].old, {})}
               /\ ~AlreadyOpen(job[r].conv, job[r].old, hidden)
    <3>0. PICK c \in Conv : c = job[r].conv
      BY <2>1
    <3>1. Clean(c)' => ~AlreadyOpen(c, job[r].old, {})
      BY <2>3, <3>0 DEF Clean
    <3>2. ASSUME Clean(c)' PROVE Live(c) = {}
      <4>1. (Standing \cap Up \cap RowsOf(c)) \ {job[r].old} = {}
        BY <3>1, <3>2 DEF AlreadyOpen
      <4>2. \A i \in early : conv[i] # c
        BY <1>10, <3>2 DEF Clean
      <4>3. job[r].old \notin Up
        <5>1. job[r].old # None => Over(job[r].old) /\ conv[job[r].old] = c
          BY <1>0, <2>1, <3>0 DEF OverInv
        <5>2. QED
          BY <4>2, <5>1, ClaimAssumption DEF Over, Fell, Up, ClaimAssumption
      <4>4. Up \cap RowsOf(c) = {}
        BY <1>7, <4>1, <4>2, <4>3 DEF WorldInv, LiveRowsStand, RowsOf
      <4>5. \A p \in Proc : proc[p] # c
        BY <1>0, <1>5, <1>10, <3>0, <3>2, ClaimAssumption DEF ClaimInv, Recheck, ClaimAssumption
      <4>6. QED
        BY <4>4, <4>5 DEF Live
    <3> DEFINE J == [job[r] EXCEPT !.at = "gate"]
    <3>3. /\ J \in Job /\ J.at = "gate" /\ J.kind = job[r].kind /\ J.conv = c
          /\ J.todo = job[r].todo /\ J.old = job[r].old /\ J.doomed = job[r].doomed
      BY <1>0, <3>0 DEF Job, Place
    <3>4. job' = [job EXCEPT ![r] = J]
      BY <2>3 DEF Goes
    <3>5. job[r].at = "asked" /\ job[r].kind = "reopen"
      BY <1>5 DEF Recheck, At
    <3>6. \A i \in job[r].doomed : i \in Id /\ Over(i)'
      BY <1>0, <1>9 DEF OverInv
    <3> HIDE DEF J
    <3>7. QED
      BY <1>0, <1>7, <3>0, <3>2, <3>3, <3>4, <3>5, <3>6, GoesGood
  <2>4. QED
    BY <1>5, <2>2, <2>3, Zenon DEF Recheck
<1>6. QED
  BY <1>2, <1>3, <1>4, <1>5

\* A row is added: its pane is still to come, and it is its call's alone.
LEMMA AddRowGood ==
  ASSUME IInv, NEW r \in Req, AddRow(r)
  PROVE  Good(r)
<1>0. /\ TypeOK /\ LockInv(r) /\ OverInv(r) /\ ClaimInv(r) /\ job[r] \in Job
      /\ At(r, "gate") /\ job[r].conv \in Conv /\ UNCHANGED <<pane, proc>>
      /\ job[r].doomed \subseteq Id /\ job[r].old \in Id \cup {None}
      /\ \A i \in job[r].todo : i \in Id /\ row[i] # "free"
  BY JobFields DEF IInv, Base, JobInv, OverInv, AddRow, At, LockInv
<1>1. PICK n \in Id :
        /\ row[n] = "free"
        /\ row' = [row EXCEPT ![n] = "standing"]
        /\ conv' = [conv EXCEPT ![n] = job[r].conv]
        /\ job' = [job EXCEPT ![r] = [job[r] EXCEPT !.at = "pane", !.new = n]]
  BY DEF AddRow
<1>14. Noted /\ WorldInv /\ HistoryType /\ early' = early /\ misread' = misread
  BY CallNotes DEF IInv, Serve, Base, TypeOK, HistoryType, AddRow, history
<1> DEFINE J == [job[r] EXCEPT !.at = "pane", !.new = n]
<1>2. /\ J \in Job /\ J.at = "pane" /\ J.kind = job[r].kind /\ J.conv = job[r].conv
      /\ J.todo = job[r].todo /\ J.old = job[r].old /\ J.doomed = job[r].doomed /\ J.new = n
  BY <1>0 DEF Job, Place
<1>3. job' = [job EXCEPT ![r] = J]
  BY <1>1
<1> HIDE DEF J
<1>4. Sets(r, J)
  BY <1>0, <1>2, <1>3, SetsJob
<1>5. /\ row'[n] = "standing" /\ conv'[n] = job[r].conv /\ pane[n] = "unborn"
      /\ \A i \in Id : i # n => row'[i] = row[i] /\ conv'[i] = conv[i]
  BY <1>0, <1>1 DEF TypeOK, IInv, WorldInv
<1>6. RowsKept /\ WorldType'
  BY <1>0, <1>1, <1>5, CallSteps DEF RowsKept, IInv, CallStep, Serve
<1>7. WorldInv'
  BY <1>0, <1>1, <1>5, <1>6, <1>14, WorldKept
<1>8. /\ \A i \in Id : Over(i) => Over(i)'
      /\ \A c : Clean(c)' => Clean(c)
      /\ \A c : Begun(c) => Begun(c)'
  <2>1. \A i \in Id : Over(i) => Over(i)'
    BY <1>0, <1>14, OverStays DEF Fell
  <2>2. \A c : Clean(c)' => Clean(c)
    BY <1>6, <1>14, CleanBefore
  <2>3. \A c : Begun(c) => Begun(c)'
    BY <1>0, <1>6, <1>14, BegunStays
  <2>4. QED
    BY <2>1, <2>2, <2>3
<1>9. ASSUME NEW q \in Req \ {r} PROVE Kept(q)
  <2>1. \A x \in Req : At(x, "pane")' =>
          (At(x, "pane") /\ job'[x].new = job[x].new) \/ row[job'[x].new] = "free"
    BY <1>1, <1>2, <1>4 DEF At, Sets
  <2>2. \A x \in Req : Launching(x)' =>
          (Launching(x) /\ job'[x].new = job[x].new) \/ row[job'[x].new] = "free"
    BY <1>1, <1>2, <1>4 DEF Launching, Sets
  <2>3. Starting(q) => \A x \in Req \ {q} : job'[x].conv # job[q].conv
    <3>1. Starting(q) => \A x \in Req \ {q} : job[x].conv # job[q].conv
      BY DEF IInv, JobInv, ClaimInv
    <3>2. QED
      BY <1>2, <1>4, <3>1 DEF Sets
  <2>4. \A i \in Id : row[i] = "standing" => row'[i] = "standing"
    BY <1>1, <1>5
  <2>5. QED
    BY <1>0, <1>6, <1>14, <2>1, <2>2, <2>3, <2>4 DEF Kept
<1>13. TodoInv(job[r].todo) /\ job'[r] = J
  BY <1>0, <1>4, TodoKnown DEF At, Sets
<1>10. OverInv(r)'
  <2>1. ASSUME NEW o \in Id, o = job[r].old
        PROVE  Over(o)' /\ row'[o] # "free" /\ (Locks(r) => conv'[o] = job[r].conv)
    BY <1>0, <1>2, <1>6, <1>8, <2>1, ClaimAssumption DEF OverInv, RowsKept, ClaimAssumption
  <2>2. \A i \in J.todo : Over(i)' /\ Begun(conv[i])'
    <3>1. ASSUME NEW i \in J.todo, NEW c, c = conv[i] PROVE Begun(c)'
      BY <1>2, <1>8, <1>13, <3>1 DEF TodoInv
    <3>2. \A i \in J.todo : conv'[i] = conv[i] /\ Over(i)'
      BY <1>0, <1>1, <1>2, <1>5, <1>8, <1>13 DEF TodoInv
    <3>3. QED
      BY <3>1, <3>2 DEF Begun, RowsOf
  <2>3. \A i \in J.doomed : Over(i)'
    BY <1>0, <1>2, <1>8 DEF OverInv
  <2>4. Locks(r)' = Locks(r)
    BY <1>2, <1>13 DEF Locks
  <2>5. QED
    BY <1>0, <1>2, <1>13, <2>1, <2>2, <2>3, <2>4 DEF OverInv, At, Over, Fell
<1>11. OpeningInv(r)'
  <2>1. ASSUME NEW q \in Req, q # r, Launching(q)' PROVE job'[q].new # n
    <3>1. job'[q] = job[q] /\ LockInv(q)
      BY <1>4, <2>1 DEF Sets, IInv, Base
    <3>2. QED
      BY <1>1, <2>1, <3>1 DEF LockInv, Launching
  <2>2. QED
    BY <1>0, <1>2, <1>4, <1>5, <2>1 DEF OpeningInv, Sets, At
<1>12. ClaimInv(r)'
  <2>0. PICK c \in Conv : c = job[r].conv
    BY <1>0
  <2>1. Clean(c)' => Live(c)' = {}
    <3>1. Clean(c)' => Live(c) = {}
      BY <1>0, <1>8, <2>0 DEF ClaimInv, At
    <3>2. \A i \in Id : pane'[i] = "up" /\ conv'[i] = c => i \in Live(c)
      BY <1>0, <1>5 DEF Live, Up, RowsOf
    <3>3. \A p \in Proc : proc'[p] = c => p \in Live(c)
      BY <1>0 DEF Live
    <3>4. Live(c)' \subseteq Live(c)
      BY <3>2, <3>3 DEF Live, Up, RowsOf
    <3>5. QED
      BY <3>1, <3>4
  <2>2. \A i \in J.todo : Clean(conv[i])' => \A p \in Proc : proc'[p] # conv'[i]
    <3>1. ASSUME NEW i \in J.todo, NEW d, d = conv[i], Clean(d)' PROVE \A p \in Proc : proc[p] # d
      BY <1>2, <1>8, <1>13, <3>1 DEF TodoInv
    <3>2. \A i \in J.todo : conv'[i] = conv[i]
      BY <1>0, <1>1, <1>2, <1>5
    <3>3. QED
      BY <1>0, <3>1, <3>2 DEF Clean
  <2>3. J.kind = "reopen" => (Clean(c)' => \A p \in Proc : proc'[p] # c)
    <3>1. Clean(c)' => Clean(c)
      BY <1>8
    <3>2. QED
      BY <1>0, <1>2, <2>0, <3>1, ClaimAssumption DEF ClaimInv, ClaimAssumption
  <2>4. J.kind = "start" =>
          /\ \A i \in Id : conv'[i] = J.conv => pane'[i] = "unborn"
          /\ J.conv \in Fresh /\ \A q \in Req : job'[q].conv = J.conv => q = r
    BY <1>0, <1>2, <1>4, <1>5 DEF ClaimInv, Starting, At, Sets, RowsOf
  <2>5. J.kind \in {"resume", "reopen", "start"}
    BY <1>0, <1>2 DEF ClaimInv, At
  <2>6. job'[r].conv = c /\ job'[r] = J /\ J.conv = c
    BY <1>2, <1>4, <2>0 DEF Sets
  <2>7. /\ Clean(job[r].conv)' => Live(job[r].conv)' = {}
        /\ J.kind = "reopen" => (Clean(job[r].conv)' => \A p \in Proc : proc'[p] # job'[r].conv)
    BY <2>1, <2>3, <2>6, Zenon DEF Live, RowsOf, Clean
  <2>8. QED
    BY <1>2, <2>2, <2>4, <2>5, <2>6, <2>7 DEF ClaimInv, At, Starting, RowsOf
<1>15. QED
  BY <1>7, <1>9, <1>10, <1>11, <1>12 DEF Good, JobInv

\* A session comes up: in its conversation nobody else was.
LEMMA PaneUpGood ==
  ASSUME IInv, NEW r \in Req, SpawnPane(r), pane' = [pane EXCEPT ![job[r].new] = "up"],
         early' = early \cup Missed(r), Goes(r, "settle")
  PROVE  Good(r)
<1>0. /\ TypeOK /\ LockInv(r) /\ OverInv(r) /\ ClaimInv(r) /\ OpeningInv(r) /\ job[r] \in Job
      /\ At(r, "pane") /\ Launching(r) /\ job[r].conv \in Conv /\ UNCHANGED <<row, conv, proc>>
      /\ job[r].doomed \subseteq Id /\ job[r].old \in Id \cup {None}
      /\ job[r].todo \subseteq Id
  BY JobFields DEF IInv, Base, JobInv, OverInv, SpawnPane, At, LockInv, Launching
<1>1. PICK n \in Id : n = job[r].new
  BY <1>0 DEF LockInv, At
<1>2. /\ row[n] # "free" /\ (row[n] = "standing" \/ n \in early)
      /\ conv[n] = job[r].conv /\ pane[n] = "unborn"
      /\ pane'[n] = "up" /\ \A i \in Id : i # n => pane'[i] = pane[i]
  BY <1>0, <1>1 DEF LockInv, OpeningInv, TypeOK, At
<1> DEFINE J == [job[r] EXCEPT !.at = "settle"]
<1>3. /\ J \in Job /\ J.at = "settle" /\ J.kind = job[r].kind /\ J.conv = job[r].conv
      /\ J.todo = job[r].todo /\ J.old = job[r].old /\ J.doomed = job[r].doomed /\ J.new = n
  BY <1>0, <1>1 DEF Job, Place
<1>4. job' = [job EXCEPT ![r] = J]
  BY DEF Goes
<1> HIDE DEF J
<1>5. Sets(r, J) /\ job'[r] = J
  BY <1>0, <1>3, <1>4, SetsJob DEF Sets
<1>6. RowsKept
  BY <1>0 DEF RowsKept
<1>15. Noted /\ WorldInv /\ HistoryType
  BY CallNotes DEF IInv, Serve, Base, TypeOK, HistoryType
<1>7. \A x \in Req : At(x, "pane")' => x # r /\ At(x, "pane") /\ job'[x].new = job[x].new
  BY <1>3, <1>5 DEF At, Sets
<1>16. \A q \in Req \ {r} : At(q, "read") /\ DirOf[conv[n]] = DirOf[job[q].conv] => n \in early'
  BY <1>1, <1>2 DEF Missed, Looking
<1>8. /\ \A i \in Id : Over(i) => Over(i)'
      /\ \A c : Clean(c)' => Clean(c)
      /\ \A c : Begun(c) => Begun(c)'
  <2>1. \A i \in Id : Over(i) => Over(i)'
    BY <1>2, <1>15, OverStays DEF Fell
  <2>2. \A c : Clean(c)' => Clean(c)
    BY <1>6, <1>15, CleanBefore
  <2>3. \A i \in Id : pane[i] # "unborn" => pane'[i] # "unborn"
    BY <1>2
  <2>4. \A c : Begun(c) => Begun(c)'
    BY <1>6, <1>15, <2>3, BegunStays
  <2>5. QED
    BY <2>1, <2>2, <2>4
<1>9. WorldInv'
  <2>1. \A i \in Id : row'[i] = "free" => pane'[i] = "unborn"
    BY <1>0, <1>2 DEF IInv, WorldInv
  <2>2. \A p \in Proc : proc'[p] \notin Fresh
    BY <1>0 DEF IInv, WorldInv
  <2>0. PICK d \in Conv : d = conv[n]
    BY <1>0, <1>2
  <2>3. ASSUME NEW c \in Conv, c # d PROVE Live(c)' = Live(c)
    BY <1>0, <1>2, <2>0, <2>3 DEF Live, Up, RowsOf
  <2>4. Clean(d)' => Live(d)' = {n}
    <3> SUFFICES ASSUME Clean(d)' PROVE Live(d)' = {n}
      OBVIOUS
    <3>0. Clean(d)
      BY <1>8
    <3>1. Live(d) = {}
      BY <1>0, <1>2, <2>0, <3>0 DEF ClaimInv, At
    <3>2. \A p \in Proc : proc[p] # d
      BY <3>1 DEF Live
    <3>3. \A i \in Id : conv[i] = d /\ pane[i] = "up" => FALSE
      BY <3>1 DEF Live, Up, RowsOf
    <3>4. QED
      BY <1>0, <1>2, <2>0, <3>2, <3>3 DEF Live, Up, RowsOf
  <2>5. ASSUME NEW c \in Conv, Clean(c)' PROVE \A x, y \in Live(c)' : x = y
    <3>1. Clean(c)
      BY <1>8, <2>5
    <3>2. QED
      BY <1>15, <2>3, <2>4, <2>5, <3>1 DEF WorldInv
  <2>6. LiveRowsStand'
    BY <1>0, <1>2, <1>15 DEF WorldInv, LiveRowsStand, Up, Standing, Noted
  <2>7. \A i \in early' : row'[i] # "free"
    BY <1>0, <1>15 DEF WorldInv, Noted
  <2>8. QED
    BY <2>1, <2>2, <2>5, <2>6, <2>7 DEF WorldInv
<1>10. ASSUME NEW q \in Req \ {r} PROVE Kept(q)
  <2>1. \A x \in Req : Launching(x)' => Launching(x) /\ job'[x].new = job[x].new
    BY <1>0, <1>1, <1>3, <1>5 DEF Launching, Sets
  <2>2. Starting(q) => \A x \in Req \ {q} : job'[x].conv # job[q].conv
    <3>1. Starting(q) => \A x \in Req \ {q} : job[x].conv # job[q].conv
      BY DEF IInv, JobInv, ClaimInv
    <3>2. QED
      BY <1>3, <1>5, <3>1 DEF Sets
  <2>3. \A i \in Id : pane'[i] = "up" => pane[i] = "up" \/ (At(r, "pane") /\ job[r].new = i)
    BY <1>0, <1>1, <1>2
  <2>4. At(q, "read") => \A i \in Id :
          pane'[i] = "up" /\ DirOf[conv[i]] = DirOf[job[q].conv] => pane[i] = "up" \/ i \in early'
    BY <1>2, <1>16
  <2>5. QED
    BY <1>0, <1>2, <1>6, <1>7, <1>15, <2>1, <2>2, <2>3, <2>4 DEF Kept
<1>17. TodoInv(J.todo)
  BY <1>0, <1>3, TodoKnown DEF At
<1>18. \A i \in J.todo : conv[i] \in Conv
  BY <1>0, <1>3 DEF LockInv, IInv, Base, RowInv
<1>11. OverInv(r)'
  <2>1. ASSUME NEW o \in Id, o = job[r].old
        PROVE  Over(o)' /\ row'[o] # "free" /\ (Locks(r) => conv'[o] = job[r].conv)
    BY <1>0, <1>3, <1>8, <2>1, ClaimAssumption DEF OverInv, ClaimAssumption
  <2>2. \A i \in J.todo : Over(i)' /\ Begun(conv[i])'
    <3>1. ASSUME NEW i \in J.todo, NEW c, c = conv[i] PROVE Begun(c)'
      BY <1>8, <1>17, <3>1 DEF TodoInv
    <3>2. \A i \in J.todo : Over(i)'
      BY <1>0, <1>3, <1>8, <1>17 DEF TodoInv
    <3>3. QED
      BY <1>0, <3>1, <3>2 DEF Begun, RowsOf
  <2>3. \A i \in J.doomed : Over(i)'
    BY <1>0, <1>3, <1>8 DEF OverInv
  <2>4. Locks(r)' = Locks(r)
    BY <1>3, <1>5 DEF Locks
  <2>5. QED
    BY <1>0, <1>3, <1>5, <2>1, <2>2, <2>3, <2>4 DEF OverInv, At, Over, Fell
<1>12. OpeningInv(r)'
  <2>1. \A q \in Req : Launching(q)' => Launching(q) /\ job'[q].new = job[q].new
    BY <1>0, <1>1, <1>3, <1>5 DEF Launching, Sets
  <2>2. QED
    BY <1>0, <1>1, <1>2, <1>3, <1>5, <2>1 DEF OpeningInv, Sets, At
<1>13. ClaimInv(r)'
  <2>0. PICK c \in Conv : c = job[r].conv
    BY <1>0
  <2>1. \A i \in J.todo : Clean(conv[i])' => \A p \in Proc : proc'[p] # conv'[i]
    <3>1. ASSUME NEW i \in J.todo, NEW d, d = conv[i], Clean(d)' PROVE \A p \in Proc : proc[p] # d
      BY <1>8, <1>17, <3>1 DEF TodoInv
    <3>2. QED
      BY <1>0, <3>1 DEF Clean
  <2>2. J.kind = "reopen" => (Clean(c)' => \A p \in Proc : proc'[p] # c)
    <3>1. Clean(c)' => Clean(c)
      BY <1>8
    <3>2. QED
      BY <1>0, <1>3, <2>0, <3>1, ClaimAssumption DEF ClaimInv, ClaimAssumption
  <2>3. job'[r].conv = c
    BY <1>3, <1>5, <2>0
  <2>4. J.kind = "reopen" => (Clean(job[r].conv)' => \A p \in Proc : proc'[p] # job'[r].conv)
    BY <2>2, <2>3, Zenon DEF Clean
  <2>5. QED
    BY <1>3, <1>5, <2>1, <2>4 DEF ClaimInv, Sets, At, Starting
<1>14. QED
  BY <1>9, <1>10, <1>11, <1>12, <1>13 DEF Good, JobInv

\* A session is launched, or the launch fails.
LEMMA LaunchGood ==
  ASSUME IInv, NEW r \in Req,
         Refuse(r) \/ AddRow(r) \/ SpawnPane(r) \/ Settle(r) \/ Abandon(r)
  PROVE  Good(r)
<1>0. /\ TypeOK /\ LockInv(r) /\ OverInv(r) /\ OpeningInv(r) /\ job[r] \in Job
      /\ Locks(r) => Inside(r) /\ job[r].conv \in Conv
      /\ job[r].at \in {"gate", "pane", "settle", "abandon"}
      /\ job[r].doomed \subseteq Id /\ \A i \in job[r].doomed : Over(i)
  BY JobFields DEF IInv, Base, JobInv, OverInv, Refuse, AddRow, SpawnPane, Settle, Abandon, At,
     LockInv, Locked
<1>8. Noted
  BY CallNotes DEF IInv, Serve
<1>1. CASE Refuse(r)
  BY <1>0, <1>1, <1>8, FinishGood DEF Refuse
<1>2. CASE AddRow(r)
  BY <1>2, AddRowGood
<1>3. CASE /\ SpawnPane(r) /\ pane' = [pane EXCEPT ![job[r].new] = "up"]
           /\ early' = early \cup Missed(r) /\ Goes(r, "settle")
  BY <1>3, PaneUpGood
<1>4. CASE \/ SpawnPane(r) /\ UNCHANGED pane /\ Goes(r, "abandon")
           \/ Settle(r) /\ UNCHANGED pane /\ Goes(r, "list")
  <2>1. PICK place \in {"abandon", "list"} : Goes(r, place) /\ (place = "abandon" => SpawnPane(r))
    BY <1>4
  <2> DEFINE J == [job[r] EXCEPT !.at = place]
  <2>2. /\ J \in Job /\ J.at = place /\ J.kind = job[r].kind /\ J.conv = job[r].conv
        /\ J.todo = job[r].todo /\ J.old = job[r].old /\ J.doomed = job[r].doomed
        /\ J.new = job[r].new
    BY <1>0 DEF Job, Place
  <2>3. job' = [job EXCEPT ![r] = J]
    BY <2>1 DEF Goes
  <2>4. UNCHANGED <<row, conv, pane, proc>>
    BY <1>4 DEF SpawnPane, Settle
  <2>5. J.at = "abandon" => Launching(r) /\ pane[J.new] # "up"
    BY <1>0, <2>1, <2>2 DEF Launching, OpeningInv, At, SpawnPane
  <2>6. \A i \in job[r].doomed : i \in Id /\ Over(i)'
    BY <1>0, <1>8, <2>4, OverStays DEF Fell
  <2> HIDE DEF J
  <2>7. QED
    BY <1>0, <1>8, <2>2, <2>3, <2>4, <2>5, <2>6, GoesGood
<1>5. CASE Settle(r) /\ pane[job[r].new] = "dead" /\ Goes(r, "abandon")
           /\ pane' = [pane EXCEPT ![job[r].new] = "gone"]
  <2> DEFINE J == [job[r] EXCEPT !.at = "abandon"]
  <2>1. /\ J \in Job /\ J.at = "abandon" /\ J.kind = job[r].kind /\ J.conv = job[r].conv
        /\ J.todo = job[r].todo /\ J.old = job[r].old /\ J.doomed = job[r].doomed
        /\ J.new = job[r].new
    BY <1>0 DEF Job, Place
  <2>2. job' = [job EXCEPT ![r] = J] /\ UNCHANGED <<row, conv, proc>>
    BY <1>5 DEF Goes, Settle
  <2>3. job[r].new \in Id /\ Launching(r)
    BY <1>0, <1>5 DEF LockInv, Settle, At, Launching
  <2> HIDE DEF J
  <2>4. Sets(r, J)
    BY <1>0, <2>1, <2>2, SetsJob
  <2>5. RowsKept /\ WorldType'
    BY <1>0, <1>5, <2>2, <2>3 DEF RowsKept, WorldType, TypeOK
  <2>6. \A q \in Req \ {r} : Starting(q) => J.conv # job[q].conv
    BY <2>1 DEF IInv, JobInv, ClaimInv
  <2>7. Calm(r, J)
    BY <1>0, <1>5, <1>8, <2>1, <2>2, <2>3, <2>4, <2>5, <2>6 DEF Calm, TypeOK
  <2>8. \A i \in Id : Over(i) => Over(i)'
    BY <2>7, CalmStep
  <2>9. \A i \in J.doomed : Over(i)'
    BY <1>0, <2>1, <2>8
  <2>10. pane'[J.new] # "up"
    BY <1>0, <1>5, <2>1, <2>3 DEF TypeOK
  <2>11. JobInv(r)'
    BY <1>0, <2>1, <2>7, <2>9, <2>10, GoesKeeps
  <2>12. QED
    BY <2>7, <2>11, CalmStep DEF Good
<1>6. CASE Abandon(r)
  <2>1. job[r].new \in Id /\ At(r, "abandon")
    BY <1>0, <1>6 DEF LockInv, Abandon, At
  <2>2. row' = [row EXCEPT ![job[r].new] = "removed"] /\ UNCHANGED <<conv, pane, proc>> /\ Finish(r)
    BY <1>6 DEF Abandon
  <2>3. RowsKept /\ WorldType'
    BY <1>6, CallSteps DEF IInv, CallStep, Serve
  <2>4. \A j \in Id : j # job[r].new => row'[j] = row[j]
    BY <1>0, <2>1, <2>2 DEF TypeOK
  <2>5. QED
    BY <1>0, <1>8, <2>1, <2>2, <2>3, <2>4, FinishMarks
<1>9. CASE SpawnPane(r)
  <2>1. \/ /\ pane' = [pane EXCEPT ![job[r].new] = "up"]
           /\ early' = early \cup Missed(r) /\ Goes(r, "settle")
        \/ UNCHANGED pane /\ Goes(r, "abandon")
    BY <1>9, Zenon DEF SpawnPane
  <2>2. QED
    BY <1>3, <1>4, <1>9, <2>1
<1>7. QED
  BY <1>1, <1>2, <1>4, <1>5, <1>6, <1>9 DEF Settle

\* What is retired are rows of sessions that are over.
LEMMA RetireGood ==
  ASSUME IInv, NEW r \in Req,
         \/ ListPanes(r) \/ ReadRows(r) \/ RetireOne(r) \/ Retired(r) \/ Supersede(r)
         \/ Retire(r)
  PROVE  Good(r)
<1>0. /\ TypeOK /\ LockInv(r) /\ OverInv(r) /\ job[r] \in Job
      /\ Locks(r) => Inside(r) /\ job[r].conv \in Conv
      /\ job[r].at \in {"list", "read", "patch", "supersede", "retire"}
      /\ UNCHANGED <<conv, pane, proc>>
      /\ job[r].doomed \subseteq Id /\ \A i \in job[r].doomed : Over(i)
      /\ job[r].old \in Id \cup {None} /\ (job[r].old # None => Over(job[r].old))
  BY JobFields DEF IInv, Base, JobInv, OverInv, ListPanes, ReadRows, RetireOne, Retired,
     Supersede, Retire, At, LockInv, Locked, Locks
<1>1. RowsKept /\ WorldType'
  BY CallSteps DEF IInv, CallStep, Serve
<1>9. Noted /\ HistoryType
  BY CallNotes DEF IInv, Serve, Base, TypeOK, HistoryType
<1>10. \A i \in Id : Over(i) => Over(i)'
  BY <1>0, <1>9, OverStays DEF Fell
<1>11. \A i \in job[r].doomed : i \in Id /\ Over(i)'
  BY <1>0, <1>10
<1>2. CASE ListPanes(r)
  <2>1. UNCHANGED row
    BY <1>2 DEF ListPanes
  <2>2. CASE job' = [job EXCEPT ![r] = [job[r] EXCEPT !.at = "read", !.ids = Listed]]
    <3> DEFINE J == [job[r] EXCEPT !.at = "read", !.ids = Listed]
    <3>1. /\ J \in Job /\ J.at = "read" /\ J.kind = job[r].kind /\ J.conv = job[r].conv
          /\ J.todo = job[r].todo /\ J.old = job[r].old /\ J.doomed = job[r].doomed
          /\ J.ids = Listed
      BY <1>0 DEF Job, Place, Listed
    <3>2. job' = [job EXCEPT ![r] = J]
      BY <2>2
    <3>3. Up \subseteq Listed
      BY DEF Up, Listed
    <3> HIDE DEF J
    <3>4. QED
      BY <1>0, <1>9, <1>11, <2>1, <3>1, <3>2, <3>3, GoesGood
  <2>3. CASE job' = [job EXCEPT ![r] = [job[r] EXCEPT !.at = "patch", !.doomed = {}]]
    <3> DEFINE J == [job[r] EXCEPT !.at = "patch", !.doomed = {}]
    <3>1. /\ J \in Job /\ J.at = "patch" /\ J.kind = job[r].kind /\ J.conv = job[r].conv
          /\ J.todo = job[r].todo /\ J.old = job[r].old /\ J.doomed = {}
      BY <1>0 DEF Job, Place
    <3>2. job' = [job EXCEPT ![r] = J]
      BY <2>3
    <3> HIDE DEF J
    <3>3. QED
      BY <1>0, <1>9, <1>11, <2>1, <3>1, <3>2, GoesGood
  <2>4. QED
    BY <1>2, <2>2, <2>3 DEF ListPanes
<1>3. CASE ReadRows(r)
  <2>2. PICK D \in SUBSET Id : D = Fallen(r)
    BY DEF Fallen, Standing
  <2>1. ASSUME NEW i \in D PROVE i \in Id /\ Over(i)'
    <3>1. i \in Id \ (job[r].ids \cup {job[r].new}) /\ DirOf[conv[i]] = DirOf[job[r].conv]
      BY <2>1, <2>2 DEF Fallen, Standing
    <3>2. pane[i] = "up" => i \in early
      BY <1>0, <1>3, <3>1 DEF OverInv, ReadRows, Up
    <3>3. pane[i] = "unborn" => i \in early'
      BY <1>3, <2>1, <2>2, <3>1 DEF ReadRows, Unborn
    <3>4. pane[i] \in {"unborn", "up", "dead", "gone"}
      BY <1>0, <3>1 DEF TypeOK
    <3>5. QED
      BY <1>0, <1>9, <3>1, <3>2, <3>3, <3>4 DEF Over, Fell, Noted
  <2> DEFINE J == [job[r] EXCEPT !.at = "patch", !.doomed = D, !.ids = {}]
  <2>3. /\ J \in Job /\ J.at = "patch" /\ J.kind = job[r].kind /\ J.conv = job[r].conv
        /\ J.todo = job[r].todo /\ J.old = job[r].old /\ J.doomed = D
    BY <1>0 DEF Job, Place
  <2>4. job' = [job EXCEPT ![r] = J] /\ UNCHANGED row
    BY <1>3, <2>2 DEF ReadRows
  <2> HIDE DEF J
  <2>5. QED
    BY <1>0, <1>9, <2>1, <2>3, <2>4, GoesGood
<1>4. CASE RetireOne(r)
  <2>1. PICK i \in job[r].doomed : i = Least(job[r].doomed)
    BY <1>0, <1>4, LeastIn DEF RetireOne
  <2>2. PICK J : J = [job[r] EXCEPT !.doomed = job[r].doomed \ {i}]
    OBVIOUS
  <2>3. /\ J \in Job /\ J.at = "patch" /\ J.kind = job[r].kind /\ J.conv = job[r].conv
        /\ J.todo = job[r].todo /\ J.old = job[r].old /\ J.doomed \subseteq job[r].doomed
    BY <1>0, <1>4, <2>2 DEF Job, Place, RetireOne, At
  <2>4. job' = [job EXCEPT ![r] = J]
    BY <1>4, <2>1, <2>2 DEF RetireOne
  <2>5. row' = [row EXCEPT ![i] = IF row[i] = "standing" THEN "ended" ELSE row[i]]
    BY <1>4, <2>1 DEF RetireOne
  <2>6. Sets(r, J)
    BY <1>0, <2>3, <2>4, SetsJob
  <2>7. \A j \in Id : j # i => row'[j] = row[j]
    BY <1>0, <2>1, <2>5 DEF TypeOK
  <2>8. Calm(r, J)
    BY <1>0, <1>1, <1>9, <2>1, <2>3, <2>6, <2>7, MarkCalm
  <2>9. \A k \in J.doomed : Over(k)'
    BY <1>11, <2>3
  <2>10. JobInv(r)'
    BY <1>0, <2>3, <2>8, <2>9, GoesKeeps
  <2>11. QED
    BY <2>8, <2>10, CalmStep DEF Good
<1>5. CASE Retired(r)
  <2>1. CASE Finish(r)
    BY <1>0, <1>5, <1>9, <2>1, FinishGood DEF Retired
  <2>2. CASE Goes(r, "supersede")
    <3> DEFINE J == [job[r] EXCEPT !.at = "supersede"]
    <3>1. /\ J \in Job /\ J.at = "supersede" /\ J.kind = job[r].kind /\ J.conv = job[r].conv
          /\ J.todo = job[r].todo /\ J.old = job[r].old /\ J.doomed = job[r].doomed
      BY <1>0 DEF Job, Place
    <3>2. job' = [job EXCEPT ![r] = J] /\ UNCHANGED row
      BY <1>5, <2>2 DEF Goes, Retired
    <3> HIDE DEF J
    <3>3. QED
      BY <1>0, <1>9, <1>11, <3>1, <3>2, GoesGood
  <2>3. QED
    BY <1>5, <2>1, <2>2 DEF Retired
<1>6. CASE Supersede(r)
  <2>1. CASE row' = row
    <3>1. CASE Finish(r)
      BY <1>0, <1>9, <2>1, <3>1, FinishGood
    <3>2. CASE job[r].kind = "resume"
      <4> DEFINE J == [job[r] EXCEPT !.at = "list", !.last = TRUE]
      <4>1. /\ J \in Job /\ J.at = "list" /\ J.kind = job[r].kind /\ J.conv = job[r].conv
            /\ J.todo = job[r].todo /\ J.old = job[r].old /\ J.doomed = job[r].doomed
        BY <1>0 DEF Job, Place
      <4>2. job' = [job EXCEPT ![r] = J]
        BY <1>6, <3>2 DEF Supersede
      <4> HIDE DEF J
      <4>3. QED
        BY <1>0, <1>9, <1>11, <2>1, <4>1, <4>2, GoesGood
    <3>3. QED
      BY <1>6, <3>1, <3>2 DEF Supersede
  <2>2. CASE row' # row
    <3>1. PICK i \in Id : i = job[r].old /\ row' = [row EXCEPT ![i] = "ended"]
      BY <1>0, <1>6, <2>2 DEF Supersede
    <3>2. \A j \in Id : j # i => row'[j] = row[j]
      BY <1>0, <3>1 DEF TypeOK
    <3>3. Over(i)
      BY <1>0, <3>1, ClaimAssumption DEF ClaimAssumption
    <3>4. CASE Finish(r)
      BY <1>0, <1>1, <1>9, <3>2, <3>3, <3>4, FinishMarks
    <3>5. CASE job[r].kind = "resume"
      <4>1. PICK J : J = [job[r] EXCEPT !.at = "list", !.last = TRUE]
        OBVIOUS
      <4>2. /\ J \in Job /\ J.at = "list" /\ J.kind = job[r].kind /\ J.conv = job[r].conv
            /\ J.todo = job[r].todo /\ J.old = job[r].old /\ J.doomed = job[r].doomed
        BY <1>0, <4>1 DEF Job, Place
      <4>3. job' = [job EXCEPT ![r] = J]
        BY <1>6, <3>5, <4>1 DEF Supersede
      <4>4. Sets(r, J)
        BY <1>0, <4>2, <4>3, SetsJob
      <4>5. Calm(r, J)
        BY <1>0, <1>1, <1>9, <3>2, <3>3, <4>2, <4>4, MarkCalm
      <4>6. \A k \in J.doomed : Over(k)'
        BY <1>11, <4>2
      <4>7. JobInv(r)'
        BY <1>0, <4>2, <4>5, <4>6, GoesKeeps
      <4>8. QED
        BY <4>5, <4>7, CalmStep DEF Good
    <3>6. QED
      BY <1>6, <3>4, <3>5 DEF Supersede
  <2>3. QED
    BY <2>1, <2>2
<1>7. CASE Retire(r)
  <2>1. PICK i \in Id : i = job[r].old
    BY <1>0, <1>7 DEF Retire, LockInv, At
  <2>2. row' = [row EXCEPT ![i] = IF row[i] = "standing" THEN "ended" ELSE row[i]]
    BY <1>7, <2>1 DEF Retire
  <2>3. \A j \in Id : j # i => row'[j] = row[j]
    BY <1>0, <2>2 DEF TypeOK
  <2>4. Over(i)
    BY <1>0, <2>1, ClaimAssumption DEF ClaimAssumption
  <2>5. Finish(r)
    BY <1>7 DEF Retire
  <2>6. QED
    BY <1>0, <1>1, <1>9, <2>3, <2>4, <2>5, FinishMarks
<1>8. QED
  BY <1>2, <1>3, <1>4, <1>5, <1>6, <1>7

\* What ends by itself undoes nothing that a call knows.
LEMMA EndsKeep ==
  ASSUME IInv, UNCHANGED <<row, conv, job>>, UNCHANGED history, WorldType',
         \A i \in Id : pane'[i] = pane[i] \/ (pane[i] = "up" /\ pane'[i] \in {"dead", "gone"}),
         \A p \in Proc : proc'[p] \in {proc[p], None}
  PROVE  WorldInv' /\ \A q \in Req : JobInv(q)'
<1>1. RowsKept /\ Noted
  BY DEF RowsKept, Noted, history, IInv, Base, TypeOK, HistoryType
<1>2. WorldInv'
  BY <1>1, WorldKept
<1>3. ASSUME NEW q \in Req PROVE Kept(q)
  <2>1. Starting(q) => \A r \in Req \ {q} : job'[r].conv # job[q].conv
    BY DEF IInv, JobInv, ClaimInv
  <2>2. QED
    BY <1>1, <2>1 DEF Kept, At, Launching
<1>4. QED
  BY <1>2, <1>3, OthersKept

\* Sessions and processes that end, and a restart, bring nobody up.
LEMMA MachineGood ==
  ASSUME IInv, Machine
  PROVE  WorldInv' /\ \A q \in Req : JobInv(q)'
<1>0. TypeOK /\ job \in [Req -> Job] /\ WorldType
  BY JobFields DEF IInv, Base, TypeOK, WorldType, Job, Place
<1>1. WorldType' /\ UNCHANGED history
  BY MachineStep, MachineNotes DEF IInv, TypeOK, WorldType
<1>2. CASE \E i \in Id : Fall(i) \/ PaneEnds(i)
  <2>1. /\ UNCHANGED <<row, conv, job, proc>>
        /\ \A i \in Id : pane'[i] = pane[i] \/ (pane[i] = "up" /\ pane'[i] \in {"dead", "gone"})
    BY <1>0, <1>2 DEF Fall, PaneEnds, WorldType
  <2>2. QED
    BY <1>1, <2>1, EndsKeep
<1>3. CASE \E p \in Proc : ProcessEnds(p)
  <2>1. /\ UNCHANGED <<row, conv, job, pane>>
        /\ \A p \in Proc : proc'[p] \in {proc[p], None}
    BY <1>0, <1>3 DEF ProcessEnds, WorldType
  <2>2. QED
    BY <1>1, <2>1, EndsKeep
<1>4. CASE Restart
  <2>1. UNCHANGED <<row, conv, pane, proc>>
    BY <1>4 DEF Restart
  <2>2. RowsKept /\ Noted
    BY <1>1, <2>1 DEF RowsKept, Noted, history, IInv, Base, TypeOK, HistoryType
  <2>3. WorldInv'
    BY <1>1, <2>1, <2>2, WorldKept
  <2>4. ASSUME NEW q \in Req
        PROVE  \/ job'[q] = job[q] /\ job[q].at \in {"idle", "done"}
               \/ /\ job'[q].at = "lost" /\ job'[q].kind = None /\ job'[q].conv = None
                  /\ job'[q].old = None /\ job'[q].todo = {} /\ job'[q].doomed = {}
    BY <1>4 DEF Restart, Idle, At
  <2>5. \A q \in Req : ~At(q, "pane")' /\ ~Launching(q)'
    BY <2>4 DEF At, Launching
  <2>6. early' = early /\ misread' = misread
    BY <1>1 DEF history
  <2>7. ASSUME NEW q \in Req PROVE JobInv(q)'
    <3>1. CASE job'[q] = job[q] /\ job[q].at \in {"idle", "done"}
      <4>1. /\ OverInv(q) /\ ClaimInv(q) /\ job[q].doomed \subseteq Id
        BY <1>0, JobFields DEF IInv, JobInv
      <4>2. OverInv(q)'
        BY <2>1, <2>6, <3>1, <4>1 DEF OverInv, Over, Fell, At, Locks, Begun, RowsOf
      <4>3. OpeningInv(q)'
        BY <3>1, <2>5 DEF OpeningInv, At, Launching
      <4>4. ClaimInv(q)'
        BY <2>1, <2>6, <3>1, <4>1 DEF ClaimInv, At, Starting, Clean
      <4>5. QED
        BY <4>2, <4>3, <4>4 DEF JobInv
    <3>2. CASE /\ job'[q].at = "lost" /\ job'[q].kind = None /\ job'[q].conv = None
               /\ job'[q].old = None /\ job'[q].todo = {} /\ job'[q].doomed = {}
      BY <3>2 DEF JobInv, OverInv, OpeningInv, ClaimInv, At, Launching, Starting
    <3>3. QED
      BY <2>4, <3>1, <3>2
  <2>8. QED
    BY <2>3, <2>7
<1>5. QED
  BY <1>2, <1>3, <1>4 DEF Machine

-----------------------------------------------------------------------------
(* One assistant in a conversation.                                        *)

\* The invariant holds at the start: rows of fallen sessions, and processes
\* that share no conversation.
LEMMA IInvInit == Init => IInv
<1> SUFFICES ASSUME Init PROVE IInv
  OBVIOUS
<1>1. Base
  BY BaseInit
<1>2. /\ \A i \in Id : pane[i] # "up" /\ (row[i] = "free" => pane[i] = "unborn")
      /\ \A r \in Req : job[r] = Idle
      /\ proc \in [Proc -> (Conv \ Fresh) \cup {None}]
      /\ early = {}
      /\ \A p, q \in Proc : p # q /\ proc[p] # None => proc[p] # proc[q]
  BY DEF Init
<1>3. WorldInv
  <2>1. \A c \in Conv : Live(c) = {p \in Proc : proc[p] = c}
    BY <1>2 DEF Live, Up
  <2>2. \A c \in Conv : Clean(c) => \A x, y \in Live(c) : x = y
    BY <1>2, <2>1, ClaimAssumption DEF ClaimAssumption
  <2>3. \A p \in Proc : proc[p] \notin Fresh
    BY <1>2, ClaimAssumption DEF ClaimAssumption
  <2>4. LiveRowsStand
    BY <1>2 DEF LiveRowsStand, Up
  <2>5. QED
    BY <1>2, <2>2, <2>3, <2>4 DEF WorldInv
<1>4. \A r \in Req : JobInv(r)
  BY <1>2 DEF JobInv, OverInv, OpeningInv, ClaimInv, Idle, At, Launching, Starting
<1>5. QED
  BY <1>1, <1>3, <1>4 DEF IInv

\* Every step keeps the invariant.
LEMMA IInvStep == IInv /\ [Next]_vars => IInv'
<1> SUFFICES ASSUME IInv, [Next]_vars PROVE IInv'
  OBVIOUS
<1>1. Base'
  BY BaseStep DEF IInv
<1>2. ASSUME NEW r \in Req, Ask(r) \/ Serve(r) PROVE IInv'
  <2>1. Good(r)
    BY <1>2, AskGood, ResumeGood, ReopenGood, LaunchGood, RetireGood DEF Serve
  <2>2. \A q \in Req \ {r} : job'[q] = job[q]
    BY <1>2, CallSteps DEF IInv, CallStep, Sets
  <2>3. \A q \in Req \ {r} : JobInv(q)'
    BY <2>1, <2>2, OthersKept DEF Good
  <2>4. QED
    BY <1>1, <2>1, <2>3 DEF IInv, Good
<1>3. CASE Machine
  BY <1>1, <1>3, MachineGood DEF IInv
<1>4. CASE UNCHANGED vars
  <2>1. WorldType'
    BY <1>4 DEF vars, IInv, Base, TypeOK, WorldType
  <2>2. /\ UNCHANGED <<row, conv, job>> /\ pane' = pane /\ proc' = proc /\ UNCHANGED history
    BY <1>4 DEF vars
  <2>3. QED
    BY <1>1, <2>1, <2>2, EndsKeep DEF IInv
<1>5. QED
  BY <1>2, <1>3, <1>4 DEF Next

\* The invariant always holds.
LEMMA IInvHolds == Spec => []IInv
BY IInvInit, IInvStep, PTL DEF Spec

\* At most one element in all, in two sets that share none, is at most one.
LEMMA AtMostOne ==
  ASSUME NEW A, NEW B, A \cap B = {}, \A x, y \in A \cup B : x = y
  PROVE  Cardinality(A) + Cardinality(B) <= 1
<1>1. CASE A \cup B = {}
  <2>1. A = {} /\ B = {}
    BY <1>1
  <2>2. QED
    BY <2>1, FS_EmptySet
<1>2. CASE \E x \in A : TRUE
  <2>1. PICK x : x \in A
    BY <1>2
  <2>2. A = {x} /\ B = {}
    BY <2>1
  <2>3. QED
    BY <2>2, FS_EmptySet, FS_Singleton
<1>3. CASE \E x \in B : TRUE
  <2>1. PICK x : x \in B
    BY <1>3
  <2>2. B = {x} /\ A = {}
    BY <2>1
  <2>3. QED
    BY <2>2, FS_EmptySet, FS_Singleton
<1>4. QED
  BY <1>1, <1>2, <1>3

\* For any number of calls, rows, processes, mishaps and restarts: a conversation
\* has two assistants only if a call took a row of it for fallen or for over whose
\* pane was about to come (cli-start.ts writes the row before the pane), or if a
\* read that failed showed it free while somebody held it. The lock of the
\* conversation and the second look take care of everything else.
THEOREM OneAssistantEach == Spec => []OneAssistant
<1>1. IInv => OneAssistant
  <2> SUFFICES ASSUME IInv, NEW c \in Conv, c \notin misread, c \notin {conv[i] : i \in early}
               PROVE  Cardinality(Up \cap RowsOf(c)) + Cardinality({p \in Proc : proc[p] = c}) <= 1
    BY DEF OneAssistant
  <2>1. (Up \cap RowsOf(c)) \cap {p \in Proc : proc[p] = c} = {}
    BY ClaimAssumption DEF ClaimAssumption, Up
  <2>2. Clean(c)
    BY DEF Clean
  <2>3. \A x, y \in Live(c) : x = y
    BY <2>2 DEF IInv, WorldInv
  <2>4. QED
    BY <2>1, <2>3, AtMostOne DEF Live
<1>2. QED
  BY <1>1, IInvHolds, PTL

\* A session that runs has a row that stands, unless a call took that row for
\* fallen or for over before its pane came: nothing else that retires fallen
\* rows, and no reopen that takes the place of another row, takes that of a
\* session that lives.
THEOREM LiveSessionsStand == Spec => []LiveRowsStand
<1>1. IInv => LiveRowsStand
  BY DEF IInv, WorldInv
<1>2. QED
  BY <1>1, IInvHolds, PTL
=============================================================================
