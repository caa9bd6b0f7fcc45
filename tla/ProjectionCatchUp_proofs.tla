----------------------- MODULE ProjectionCatchUp_proofs -----------------------
(***************************************************************************)
(* Proofs about ProjectionCatchUp, for every journal, number of            *)
(* projections, page size, page budget and build, and every replacement,   *)
(* crash and failed read: the rows of a projection are the fold of the     *)
(* journal up to its cursor, when one process at a time runs a pass.       *)
(***************************************************************************)
EXTENDS ProjectionCatchUp, TLAPS

USE DEF Projection

\* The type of a meta row and of an idle pass.
LEMMA InitialTypes ==
  /\ Unknown \in MetaType
  /\ NoMetas \in [Projection -> MetaType]
  /\ Idle \in PassType
  BY CatchUpAssumption DEF Unknown, NoMetas, Idle, MetaType, PassType, NullHead

\* A step that moves one pass keeps the type of all.
LEMMA GotoType ==
  ASSUME TypeOK, NEW a \in Pass, NEW rec \in PassType, Goto(a, rec)
  PROVE  pass' \in [Pass -> PassType]
  BY DEF TypeOK, Goto

\* Every end of a pass leaves it idle or at the start of one more.
LEMMA FinishType ==
  ASSUME TypeOK, NEW a \in Pass, Finish(a)
  PROVE  pass' \in [Pass -> PassType] /\ dirty' \in [Pass -> BOOLEAN]
  <1>1. Idle \in PassType /\ [Idle EXCEPT !.pc = "head"] \in PassType
    BY InitialTypes DEF PassType, Idle
  <1>2. pass' \in [Pass -> PassType]
    BY <1>1, GotoType DEF Finish
  <1> QED
    BY <1>2 DEF TypeOK, Finish

\* What a pass and a stored meta row hold.
LEMMA Fields ==
  ASSUME TypeOK, NEW a \in Pass
  PROVE  /\ pass[a] \in PassType
         /\ pass[a].metas \in [Projection -> MetaType]
         /\ pass[a].next \in 1..(NumProj + 1)
         /\ pass[a].cursor \in Nat /\ pass[a].upTo \in Nat /\ pass[a].pages \in Nat
         /\ Len(log) \in Nat /\ DOMAIN log = 1..Len(log)
  <1>1. pass[a] \in PassType /\ log \in Seq(Event)
    BY DEF TypeOK
  <1> QED
    BY <1>1 DEF PassType

\* The parts of a projection's meta row, and what changes to them leave.
LEMMA MetaFields ==
  ASSUME NEW m \in MetaType
  PROVE  /\ m.known \in BOOLEAN /\ m.version \in Nat /\ m.adapters \in Nat
         /\ m.cursor \in Nat /\ m.rebuilding \in BOOLEAN
         /\ \A c \in Nat : /\ [m EXCEPT !.cursor = c] \in MetaType
                           /\ [m EXCEPT !.cursor = c].cursor = c
                           /\ [m EXCEPT !.cursor = c].version = m.version
         /\ [m EXCEPT !.rebuilding = FALSE] \in MetaType
         /\ [m EXCEPT !.rebuilding = FALSE].cursor = m.cursor
         /\ [m EXCEPT !.rebuilding = FALSE].version = m.version
  BY DEF MetaType

\* A projection that is reset has a meta row.
LEMMA ResetType ==
  ASSUME NEW b \in Build, NEW d \in Projection
  PROVE  ResetMeta(b, d) \in MetaType
  <1>1. Version[b][d] \in Nat /\ Adapters[b] \in Nat
    BY CatchUpAssumption
  <1> QED
    BY <1>1 DEF ResetMeta, MetaType

\* Where a plan starts a projection.
LEMMA PlanFromType ==
  ASSUME TypeOK, NEW a \in Pass, NEW d \in Projection
  PROVE  PlanFrom(a, d) \in Nat
  <1>1. pass[a].metas[d] \in MetaType
    BY Fields
  <1> QED
    BY <1>1, MetaFields DEF PlanFrom

\* A page being folded lies within the journal: the file is replaced only
\* while no pass runs, and otherwise it only grows.
PageInLog == \A a \in Pass : At(a, "fold") => pass[a].upTo <= Len(log)

\* The events of a page.
LEMMA PageEventsType ==
  ASSUME TypeOK, NEW a \in Pass, pass[a].upTo <= Len(log)
  PROVE  PageEvents(a) \subseteq Event
  <1>1. log \in Seq(Event) /\ pass[a].upTo \in Nat /\ pass[a].cursor \in Nat
    BY Fields DEF TypeOK
  <1>2. ASSUME NEW i \in (pass[a].cursor + 1)..pass[a].upTo PROVE log[i] \in Event
    <2>1. i \in 1..Len(log)
      BY <1>1
    <2> QED
      BY <1>1, <2>1
  <1> QED
    BY <1>2 DEF PageEvents

\* One step preserves the types.
LEMMA TypeStep == TypeOK /\ PageInLog /\ [Next]_vars => TypeOK'
  <2> SUFFICES ASSUME TypeOK, PageInLog, [Next]_vars PROVE TypeOK'
    OBVIOUS
  <2> USE CatchUpAssumption
  <2>1. CASE UNCHANGED vars
    BY <2>1 DEF TypeOK, vars
  <2>2. ASSUME NEW e \in Event, Grow(e) PROVE TypeOK'
    BY <2>2 DEF TypeOK, Grow, Journal!Commit, store
  <2>3. ASSUME NEW n \in 0..MaxLog, Replace(n) PROVE TypeOK'
    <3>1. SubSeq(log, 1, n) \in Seq(Event)
      BY <2>3 DEF TypeOK, Replace
    <3>2. UNCHANGED <<meta, state, firstEvent, build, pass, dirty, faults, blind>>
      BY <2>3 DEF Replace, store
    <3>3. replaces' \in Nat
      BY <2>3 DEF Replace, TypeOK
    <3>5. stale' \in SUBSET Projection
      BY <2>3 DEF Replace, TypeOK
    <3>4. log' \in Seq(Event)
      BY <2>3, <3>1 DEF Replace
    <3> QED
      BY <3>2, <3>3, <3>4, <3>5 DEF TypeOK
  <2>4. ASSUME NEW a \in Pass, Request(a) PROVE TypeOK'
    <3>1. [Idle EXCEPT !.pc = "head"] \in PassType
      BY InitialTypes DEF PassType
    <3>2. pass' \in [Pass -> PassType]
      BY <2>4, <3>1, GotoType DEF Request, TypeOK
    <3>3. dirty' \in [Pass -> BOOLEAN]
      BY <2>4 DEF Request, TypeOK
    <3> QED
      BY <2>4, <3>2, <3>3 DEF TypeOK, Request, store
  <2>5. ASSUME NEW a \in Pass, ReadHead(a) PROVE TypeOK'
    <3>1. /\ [pass[a] EXCEPT !.pc = "metas", !.head = Len(log)] \in PassType
          /\ [pass[a] EXCEPT !.pc = "metas", !.head = NullHead, !.failed = TRUE]
               \in PassType
      BY Fields DEF PassType
    <3>2. pass' \in [Pass -> PassType]
      BY <2>5, <3>1, GotoType DEF ReadHead
    <3>3. blind' \in Nat
      BY <2>5 DEF ReadHead, TypeOK
    <3> QED
      BY <2>5, <3>2, <3>3 DEF TypeOK, ReadHead, store
  <2>6. ASSUME NEW a \in Pass, ReadMetas(a) PROVE TypeOK'
    <3>1. [pass[a] EXCEPT !.pc = "check", !.metas = meta] \in PassType
      BY Fields DEF PassType, TypeOK
    <3>2. pass' \in [Pass -> PassType]
      BY <2>6, <3>1, GotoType DEF ReadMetas
    <3> QED
      BY <2>6, <3>2 DEF TypeOK, ReadMetas, store
  <2>7. ASSUME NEW a \in Pass, CheckJournal(a) PROVE TypeOK'
    <3> DEFINE r1 == JournalReplaced(a, FirstOf(log))
               r2 == JournalReplaced(a, None)
    <3>1. r1 \in BOOLEAN /\ r2 \in BOOLEAN
      BY DEF JournalReplaced
    <3>2. /\ [pass[a] EXCEPT !.pc = "plan", !.replaced = r1] \in PassType
          /\ [pass[a] EXCEPT !.pc = "plan", !.failed = TRUE, !.replaced = r2]
               \in PassType
      <4> HIDE DEF r1, r2
      <4> QED
        BY Fields, <3>1 DEF PassType
    <3>3. pass' \in [Pass -> PassType]
      BY <2>7, <3>2, GotoType DEF CheckJournal
    <3>4. blind' \in Nat
      BY <2>7 DEF CheckJournal, TypeOK
    <3> QED
      BY <2>7, <3>3, <3>4 DEF TypeOK, CheckJournal, store
  <2>8. ASSUME NEW a \in Pass, PlanOne(a) PROVE TypeOK'
    <3> DEFINE d == pass[a].next
               c == IF d = 1 THEN PlanFrom(a, d) ELSE Least(pass[a].cursor, PlanFrom(a, d))
    <3>1. d \in Projection /\ build[a] \in Build
      BY <2>8 DEF PlanOne, TypeOK
    <3>2. c \in Nat
      BY <3>1, PlanFromType, Fields DEF Least
    <3>3. [pass[a] EXCEPT !.next = d + 1, !.cursor = c] \in PassType
      <4>1. d + 1 \in 1..(NumProj + 1) /\ pass[a] \in PassType
        BY <3>1, Fields
      <4> HIDE DEF c, d
      <4> QED
        BY <3>2, <4>1 DEF PassType
    <3>4. pass' \in [Pass -> PassType]
      BY <2>8, <3>3, GotoType DEF PlanOne
    <3>5. meta' = meta \/ meta' = [meta EXCEPT ![d] = ResetMeta(build[a], d)]
      BY <2>8 DEF PlanOne
    <3>6. meta' \in [Projection -> MetaType]
      <4>1. ResetMeta(build[a], d) \in MetaType
        BY <3>1, ResetType
      <4> HIDE DEF d
      <4> QED
        BY <3>1, <3>5, <4>1 DEF TypeOK
    <3>7. state' \in [Projection -> SUBSET (Event \X Nat)] /\ stale' \in SUBSET Projection
      BY <2>8 DEF PlanOne, TypeOK
    <3> QED
      BY <2>8, <3>4, <3>6, <3>7 DEF TypeOK, PlanOne
  <2>9. ASSUME NEW a \in Pass, RememberFirst(a) PROVE TypeOK'
    <3>1. firstEvent' \in Event \cup {None}
      BY <2>9 DEF TypeOK, RememberFirst, FirstOf
    <3>2. [pass[a] EXCEPT !.pc = "read"] \in PassType
      BY Fields DEF PassType
    <3>3. pass' \in [Pass -> PassType]
      BY <2>9, <3>2, GotoType DEF RememberFirst
    <3> QED
      BY <2>9, <3>1, <3>3 DEF TypeOK, RememberFirst
  <2>10. ASSUME NEW a \in Pass, ReadPage(a) PROVE TypeOK'
    <3> DEFINE u == Least(pass[a].cursor + PageSize, Len(log))
    <3>1. u \in Nat
      BY Fields DEF Least
    <3>2. /\ [pass[a] EXCEPT !.pc = "fold", !.upTo = u] \in PassType
          /\ [pass[a] EXCEPT !.pc = "mark"] \in PassType
      <4> HIDE DEF u
      <4> QED
        BY Fields, <3>1 DEF PassType
    <3>3. pass' \in [Pass -> PassType]
      BY <2>10, <3>2, GotoType DEF ReadPage
    <3> QED
      BY <2>10, <3>3 DEF TypeOK, ReadPage, store
  <2>11. ASSUME NEW a \in Pass, FoldPage(a) PROVE TypeOK'
    <3>1. meta' \in [Projection -> MetaType]
      <4>1. \A d \in Projection : [meta[d] EXCEPT !.cursor = pass[a].upTo] \in MetaType
        BY Fields, MetaFields DEF TypeOK
      <4> QED
        BY <2>11, <4>1 DEF FoldPage, TypeOK
    <3>2. state' \in [Projection -> SUBSET (Event \X Nat)]
      <4>1. ASSUME NEW d \in Projection, Behind(a, d)
            PROVE  PageEvents(a) \X {Version[build[a]][d]} \subseteq Event \X Nat
        <5>1. Version[build[a]][d] \in Nat
          BY DEF TypeOK
        <5>2. PageEvents(a) \subseteq Event
          BY <2>11, PageEventsType DEF FoldPage, PageInLog
        <5> QED
          BY <5>1, <5>2
      <4> QED
        BY <2>11, <4>1 DEF FoldPage, TypeOK
    <3>3. [pass[a] EXCEPT !.pc = "read", !.cursor = pass[a].upTo,
                          !.pages = pass[a].pages + 1] \in PassType
      <4>1. pass[a] \in PassType /\ pass[a].upTo \in Nat /\ pass[a].pages + 1 \in Nat
        BY Fields
      <4> QED
        BY <4>1 DEF PassType
    <3>4. pass' \in [Pass -> PassType]
      BY <2>11, <3>3, GotoType DEF FoldPage
    <3> QED
      BY <2>11, <3>1, <3>2, <3>4 DEF TypeOK, FoldPage
  <2>12. ASSUME NEW a \in Pass, MarkCaughtUp(a) PROVE TypeOK'
    <3>1. meta' \in [Projection -> MetaType]
      BY <2>12, MetaFields DEF TypeOK, MarkCaughtUp
    <3> QED
      BY <2>12, <3>1, FinishType DEF TypeOK, MarkCaughtUp
  <2>13. ASSUME NEW a \in Pass, Interrupt(a) PROVE TypeOK'
    BY <2>13, FinishType DEF TypeOK, Interrupt, store
  <2>14. ASSUME NEW a \in Pass, Fail(a) PROVE TypeOK'
    BY <2>14, FinishType DEF TypeOK, Fail, store
  <2>15. ASSUME NEW a \in Pass, NEW b \in Build, Restart(a, b) PROVE TypeOK'
    <3>1. pass' \in [Pass -> PassType]
      BY <2>15, InitialTypes, GotoType DEF Restart
    <3> QED
      BY <2>15, <3>1 DEF TypeOK, Restart, store, Goto
  <2> QED
    BY <2>1, <2>2, <2>3, <2>4, <2>5, <2>6, <2>7, <2>8, <2>9, <2>10, <2>11, <2>12,
       <2>13, <2>14, <2>15 DEF Next, PassStep

\* One step keeps every page within the journal.
LEMMA PageStep == TypeOK /\ PageInLog /\ [Next]_vars => PageInLog'
  <1> SUFFICES ASSUME TypeOK, PageInLog, [Next]_vars, NEW b \in Pass, At(b, "fold")'
               PROVE  pass'[b].upTo <= Len(log')
    BY DEF PageInLog
  <1>0. Len(log) \in Nat /\ pass[b].upTo \in Nat
    BY Fields
  <1>1. CASE UNCHANGED <<pass, log>>
    BY <1>1 DEF PageInLog, At
  <1>2. ASSUME NEW e \in Event, Grow(e) PROVE pass'[b].upTo <= Len(log')
    <2>1. Len(log') = Len(log) + 1 /\ pass' = pass
      BY <1>2 DEF Grow, Journal!Commit, TypeOK
    <2> QED
      BY <1>0, <2>1 DEF PageInLog, At
  <1>3. ASSUME NEW n \in 0..MaxLog, Replace(n) PROVE FALSE
    BY <1>3 DEF Replace, At
  <1>4. ASSUME NEW a \in Pass, ReadPage(a) PROVE pass'[b].upTo <= Len(log')
    <2>1. CASE a = b
      BY <1>0, <1>4, <2>1, Fields, CatchUpAssumption DEF ReadPage, Goto, At, Least, TypeOK
    <2>2. CASE a # b
      BY <1>4, <2>2 DEF ReadPage, Goto, At, PageInLog, TypeOK
    <2> QED
      BY <2>1, <2>2
  <1>5. ASSUME log' = log, NEW a \in Pass, NEW rec, Goto(a, rec), rec.pc # "fold"
        PROVE  pass'[b].upTo <= Len(log')
    BY <1>5 DEF Goto, At, PageInLog, TypeOK
  <1>6. ASSUME NEW a \in Pass, Request(a) PROVE pass'[b].upTo <= Len(log')
    BY <1>6, <1>1, <1>5 DEF Request, Idle
  <1>7. ASSUME NEW a \in Pass, PassStep(a) PROVE pass'[b].upTo <= Len(log')
    <2>0. pass[a] \in PassType
      BY Fields
    <2>1. CASE ReadHead(a)
      BY <2>0, <2>1, <1>5 DEF ReadHead, PassType
    <2>2. CASE ReadMetas(a)
      BY <2>0, <2>2, <1>5 DEF ReadMetas, PassType
    <2>3. CASE CheckJournal(a)
      BY <2>0, <2>3, <1>5 DEF CheckJournal, PassType
    <2>4. CASE PlanOne(a)
      BY <2>0, <2>4, <1>5 DEF PlanOne, PassType, At
    <2>5. CASE RememberFirst(a)
      BY <2>0, <2>5, <1>5 DEF RememberFirst, PassType
    <2>6. CASE FoldPage(a)
      BY <2>0, <2>6, <1>5 DEF FoldPage, PassType
    <2>7. CASE MarkCaughtUp(a)
      BY <2>7, <1>5 DEF MarkCaughtUp, Finish, Idle
    <2>8. CASE Interrupt(a)
      BY <2>8, <1>5 DEF Interrupt, Finish, Idle
    <2> QED
      BY <1>7, <1>4, <2>1, <2>2, <2>3, <2>4, <2>5, <2>6, <2>7, <2>8 DEF PassStep
  <1>8. ASSUME NEW a \in Pass, Fail(a) PROVE pass'[b].upTo <= Len(log')
    BY <1>8, <1>5 DEF Fail, Finish, Idle
  <1>9. ASSUME NEW a \in Pass, NEW c \in Build, Restart(a, c) PROVE pass'[b].upTo <= Len(log')
    BY <1>9, <1>5 DEF Restart, Idle
  <1> QED
    BY <1>1, <1>2, <1>3, <1>6, <1>7, <1>8, <1>9 DEF Next, vars

\* Type correctness.
THEOREM TypeCorrect == Spec => [](TypeOK /\ PageInLog)
<1>1. Init => TypeOK /\ PageInLog
  BY InitialTypes, CatchUpAssumption
  DEF Init, TypeOK, Journal!Init, NoMetas, PageInLog, At, Idle
<1> QED
  BY <1>1, TypeStep, PageStep, PTL DEF Spec

-----------------------------------------------------------------------------
(***************************************************************************)
(* The rows of a projection are the fold of the journal up to its cursor.  *)
(* RowsMatchCursor is not inductive: that a page may be folded onto the    *)
(* rows depends on where the pass started (never past a cursor), on the    *)
(* version it planned with, and on the snapshot of the metas still being   *)
(* what the store holds.                                                   *)
(***************************************************************************)

\* What the pass read of the metas is what the store still holds for every
\* projection it has not planned yet.
Snapshot(a) ==
  /\ pass[a].pc \in {"idle", "head", "metas", "check"} => pass[a].next = 1
  /\ pass[a].pc \in {"check", "plan"} =>
       \A d \in Projection : d >= pass[a].next => pass[a].metas[d] = meta[d]

\* A planned projection carries this build's version and is not behind the
\* page the pass reads next.
IsPlanned(a, d) ==
  \/ pass[a].pc = "plan" /\ d < pass[a].next
  \/ pass[a].pc \in {"read", "fold", "mark"}

Planned(a) ==
  \A d \in Projection : IsPlanned(a, d) =>
    /\ meta[d].version = Version[build[a]][d]
    /\ pass[a].cursor <= meta[d].cursor

Folded(d) ==
  /\ meta[d].cursor <= Len(log)
  /\ state[d] = FoldOf(meta[d].cursor, meta[d].version)

RowsInv ==
  /\ \A a \in Pass : Snapshot(a) /\ Planned(a)
  /\ \A d \in Projection \ stale : Folded(d)

\* The fold of the first n events does not see what is appended after them.
LEMMA FoldGrows ==
  ASSUME log \in Seq(Event), NEW e \in Event, log' = Append(log, e),
         NEW n \in Nat, n <= Len(log), NEW v
  PROVE  FoldOf(n, v)' = FoldOf(n, v)
  <1>1. \A i \in 1..n : log'[i] = log[i]
    OBVIOUS
  <1> QED
    BY <1>1 DEF FoldOf

\* The events of the rows after c, up to u.
Slice(c, u) == {log[i] : i \in (c + 1)..u}

\* Folding the page that ends at u onto the fold of the first n events gives
\* the fold of the first u, when the page starts at n or before.
LEMMA FoldExtends ==
  ASSUME log \in Seq(Event), NEW c \in Nat, NEW n \in Nat, NEW u \in Nat,
         c <= n, n < u, NEW v
  PROVE  FoldOf(n, v) \cup (Slice(c, u) \X {v}) = FoldOf(u, v)
  <1>1. 1..u = (1..n) \cup ((c + 1)..u)
    OBVIOUS
  <1>2. {log[i] : i \in 1..u} = {log[i] : i \in 1..n} \cup {log[i] : i \in (c + 1)..u}
    BY <1>1
  <1> QED
    BY <1>2 DEF FoldOf, Slice

\* A step that leaves the journal and the rows of a projection alone, and one
\* that leaves all of them.
LEMMA SameFold ==
  ASSUME NEW d \in Projection, Folded(d), log' = log, meta'[d] = meta[d],
         state'[d] = state[d]
  PROVE  Folded(d)'
  BY DEF Folded, FoldOf

\* A step that leaves the journal and the rows alone leaves the folds what they are.
LEMMA QuietStep ==
  ASSUME RowsInv, UNCHANGED <<log, meta, state, stale>>
  PROVE  \A d \in Projection \ stale' : Folded(d)'
  BY DEF RowsInv, Folded, FoldOf

\* A pass that begins again has planned nothing.
LEMMA AtStart ==
  ASSUME NEW a \in Pass, pass[a].pc \in {"idle", "head", "metas"}, pass[a].next = 1
  PROVE  Snapshot(a) /\ Planned(a)
  BY DEF Snapshot, Planned, IsPlanned

\* A pass that finishes holds nothing of what it had planned.
LEMMA FinishStarts ==
  ASSUME TypeOK, NEW a \in Pass, Finish(a)
  PROVE  (Snapshot(a) /\ Planned(a))'
  BY DEF Finish, Goto, Idle, TypeOK, Snapshot, Planned, IsPlanned

\* One step of the only process preserves RowsInv.
LEMMA RowsStep ==
  ASSUME TypeOK, PageInLog, RowsInv, [Next]_vars, NEW a, Pass = {a}
  PROVE  RowsInv'
<1> USE CatchUpAssumption
<1>0. /\ a \in Pass /\ pass[a] \in PassType /\ build[a] \in Build
      /\ Snapshot(a) /\ Planned(a)
      /\ \A d \in Projection : meta[d] \in MetaType
      /\ log \in Seq(Event) /\ Len(log) \in Nat
  BY DEF TypeOK, RowsInv
<1>g. ASSUME (Snapshot(a) /\ Planned(a))', \A d \in Projection \ stale' : Folded(d)'
      PROVE  RowsInv'
  BY <1>g DEF RowsInv
<1>1. CASE UNCHANGED vars
  BY <1>1 DEF vars, RowsInv, Snapshot, Planned, IsPlanned, Folded, FoldOf
<1>2. ASSUME NEW e \in Event, Grow(e) PROVE RowsInv'
  <2>1. log' = Append(log, e) /\ Len(log') = Len(log) + 1
    BY <1>0, <1>2 DEF Grow, Journal!Commit
  <2>2. UNCHANGED <<meta, state, build, pass, stale>>
    BY <1>2 DEF Grow, store
  <2>3. ASSUME NEW d \in Projection \ stale' PROVE Folded(d)'
    <3>1. meta[d].cursor \in Nat /\ Folded(d)
      BY <1>0, <2>2, MetaFields DEF RowsInv
    <3>2. FoldOf(meta[d].cursor, meta[d].version)' = FoldOf(meta[d].cursor, meta[d].version)
      BY <1>0, <2>1, <2>2, <3>1 DEF FoldOf, Folded
    <3> QED
      BY <1>0, <2>1, <2>2, <3>1, <3>2 DEF Folded
  <2>4. (Snapshot(a) /\ Planned(a))'
    BY <1>0, <2>2 DEF Snapshot, Planned, IsPlanned
  <2> QED
    BY <1>g, <2>3, <2>4
<1>3. ASSUME NEW n \in 0..MaxLog, Replace(n) PROVE RowsInv'
  <2>1. /\ n \in Nat /\ n < Len(log) /\ log' = SubSeq(log, 1, n)
        /\ stale' = stale \cup {d \in Projection : meta[d].cursor > n}
        /\ UNCHANGED <<meta, state, build, pass>>
    BY <1>3 DEF Replace, store
  <2>2. Len(log') = n /\ \A i \in 1..n : log'[i] = log[i]
    BY <1>0, <2>1
  <2>3. ASSUME NEW d \in Projection \ stale' PROVE Folded(d)'
    <3>1. d \in Projection /\ d \notin stale /\ ~(meta[d].cursor > n)
      BY <2>1
    <3>2. meta[d] \in MetaType /\ Folded(d)
      BY <1>0, <3>1 DEF RowsInv
    <3>5. meta[d].cursor \in Nat
      BY <3>2, MetaFields
    <3>3. meta[d].cursor \in Nat /\ meta[d].cursor <= n
      BY <2>1, <3>1, <3>5
    <3>4. FoldOf(meta[d].cursor, meta[d].version)' = FoldOf(meta[d].cursor, meta[d].version)
      BY <2>1, <2>2, <3>3 DEF FoldOf
    <3> QED
      BY <2>1, <2>2, <3>2, <3>3, <3>4 DEF Folded
  <2>4. (Snapshot(a) /\ Planned(a))'
    BY <1>0, <2>1 DEF Snapshot, Planned, IsPlanned
  <2> QED
    BY <1>g, <2>3, <2>4
<1>4. ASSUME Request(a) PROVE RowsInv'
  <2>1. \A d \in Projection \ stale' : Folded(d)'
    BY <1>4, QuietStep DEF Request, store
  <2>2. UNCHANGED <<meta, build>>
    BY <1>4 DEF Request, store
  <2>3. CASE At(a, "idle")
    BY <1>0, <1>4, <2>3, <1>g, <2>1 DEF Request, Goto, Idle, Snapshot, Planned, IsPlanned, TypeOK
  <2>4. CASE ~At(a, "idle")
    BY <1>0, <1>4, <2>2, <2>4, <1>g, <2>1 DEF Request, Snapshot, Planned, IsPlanned
  <2> QED
    BY <2>3, <2>4
<1>5. ASSUME ReadHead(a) \/ ReadMetas(a) \/ CheckJournal(a) PROVE RowsInv'
  <2>1. UNCHANGED <<log, meta, state, build, stale>>
    BY <1>5 DEF ReadHead, ReadMetas, CheckJournal, store
  <2>2. \A d \in Projection \ stale' : Folded(d)'
    BY <2>1, QuietStep
  <2>3. CASE ReadHead(a)
    <3>1. pass[a].next = 1 /\ pass \in [Pass -> PassType]
      BY <1>0, <2>3 DEF ReadHead, At, Snapshot, TypeOK
    <3>2. pass'[a] = [pass[a] EXCEPT !.pc = "metas", !.head = Len(log)]
            \/ pass'[a] = [pass[a] EXCEPT !.pc = "metas", !.head = NullHead, !.failed = TRUE]
      BY <1>0, <2>3, <3>1 DEF ReadHead, Goto
    <3>3. pass'[a].pc = "metas" /\ pass'[a].next = 1
      BY <1>0, <3>1, <3>2 DEF PassType
    <3> QED
      BY <1>g, <2>2, <3>3 DEF Snapshot, Planned, IsPlanned
  <2>4. CASE ReadMetas(a)
    <3>1. pass'[a].pc = "check" /\ pass'[a].next = 1 /\ pass'[a].metas = meta
      BY <1>0, <2>4 DEF ReadMetas, Goto, At, PassType, Snapshot, TypeOK
    <3> QED
      BY <1>g, <2>1, <2>2, <3>1 DEF Snapshot, Planned, IsPlanned
  <2>5. CASE CheckJournal(a)
    <3>1. pass[a].pc = "check" /\ pass[a].next = 1 /\ pass \in [Pass -> PassType]
      BY <1>0, <2>5 DEF CheckJournal, At, Snapshot, TypeOK
    <3>2. \E r : pass'[a] = [pass[a] EXCEPT !.pc = "plan", !.replaced = r]
            \/ pass'[a] = [pass[a] EXCEPT !.pc = "plan", !.failed = TRUE, !.replaced = r]
      BY <1>0, <2>5, <3>1 DEF CheckJournal, Goto
    <3>3. /\ pass'[a].pc = "plan" /\ pass'[a].next = 1
          /\ pass'[a].metas = pass[a].metas
      BY <1>0, <3>1, <3>2 DEF PassType
    <3> QED
      BY <1>0, <1>g, <2>1, <2>2, <3>1, <3>3 DEF Snapshot, Planned, IsPlanned
  <2> QED
    BY <1>5, <2>3, <2>4, <2>5
<1>6. ASSUME PlanOne(a) PROVE RowsInv'
  <2>0. PICK d0 \in Projection : pass[a].next = d0
    BY <1>6 DEF PlanOne
  <2>1. /\ pass[a].next = d0 /\ d0 \in Nat /\ pass[a].pc = "plan" /\ pass[a].cursor \in Nat
        /\ UNCHANGED <<log, build>>
    BY <1>0, <1>6, <2>0 DEF PlanOne, At, PassType
  <2>2. pass[a].metas[d0] = meta[d0] /\ PlanFrom(a, d0) \in Nat
    <3>1. d0 \in Projection /\ d0 >= pass[a].next
      BY <2>0, <2>1
    <3>2. pass[a].metas[d0] = meta[d0]
      BY <1>0, <2>1, <3>1 DEF Snapshot
    <3> QED
      BY <1>0, <3>1, <3>2, PlanFromType
  <2>3. /\ pass'[a].pc = "plan" /\ pass'[a].next = d0 + 1
        /\ pass'[a].metas = pass[a].metas
        /\ pass'[a].cursor =
             IF d0 = 1 THEN PlanFrom(a, d0) ELSE Least(pass[a].cursor, PlanFrom(a, d0))
    BY <1>0, <1>6, <2>1 DEF PlanOne, Goto, At, PassType, TypeOK
  <2>4. /\ pass'[a].cursor <= PlanFrom(a, d0)
        /\ d0 # 1 => pass'[a].cursor <= pass[a].cursor
        /\ pass'[a].cursor \in Nat
    BY <2>1, <2>2, <2>3 DEF Least
  <2>5. \A d \in Projection \ {d0} : meta'[d] = meta[d] /\ state'[d] = state[d]
    BY <1>6, <2>0 DEF PlanOne, TypeOK
  <2>6. \A d \in Projection \ {d0} : d \notin stale' => d \notin stale
    BY <1>6, <2>0 DEF PlanOne
  <2>7. /\ meta'[d0].version = Version[build[a]][d0]
        /\ PlanFrom(a, d0) <= meta'[d0].cursor
        /\ d0 \notin stale' => Folded(d0)'
    <3>1. CASE Fresh(a, d0)
      <4>1. /\ meta'[d0].version = Version[build[a]][d0] /\ meta'[d0].cursor = 0
            /\ state'[d0] = {} /\ PlanFrom(a, d0) = 0
        BY <1>6, <2>1, <3>1 DEF PlanOne, PlanFrom, TypeOK, ResetMeta
      <4>2. Len(log') = Len(log)
        BY <2>1
      <4>3. \A v : FoldOf(0, v)' = {}
        BY DEF FoldOf
      <4>4. Folded(d0)'
        BY <1>0, <4>1, <4>2, <4>3 DEF Folded
      <4> QED
        BY <4>1, <4>4
    <3>2. CASE ~Fresh(a, d0)
      <4>1. UNCHANGED <<meta, state, stale>>
        BY <1>6, <2>0, <3>2 DEF PlanOne
      <4>2. meta[d0].version = Version[build[a]][d0] /\ PlanFrom(a, d0) = meta[d0].cursor
        BY <2>2, <3>2 DEF Fresh, PlanFrom
      <4>3. d0 \notin stale => Folded(d0)
        BY DEF RowsInv
      <4>4. d0 \notin stale' => Folded(d0)'
        BY <2>1, <4>1, <4>3, SameFold
      <4>5. meta[d0].cursor \in Nat /\ meta'[d0] = meta[d0]
        BY <1>0, <4>1, MetaFields
      <4>6. PlanFrom(a, d0) <= meta'[d0].cursor
        BY <4>2, <4>5
      <4> QED
        BY <4>2, <4>4, <4>5, <4>6
    <3> QED
      BY <3>1, <3>2
  <2>8. \A d \in Projection \ stale' : Folded(d)'
    <3> SUFFICES ASSUME NEW d \in Projection \ stale' PROVE Folded(d)'
      OBVIOUS
    <3>1. CASE d = d0
      BY <2>7, <3>1
    <3>2. CASE d # d0
      <4>1. Folded(d) /\ meta'[d] = meta[d] /\ state'[d] = state[d] /\ log' = log
        BY <2>1, <2>5, <2>6, <3>2 DEF RowsInv
      <4> QED
        BY <4>1, SameFold
    <3> QED
      BY <3>1, <3>2
  <2>9. Snapshot(a)'
    <3>1. ASSUME NEW d \in Projection, d >= d0 + 1
          PROVE  pass'[a].metas[d] = meta'[d]
      <4>1. d \in Projection \ {d0} /\ d >= d0
        BY <2>1, <3>1
      <4>2. pass[a].metas[d] = meta[d]
        BY <1>0, <2>1, <4>1 DEF Snapshot
      <4> QED
        BY <2>3, <2>5, <4>1, <4>2
    <3> QED
      BY <2>3, <3>1 DEF Snapshot
  <2>10. Planned(a)'
    <3> SUFFICES ASSUME NEW d \in Projection, d < d0 + 1
                 PROVE  /\ meta'[d].version = Version[build[a]][d]
                        /\ pass'[a].cursor <= meta'[d].cursor
      BY <2>1, <2>3 DEF Planned, IsPlanned
    <3>1. meta[d].cursor \in Nat /\ meta[d0].cursor \in Nat
      BY <1>0, <2>1, MetaFields
    <3>2. CASE d = d0
      <4>1. meta'[d0].cursor \in Nat
        <5>1. TypeOK'
          BY TypeStep
        <5> QED
          BY <5>1, MetaFields DEF TypeOK
      <4> QED
        BY <2>2, <2>4, <2>7, <3>2, <4>1
    <3>3. CASE d # d0
      <4>1. d < d0 /\ d0 # 1 /\ meta'[d] = meta[d]
        BY <2>1, <2>5, <3>3
      <4>2. meta[d].version = Version[build[a]][d] /\ pass[a].cursor <= meta[d].cursor
        BY <1>0, <2>1, <4>1 DEF Planned, IsPlanned
      <4> QED
        BY <2>1, <2>4, <3>1, <4>1, <4>2
    <3> QED
      BY <3>2, <3>3
  <2> QED
    BY <1>g, <2>8, <2>9, <2>10
<1>7. ASSUME RememberFirst(a) PROVE RowsInv'
  <2>1. UNCHANGED <<log, meta, state, build, stale>>
    BY <1>7 DEF RememberFirst
  <2>2. \A d \in Projection \ stale' : Folded(d)'
    BY <2>1, QuietStep
  <2>3. /\ pass[a].pc = "plan" /\ pass[a].next = NumProj + 1
        /\ pass'[a].pc = "read" /\ pass'[a].cursor = pass[a].cursor
    BY <1>0, <1>7 DEF RememberFirst, Goto, At, PassType, TypeOK
  <2>4. \A d \in Projection : IsPlanned(a, d)
    BY <2>3 DEF IsPlanned
  <2> QED
    BY <1>0, <1>g, <2>1, <2>2, <2>3, <2>4 DEF Snapshot, Planned
<1>8. ASSUME ReadPage(a) PROVE RowsInv'
  <2>1. UNCHANGED <<log, meta, state, build, stale>>
    BY <1>8 DEF ReadPage, store
  <2>2. \A d \in Projection \ stale' : Folded(d)'
    BY <2>1, QuietStep
  <2>3. /\ pass[a].pc = "read" /\ pass'[a].pc \in {"fold", "mark"}
        /\ pass'[a].cursor = pass[a].cursor
    BY <1>0, <1>8 DEF ReadPage, Goto, At, PassType, TypeOK
  <2> QED
    BY <1>0, <1>g, <2>1, <2>2, <2>3 DEF Snapshot, Planned, IsPlanned
<1>9. ASSUME FoldPage(a) PROVE RowsInv'
  <2>1. /\ pass[a].pc = "fold" /\ pass[a].cursor \in Nat /\ pass[a].upTo \in Nat
        /\ pass[a].upTo <= Len(log)
        /\ UNCHANGED <<log, build, stale>>
    BY <1>0, <1>9 DEF FoldPage, At, PassType, PageInLog
  <2>2. /\ pass'[a].pc = "read" /\ pass'[a].cursor = pass[a].upTo
    BY <1>0, <1>9 DEF FoldPage, Goto, PassType, TypeOK
  <2>3. ASSUME NEW d \in Projection
        PROVE  /\ meta'[d].version = Version[build[a]][d]
               /\ pass[a].upTo <= meta'[d].cursor
               /\ d \notin stale => Folded(d)'
    <3>1. /\ meta[d].cursor \in Nat /\ meta[d] \in MetaType
          /\ meta[d].version = Version[build[a]][d]
          /\ pass[a].cursor <= meta[d].cursor
      BY <1>0, <2>1, MetaFields DEF Planned, IsPlanned
    <3>2. CASE Behind(a, d)
      <4>1. meta'[d].cursor = pass[a].upTo /\ meta'[d].version = meta[d].version
        <5>1. meta'[d] = [meta[d] EXCEPT !.cursor = pass[a].upTo]
          BY <1>9, <3>2 DEF FoldPage
        <5> QED
          BY <2>1, <3>1, <5>1 DEF MetaType
      <4>2. state'[d] = state[d] \cup (PageEvents(a) \X {Version[build[a]][d]})
        BY <1>9, <3>2 DEF FoldPage
      <4>3. ASSUME d \notin stale PROVE state'[d] = FoldOf(pass[a].upTo, meta[d].version)
        <5>1. state[d] = FoldOf(meta[d].cursor, meta[d].version)
          BY <4>3 DEF RowsInv, Folded
        <5>2. FoldOf(meta[d].cursor, meta[d].version)
                \cup (Slice(pass[a].cursor, pass[a].upTo) \X {meta[d].version})
              = FoldOf(pass[a].upTo, meta[d].version)
          <6>1. meta[d].cursor < pass[a].upTo
            BY <3>2 DEF Behind
          <6>2. /\ log \in Seq(Event) /\ pass[a].cursor \in Nat
                /\ meta[d].cursor \in Nat /\ pass[a].upTo \in Nat
                /\ pass[a].cursor <= meta[d].cursor
            BY <1>0, <2>1, <3>1
          <6> QED
            BY <6>1, <6>2, FoldExtends
        <5>3. PageEvents(a) = Slice(pass[a].cursor, pass[a].upTo)
          BY DEF PageEvents, Slice
        <5> QED
          BY <3>1, <4>2, <5>1, <5>2, <5>3
      <4> QED
        BY <2>1, <3>1, <4>1, <4>3 DEF Folded, FoldOf
    <3>3. CASE ~Behind(a, d)
      <4>1. meta'[d] = meta[d] /\ state'[d] = state[d]
        BY <1>9, <3>3 DEF FoldPage
      <4> QED
        BY <2>1, <3>1, <3>3, <4>1 DEF Behind, RowsInv, Folded, FoldOf
    <3> QED
      BY <3>2, <3>3
  <2> QED
    BY <1>g, <2>1, <2>2, <2>3 DEF Snapshot, Planned
<1>10. ASSUME MarkCaughtUp(a) PROVE RowsInv'
  <2>1. /\ UNCHANGED <<log, state, stale>>
        /\ \A d \in Projection : /\ meta'[d].cursor = meta[d].cursor
                                 /\ meta'[d].version = meta[d].version
    BY <1>0, <1>10, MetaFields DEF MarkCaughtUp
  <2>2. \A d \in Projection \ stale' : Folded(d)'
    BY <2>1 DEF RowsInv, Folded, FoldOf
  <2> QED
    BY <1>0, <1>10, <1>g, <2>2, FinishStarts DEF MarkCaughtUp
<1>11. ASSUME Interrupt(a) \/ Fail(a) PROVE RowsInv'
  <2>1. UNCHANGED <<log, meta, state, stale>> /\ Finish(a)
    BY <1>11 DEF Interrupt, Fail, store
  <2> QED
    BY <1>0, <1>g, <2>1, QuietStep, FinishStarts
<1>12. ASSUME NEW b \in Build, Restart(a, b) PROVE RowsInv'
  <2>1. UNCHANGED <<log, meta, state, stale>> /\ Goto(a, Idle)
    BY <1>12 DEF Restart, store
  <2>2. (Snapshot(a) /\ Planned(a))'
    BY <1>0, <2>1 DEF Goto, Idle, TypeOK, Snapshot, Planned, IsPlanned
  <2> QED
    BY <1>g, <2>1, <2>2, QuietStep
<1> QED
  BY <1>0, <1>1, <1>2, <1>3, <1>4, <1>5, <1>6, <1>7, <1>8, <1>9, <1>10, <1>11, <1>12
  DEF Next, PassStep

\* catalog.ts: the cursor of a projection is "the journal rowid folded up to".
\* With one process running passes, the rows are at every moment the fold of
\* exactly the events up to the cursor, by the version the meta row names,
\* whatever is replaced, interrupted or killed and in whatever order.
THEOREM RowsAreTheFold ==
  ASSUME NEW a, Pass = {a}
  PROVE  Spec => []RowsMatchCursor
<1>1. Init => RowsInv
  <2> SUFFICES ASSUME Init PROVE RowsInv
    OBVIOUS
  <2>1. Snapshot(a) /\ Planned(a)
    BY DEF Init, Idle, Snapshot, Planned, IsPlanned
  <2>2. \A d \in Projection : Folded(d)
    BY DEF Init, Journal!Init, NoMetas, Unknown, Folded, FoldOf
  <2> QED
    BY <2>1, <2>2 DEF RowsInv
<1>2. TypeOK /\ PageInLog /\ RowsInv /\ [Next]_vars => RowsInv'
  BY RowsStep
<1>3. RowsInv => RowsMatchCursor
  BY DEF RowsInv, Folded, RowsMatchCursor
<1> QED
  BY <1>1, <1>2, <1>3, TypeCorrect, PTL DEF Spec

-----------------------------------------------------------------------------
(***************************************************************************)
(* Cursors, with any number of processes.                                  *)
(***************************************************************************)

\* What CursorDropsWithRows says of one step.
DropsWithRows ==
  \A d \in Projection : meta'[d].cursor < meta[d].cursor => state'[d] = {}

\* No cursor dropped where none moved.
LEMMA SameCursors ==
  ASSUME TypeOK, \A d \in Projection : meta'[d].cursor = meta[d].cursor
  PROVE  DropsWithRows
  <1> SUFFICES ASSUME NEW d \in Projection PROVE ~(meta'[d].cursor < meta[d].cursor)
    BY DEF DropsWithRows
  <1>1. meta[d] \in MetaType
    BY DEF TypeOK
  <1>2. meta[d].cursor \in Nat
    BY <1>1, MetaFields
  <1> QED
    BY <1>2

\* A step that drops a cursor drops the rows with it.
LEMMA DropStep == TypeOK /\ [Next]_vars => DropsWithRows
<1> SUFFICES ASSUME TypeOK, [Next]_vars PROVE DropsWithRows
  OBVIOUS
<1>1. CASE meta' = meta
  BY <1>1, SameCursors
<1>2. ASSUME NEW a \in Pass, PlanOne(a) PROVE DropsWithRows
  <2>1. PICK d0 \in Projection : pass[a].next = d0
    BY <1>2 DEF PlanOne
  <2>2. CASE Fresh(a, d0)
    <3>1. state'[d0] = {} /\ \A d \in Projection \ {d0} : meta'[d] = meta[d]
      BY <1>2, <2>1, <2>2 DEF PlanOne, TypeOK
    <3> SUFFICES ASSUME NEW d \in Projection \ {d0}
                 PROVE ~(meta'[d].cursor < meta[d].cursor)
      BY <3>1 DEF DropsWithRows
    <3>2. meta[d] \in MetaType
      BY DEF TypeOK
    <3>3. meta[d].cursor \in Nat
      BY <3>2, MetaFields
    <3> QED
      BY <3>1, <3>3
  <2>3. CASE ~Fresh(a, d0)
    BY <1>1, <1>2, <2>1, <2>3 DEF PlanOne
  <2> QED
    BY <2>2, <2>3
<1>3. ASSUME NEW a \in Pass, FoldPage(a) PROVE DropsWithRows
  <2> SUFFICES ASSUME NEW d \in Projection PROVE ~(meta'[d].cursor < meta[d].cursor)
    BY DEF DropsWithRows
  <2>1. meta[d] \in MetaType /\ pass[a].upTo \in Nat
    BY Fields DEF TypeOK
  <2>2. meta[d].cursor \in Nat
    BY <2>1, MetaFields
  <2>3. CASE Behind(a, d)
    <3>1. meta'[d] = [meta[d] EXCEPT !.cursor = pass[a].upTo]
      BY <1>3, <2>3 DEF FoldPage
    <3>2. meta'[d].cursor = pass[a].upTo
      BY <2>1, <3>1 DEF MetaType
    <3> QED
      BY <2>1, <2>2, <2>3, <3>2 DEF Behind
  <2>4. CASE ~Behind(a, d)
    <3>1. meta'[d] = meta[d]
      BY <1>3, <2>4 DEF FoldPage
    <3> QED
      BY <2>2, <3>1
  <2> QED
    BY <2>3, <2>4
<1>4. ASSUME NEW a \in Pass, MarkCaughtUp(a) PROVE DropsWithRows
  <2>1. ASSUME NEW d \in Projection PROVE meta'[d].cursor = meta[d].cursor
    <3>1. meta[d] \in MetaType
      BY DEF TypeOK
    <3>2. meta'[d] = [meta[d] EXCEPT !.rebuilding = FALSE]
      BY <1>4 DEF MarkCaughtUp
    <3> QED
      BY <3>1, <3>2 DEF MetaType
  <2> QED
    BY <2>1, SameCursors
<1>5. ASSUME NEW e \in Event, Grow(e) PROVE meta' = meta
  BY <1>5 DEF Grow, store
<1>6. ASSUME NEW n \in 0..MaxLog, Replace(n) PROVE meta' = meta
  BY <1>6 DEF Replace, store
<1>7. ASSUME NEW a \in Pass,
             \/ Request(a) \/ ReadHead(a) \/ ReadMetas(a) \/ CheckJournal(a)
             \/ RememberFirst(a) \/ ReadPage(a) \/ Interrupt(a) \/ Fail(a)
             \/ \E b \in Build : Restart(a, b)
      PROVE  meta' = meta
  BY <1>7 DEF Request, ReadHead, ReadMetas, CheckJournal, RememberFirst, ReadPage,
              Interrupt, Fail, Restart, store
<1>8. UNCHANGED vars => meta' = meta
  BY DEF vars
<1> QED
  BY <1>1, <1>2, <1>3, <1>4, <1>5, <1>6, <1>7, <1>8 DEF Next, PassStep

\* store.ts, resetProjection: however many processes pass at once, a cursor
\* only ever goes back in the write that also empties the projection's rows.
THEOREM CursorsDropWithRows == Spec => CursorDropsWithRows
<1>1. TypeOK /\ [Next]_vars => [DropsWithRows]_vars
  BY DropStep
<1>2. Spec => [][DropsWithRows]_vars
  BY <1>1, TypeCorrect, PTL DEF Spec
<1> QED
  BY <1>2 DEF CursorDropsWithRows, DropsWithRows

-----------------------------------------------------------------------------
(***************************************************************************)
(* Several processes passing at once.  RowsBehindCursor is inductive once  *)
(* the cursors of the projections not stale are known to be in the log.    *)
(***************************************************************************)
Reached(d) ==
  /\ meta[d].cursor <= Len(log)
  /\ \A row \in state[d] : \E i \in 1..meta[d].cursor : log[i] = row[1]

ReachedInv == \A d \in Projection \ stale : Reached(d)

\* What a step of a pass finds.
LEMMA Found ==
  ASSUME TypeOK, NEW d \in Projection
  PROVE  /\ meta[d] \in MetaType /\ meta[d].cursor \in Nat
         /\ log \in Seq(Event) /\ Len(log) \in Nat
<1>1. meta[d] \in MetaType
  BY DEF TypeOK
<1>2. meta[d].cursor \in Nat
  BY <1>1, MetaFields
<1>3. log \in Seq(Event)
  BY DEF TypeOK
<1>4. Len(log) \in Nat
  BY <1>3
<1> QED
  BY <1>1, <1>2, <1>3, <1>4

\* A log that keeps its first rows keeps what the cursors have reached.
LEMMA ReachedStays ==
  ASSUME TypeOK, NEW d \in Projection, Reached(d),
         meta'[d].cursor = meta[d].cursor, state'[d] = state[d],
         meta[d].cursor <= Len(log'),
         \A i \in 1..meta[d].cursor : log'[i] = log[i]
  PROVE  Reached(d)'
  BY DEF Reached

\* A page is folded: the rows it adds are in the page, and the page ends
\* where the cursor goes.
LEMMA ReachedByFold ==
  ASSUME TypeOK, PageInLog, NEW a \in Pass, FoldPage(a),
         NEW d \in Projection, Reached(d)
  PROVE  Reached(d)'
<1>1. /\ meta[d] \in MetaType /\ pass[a].upTo \in Nat /\ pass[a].cursor \in Nat
      /\ Len(log) \in Nat /\ pass[a].upTo <= Len(log) /\ log' = log
  BY Fields DEF TypeOK, FoldPage, PageInLog
<1>2. meta[d].cursor \in Nat
  BY <1>1, MetaFields
<1>3. CASE ~Behind(a, d)
  <2>1. meta'[d] = meta[d] /\ state'[d] = state[d]
    BY <1>3 DEF FoldPage
  <2> QED
    BY <1>1, <2>1 DEF Reached
<1>4. CASE Behind(a, d)
  <2>1. /\ meta'[d] = [meta[d] EXCEPT !.cursor = pass[a].upTo]
        /\ state'[d] = state[d] \cup (PageEvents(a) \X {Version[build[a]][d]})
    BY <1>4 DEF FoldPage
  <2>2. meta'[d].cursor = pass[a].upTo /\ meta[d].cursor < pass[a].upTo
    BY <1>1, <1>4, <2>1 DEF MetaType, Behind
  <2>3. ASSUME NEW row \in state'[d] PROVE \E i \in 1..pass[a].upTo : log[i] = row[1]
    <3>1. CASE row \in state[d]
      <4>1. PICK i \in 1..meta[d].cursor : log[i] = row[1]
        BY <3>1 DEF Reached
      <4> QED
        BY <1>1, <1>2, <2>2, <4>1
    <3>2. CASE row \in PageEvents(a) \X {Version[build[a]][d]}
      <4>1. row[1] \in PageEvents(a)
        BY <3>2
      <4>2. PICK i \in (pass[a].cursor + 1)..pass[a].upTo : log[i] = row[1]
        BY <4>1 DEF PageEvents
      <4> QED
        BY <1>1, <4>2
    <3> QED
      BY <2>1, <3>1, <3>2
  <2> QED
    BY <1>1, <2>2, <2>3 DEF Reached
<1> QED
  BY <1>3, <1>4

(* What two sequences share up to k they share up to any shorter length.   *)
LEMMA ShorterPrefix ==
  ASSUME NEW s, NEW t, NEW k \in Nat, NEW c \in Nat, c <= k,
         \A i \in 1..k : t[i] = s[i]
  PROVE  \A i \in 1..c : t[i] = s[i]
<1> TAKE i \in 1..c
<1>1. i \in 1..k
  OBVIOUS
<1> QED
  BY <1>1

\* Every step keeps what the cursors reached.
LEMMA ReachedStep == TypeOK /\ PageInLog /\ ReachedInv /\ [Next]_vars => ReachedInv'
<1> SUFFICES ASSUME TypeOK, PageInLog, ReachedInv, [Next]_vars,
                    NEW d \in Projection \ stale'
             PROVE  Reached(d)'
  BY DEF ReachedInv
<1> USE CatchUpAssumption
<1>0. /\ meta[d] \in MetaType /\ meta[d].cursor \in Nat
      /\ log \in Seq(Event) /\ Len(log) \in Nat
  BY Found
<1>1. ASSUME UNCHANGED <<log, meta, state, stale>> PROVE Reached(d)'
  BY <1>1 DEF ReachedInv, Reached
<1>2. ASSUME NEW e \in Event, Grow(e) PROVE Reached(d)'
  <2>1. log' = Append(log, e) /\ UNCHANGED <<meta, state, stale>>
    BY <1>0, <1>2 DEF Grow, store, Journal!Commit
  <2>2. Len(log') = Len(log) + 1 /\ \A i \in 1..Len(log) : log'[i] = log[i]
    BY <1>0, <2>1
  <2>3. Reached(d)
    BY <2>1 DEF ReachedInv
  <2>4. meta[d].cursor <= Len(log)
    BY <2>3 DEF Reached
  <2>5. /\ meta[d].cursor <= Len(log')
        /\ \A i \in 1..meta[d].cursor : log'[i] = log[i]
    <3>1. Len(log') = Len(log) + 1
      BY <2>2
    <3>2. meta[d].cursor <= Len(log')
      BY <1>0, <2>4, <3>1
    <3>3. \A i \in 1..Len(log) : log'[i] = log[i]
      BY <2>2
    <3>4. \A i \in 1..meta[d].cursor : log'[i] = log[i]
      BY <1>0, <2>4, <3>3, ShorterPrefix
    <3> QED
      BY <3>2, <3>4
  <2>6. meta'[d].cursor = meta[d].cursor /\ state'[d] = state[d]
    BY <2>1
  <2> QED
    BY <2>3, <2>5, <2>6, ReachedStays
<1>3. ASSUME NEW n \in 0..MaxLog, Replace(n) PROVE Reached(d)'
  <2>1. /\ log' = SubSeq(log, 1, n) /\ n < Len(log) /\ meta' = meta /\ state' = state
        /\ d \notin stale /\ ~(meta[d].cursor > n)
    BY <1>3 DEF Replace, store
  <2>2. Len(log') = n /\ \A i \in 1..n : log'[i] = log[i]
    BY <1>0, <2>1
  <2>3. Reached(d)
    BY <2>1 DEF ReachedInv
  <2>4. /\ meta[d].cursor <= Len(log')
        /\ \A i \in 1..meta[d].cursor : log'[i] = log[i]
    <3>1. n \in Nat /\ meta[d].cursor <= n
      BY <1>0, <2>1
    <3>2. \A i \in 1..n : log'[i] = log[i]
      BY <2>2
    <3>3. \A i \in 1..meta[d].cursor : log'[i] = log[i]
      BY <1>0, <3>1, <3>2, ShorterPrefix
    <3> QED
      BY <2>2, <3>1, <3>3
  <2>5. meta'[d].cursor = meta[d].cursor /\ state'[d] = state[d]
    BY <2>1
  <2> QED
    BY <2>3, <2>4, <2>5, ReachedStays
<1>4. ASSUME NEW a \in Pass, PlanOne(a) PROVE Reached(d)'
  <2>1. PICK d0 \in Projection : pass[a].next = d0
    BY <1>4 DEF PlanOne
  <2>2. CASE ~Fresh(a, d0)
    BY <1>1, <1>4, <2>1, <2>2 DEF PlanOne
  <2>3. CASE Fresh(a, d0) /\ d = d0
    <3>1. meta'[d] = ResetMeta(build[a], d) /\ state'[d] = {} /\ log' = log
      BY <1>4, <2>1, <2>3 DEF PlanOne, TypeOK
    <3>2. meta'[d].cursor = 0
      BY <3>1 DEF ResetMeta
    <3> QED
      BY <1>0, <3>1, <3>2 DEF Reached
  <2>4. CASE Fresh(a, d0) /\ d # d0
    <3>1. meta'[d] = meta[d] /\ state'[d] = state[d] /\ log' = log /\ d \notin stale
      BY <1>4, <2>1, <2>4 DEF PlanOne, TypeOK
    <3> QED
      BY <3>1 DEF ReachedInv, Reached
  <2> QED
    BY <2>2, <2>3, <2>4
<1>5. ASSUME NEW a \in Pass, FoldPage(a) PROVE Reached(d)'
  <2>1. d \notin stale
    BY <1>5 DEF FoldPage
  <2> QED
    BY <1>5, <2>1, ReachedByFold DEF ReachedInv
<1>6. ASSUME NEW a \in Pass, MarkCaughtUp(a) PROVE Reached(d)'
  <2>1. /\ log' = log /\ state' = state /\ stale' = stale
        /\ meta'[d] = [meta[d] EXCEPT !.rebuilding = FALSE]
    BY <1>6 DEF MarkCaughtUp
  <2>2. meta'[d].cursor = meta[d].cursor
    BY <1>0, <2>1 DEF MetaType
  <2> QED
    BY <2>1, <2>2 DEF ReachedInv, Reached
<1>7. ASSUME NEW a \in Pass,
             \/ Request(a) \/ ReadHead(a) \/ ReadMetas(a) \/ CheckJournal(a)
             \/ RememberFirst(a) \/ ReadPage(a) \/ Interrupt(a) \/ Fail(a)
             \/ \E b \in Build : Restart(a, b)
      PROVE  Reached(d)'
  BY <1>1, <1>7 DEF Request, ReadHead, ReadMetas, CheckJournal, RememberFirst,
                   ReadPage, Interrupt, Fail, Restart, store
<1>8. UNCHANGED vars => Reached(d)'
  BY <1>1 DEF vars
<1> QED
  BY <1>2, <1>3, <1>4, <1>5, <1>6, <1>7, <1>8 DEF Next, PassStep

\* catch-up.ts, the page's transaction: however many processes pass at once,
\* and whatever they fold twice or reset under each other, no projection
\* holds a row of an event past its cursor.
THEOREM RowsStayBehindCursors == Spec => []RowsBehindCursor
<1>1. Init => ReachedInv
  BY CatchUpAssumption DEF Init, ReachedInv, Reached, NoMetas, Unknown, Journal!Init
<1>2. TypeOK /\ ReachedInv => RowsBehindCursor
  <2> SUFFICES ASSUME TypeOK, ReachedInv, NEW d \in Projection \ stale,
                      NEW row \in state[d]
               PROVE  \E i \in 1..meta[d].cursor : i <= Len(log) /\ log[i] = row[1]
    BY DEF RowsBehindCursor
  <2>1. meta[d].cursor \in Nat /\ Len(log) \in Nat
    BY Found
  <2> QED
    BY <2>1 DEF ReachedInv, Reached
<1> QED
  BY <1>1, <1>2, ReachedStep, TypeCorrect, PTL DEF Spec


-----------------------------------------------------------------------------
(***************************************************************************)
(* A journal that is not the one folded is found out.  What gives it away  *)
(* is its first event, or, while it is empty, a cursor past its head: the  *)
(* pass must have read both, and planned every projection anew, before it  *)
(* folds a page or remembers the new first event.                          *)
(***************************************************************************)

\* What describes another journal can be told from this one.
NewJournal ==
  /\ stale # {} => firstEvent # None /\ FirstOf(log) # firstEvent
  /\ \A d \in stale : meta[d].cursor > 0

\* The pass has read a head, and knows a new journal by the time it plans.
Finds(a) ==
  /\ pass[a].pc \in {"metas", "check"} => pass[a].head \in 0..Len(log)
  /\ pass[a].pc = "plan" => \A d \in stale : pass[a].replaced /\ d >= pass[a].next
  /\ pass[a].pc \in {"read", "fold", "mark"} => stale = {}

FoundInv(a) == NewJournal /\ Finds(a)

\* One step of the only process preserves FoundInv.
LEMMA FoundStep ==
  ASSUME ~SameStart, ~EmptyStart, MaxBlind = 0,
         TypeOK, RowsInv, NEW a, Pass = {a}, FoundInv(a), [Next]_vars
  PROVE  FoundInv(a)'
<1> USE CatchUpAssumption
<1>0. /\ a \in Pass /\ pass[a] \in PassType /\ Snapshot(a) /\ NewJournal /\ Finds(a)
      /\ stale \subseteq Projection /\ \A d \in Projection : meta[d].cursor \in Nat
      /\ log \in Seq(Event) /\ Len(log) \in Nat /\ firstEvent \in Event \cup {None}
      /\ pass \in [Pass -> PassType] /\ blind \in Nat
  <2>1. a \in Pass
    OBVIOUS
  <2>2. \A d \in Projection : meta[d].cursor \in Nat
    BY MetaFields DEF TypeOK
  <2>3. Snapshot(a) /\ NewJournal /\ Finds(a)
    BY <2>1 DEF RowsInv, FoundInv
  <2>4. QED
    BY <2>1, <2>2, <2>3 DEF TypeOK
<1>q. ASSUME UNCHANGED <<log, meta, firstEvent, stale>> PROVE NewJournal'
  BY <1>0, <1>q DEF NewJournal, FirstOf
<1>1. CASE UNCHANGED vars
  BY <1>0, <1>1 DEF vars, FoundInv, NewJournal, Finds, FirstOf
<1>2. ASSUME NEW e \in Event, Grow(e) PROVE FoundInv(a)'
  <2>1. /\ log' = Append(log, e) /\ (log = <<>> => e # firstEvent)
        /\ UNCHANGED <<meta, firstEvent, pass, stale>>
    BY <1>2 DEF Grow, Journal!Commit, store
  <2>2. Len(log') = Len(log) + 1 /\ log' # <<>>
        /\ log'[1] = IF log = <<>> THEN e ELSE log[1]
    BY <1>0, <2>1
  <2>3. NewJournal'
    BY <1>0, <2>1, <2>2 DEF NewJournal, FirstOf
  <2>4. Finds(a)'
    BY <1>0, <2>1, <2>2 DEF Finds
  <2>5. QED
    BY <2>3, <2>4 DEF FoundInv
<1>3. ASSUME NEW n \in 0..MaxLog, Replace(n) PROVE FoundInv(a)'
  <2>1. /\ n = 0 /\ log' = SubSeq(log, 1, n) /\ pass[a].pc = "idle"
        /\ firstEvent # None \/ \A d \in Projection : meta[d].cursor = 0
        /\ stale' = stale \cup {d \in Projection : meta[d].cursor > n}
        /\ UNCHANGED <<meta, firstEvent, pass>>
    BY <1>0, <1>3 DEF Replace, At, store
  <2>2. log' = <<>>
    BY <1>0, <2>1
  <2>3. NewJournal'
    BY <1>0, <2>1, <2>2 DEF NewJournal, FirstOf
  <2>4. Finds(a)'
    BY <2>1 DEF Finds
  <2>5. QED
    BY <2>3, <2>4 DEF FoundInv
<1>4. ASSUME UNCHANGED <<log, meta, firstEvent, stale>>, pass'[a].pc \in {"idle", "head"}
      PROVE  FoundInv(a)'
  BY <1>q, <1>4 DEF FoundInv, Finds
<1>5. ASSUME Request(a) PROVE FoundInv(a)'
  <2>1. UNCHANGED <<log, meta, firstEvent, stale>>
    BY <1>5 DEF Request, store
  <2>2. CASE At(a, "idle")
    BY <1>0, <1>4, <1>5, <2>1, <2>2 DEF Request, Goto, Idle
  <2>3. CASE ~At(a, "idle")
    BY <1>0, <1>5, <1>q, <2>1, <2>3 DEF Request, FoundInv, Finds
  <2>4. QED
    BY <2>2, <2>3
<1>6. ASSUME ReadHead(a) PROVE FoundInv(a)'
  <2>1. UNCHANGED <<log, meta, firstEvent, stale>>
    BY <1>6 DEF ReadHead, store
  <2>2. Goto(a, [pass[a] EXCEPT !.pc = "metas", !.head = Len(log)])
    BY <1>0, <1>6 DEF ReadHead
  <2>3. pass'[a].pc = "metas" /\ pass'[a].head = Len(log)
    BY <1>0, <2>2 DEF Goto, PassType
  <2>4. QED
    BY <1>0, <1>q, <2>1, <2>3 DEF FoundInv, Finds
<1>7. ASSUME ReadMetas(a) PROVE FoundInv(a)'
  <2>1. UNCHANGED <<log, meta, firstEvent, stale>> /\ pass[a].pc = "metas"
    BY <1>7 DEF ReadMetas, At, store
  <2>2. pass'[a].pc = "check" /\ pass'[a].head = pass[a].head
    BY <1>0, <1>7 DEF ReadMetas, Goto, PassType
  <2>3. QED
    BY <1>0, <1>q, <2>1, <2>2 DEF FoundInv, Finds
<1>8. ASSUME CheckJournal(a) PROVE FoundInv(a)'
  <2>1. UNCHANGED <<log, meta, firstEvent, stale>> /\ pass[a].pc = "check"
    BY <1>8 DEF CheckJournal, At, store
  <2>2. Goto(a, [pass[a] EXCEPT !.pc = "plan",
                   !.replaced = JournalReplaced(a, FirstOf(log))])
    BY <1>0, <1>8 DEF CheckJournal
  <2>3. stale # {} => JournalReplaced(a, FirstOf(log))
    <3> SUFFICES ASSUME stale # {} PROVE JournalReplaced(a, FirstOf(log))
      OBVIOUS
    <3>1. CASE log = <<>>
      <4>1. PICK d \in stale : TRUE
        OBVIOUS
      <4>2. pass[a].head = 0 /\ pass[a].metas[d] = meta[d] /\ meta[d].cursor > 0
        BY <1>0, <2>1, <3>1, <4>1 DEF Finds, Snapshot, NewJournal
      <4>3. QED
        BY <1>0, <4>1, <4>2 DEF JournalReplaced, NullHead
    <3>2. CASE log # <<>>
      <4>1. log[1] \in Event /\ FirstOf(log) = log[1]
        BY <1>0, <3>2 DEF FirstOf
      <4>2. QED
        BY <1>0, <4>1 DEF NewJournal, JournalReplaced
    <3>3. QED
      BY <3>1, <3>2
  <2>4. pass'[a].pc = "plan" /\ pass'[a].next = 1
        /\ pass'[a].replaced = JournalReplaced(a, FirstOf(log))
    BY <1>0, <2>1, <2>2, Zenon DEF Goto, PassType, Snapshot
  <2>5. Finds(a)'
    BY <1>0, <2>1, <2>3, <2>4 DEF Finds
  <2>6. QED
    BY <1>q, <2>1, <2>5 DEF FoundInv
<1>9. ASSUME PlanOne(a) PROVE FoundInv(a)'
  <2>1. PICK d \in Projection : d = pass[a].next
    BY <1>9 DEF PlanOne
  <2>2. pass[a].pc = "plan" /\ UNCHANGED <<log, firstEvent>>
    BY <1>9 DEF PlanOne, At
  <2>3. pass'[a].pc = "plan" /\ pass'[a].replaced = pass[a].replaced /\ pass'[a].next = d + 1
    <3>1. PICK c : Goto(a, [pass[a] EXCEPT !.next = d + 1, !.cursor = c])
      BY <1>9, <2>1 DEF PlanOne
    <3>2. QED
      BY <1>0, <2>2, <3>1 DEF Goto, PassType
  <2>4. stale' = stale \ {d} /\ \A x \in Projection : x # d => meta'[x] = meta[x]
    <3>1. CASE Fresh(a, d)
      BY <1>9, <2>1, <3>1 DEF PlanOne, TypeOK
    <3>2. CASE ~Fresh(a, d)
      <4>1. UNCHANGED <<meta, stale>> /\ ~pass[a].replaced
        BY <1>9, <2>1, <3>2 DEF PlanOne, Fresh
      <4>2. stale = {}
        BY <1>0, <2>2, <4>1 DEF Finds
      <4>3. QED
        BY <4>1, <4>2
    <3>3. QED
      BY <3>1, <3>2
  <2>5. NewJournal'
    BY <1>0, <2>2, <2>4 DEF NewJournal, FirstOf
  <2>6. Finds(a)'
    BY <1>0, <2>1, <2>2, <2>3, <2>4 DEF Finds
  <2>7. QED
    BY <2>5, <2>6 DEF FoundInv
<1>10. ASSUME stale = {}, stale' = {}, pass'[a].pc # "metas", pass'[a].pc # "check"
       PROVE  FoundInv(a)'
  BY <1>10 DEF FoundInv, NewJournal, Finds
<1>11. ASSUME RememberFirst(a) PROVE FoundInv(a)'
  <2>1. stale = {} /\ stale' = stale
    BY <1>0, <1>11 DEF RememberFirst, At, Finds
  <2>2. pass'[a].pc = "read"
    BY <1>0, <1>11 DEF RememberFirst, Goto, PassType
  <2>3. QED
    BY <1>10, <2>1, <2>2
<1>12. ASSUME ReadPage(a) \/ FoldPage(a) PROVE FoundInv(a)'
  <2>1. stale = {} /\ stale' = stale
    BY <1>0, <1>12 DEF ReadPage, FoldPage, At, Finds
  <2>2. pass'[a].pc \in {"fold", "mark", "read"}
    <3>1. ASSUME ReadPage(a) PROVE pass'[a].pc \in {"fold", "mark", "read"}
      <4>1. PICK u : \/ Goto(a, [pass[a] EXCEPT !.pc = "fold", !.upTo = u])
                     \/ Goto(a, [pass[a] EXCEPT !.pc = "mark"])
        BY <3>1 DEF ReadPage
      <4>2. \/ pass'[a] = [pass[a] EXCEPT !.pc = "fold", !.upTo = u]
            \/ pass'[a] = [pass[a] EXCEPT !.pc = "mark"]
        BY <1>0, <4>1 DEF Goto
      <4>3. pass[a] \in PassType
        BY <1>0
      <4>4. QED
        BY <4>2, <4>3 DEF PassType
    <3>2. ASSUME FoldPage(a) PROVE pass'[a].pc \in {"fold", "mark", "read"}
      BY <1>0, <3>2 DEF FoldPage, Goto, PassType
    <3>3. QED
      BY <1>12, <3>1, <3>2
  <2>3. QED
    BY <1>10, <2>1, <2>2
<1>13. ASSUME Finish(a) PROVE pass'[a].pc \in {"idle", "head"}
  BY <1>0, <1>13 DEF Finish, Goto, Idle
<1>14. ASSUME MarkCaughtUp(a) PROVE FoundInv(a)'
  <2>1. stale = {} /\ stale' = stale
    BY <1>0, <1>14 DEF MarkCaughtUp, At, Finds
  <2>2. QED
    BY <1>10, <1>13, <1>14, <2>1 DEF MarkCaughtUp
<1>15. ASSUME Interrupt(a) \/ Fail(a) PROVE FoundInv(a)'
  BY <1>4, <1>13, <1>15 DEF Interrupt, Fail, store
<1>16. ASSUME NEW b \in Build, Restart(a, b) PROVE FoundInv(a)'
  <2>1. UNCHANGED <<log, meta, firstEvent, stale>> /\ Goto(a, Idle)
    BY <1>16 DEF Restart, store
  <2>2. QED
    BY <1>0, <1>4, <2>1 DEF Goto, Idle
<1>17. QED
  BY <1>1, <1>2, <1>3, <1>5, <1>6, <1>7, <1>8, <1>9, <1>11, <1>12, <1>14, <1>15, <1>16
     DEF Next, PassStep

\* catch-up.ts, journalReplaced: with one process running passes, no page of a
\* journal is folded onto rows that describe another, however often the file is
\* recreated and whatever is interrupted or killed in between.  It takes that
\* the new journal starts with another event than the one remembered, that one
\* was remembered when it came, and that the reads that look for it succeed:
\* without any of the three it does not hold.
THEOREM ReplacementsAreFound ==
  ASSUME NEW a, Pass = {a}, ~SameStart, ~EmptyStart, MaxBlind = 0
  PROVE  Spec => []ReplacementFound
<1>1. Init => RowsInv /\ FoundInv(a)
  <2> SUFFICES ASSUME Init PROVE RowsInv /\ FoundInv(a)
    OBVIOUS
  <2>1. RowsInv
    BY DEF Init, Idle, Snapshot, Planned, IsPlanned, Journal!Init, NoMetas, Unknown,
           Folded, FoldOf, RowsInv
  <2>2. FoundInv(a)
    BY DEF Init, Idle, FoundInv, NewJournal, Finds
  <2>3. QED
    BY <2>1, <2>2
<1>2. TypeOK /\ PageInLog /\ RowsInv /\ [Next]_vars => RowsInv'
  BY RowsStep
<1>3. TypeOK /\ RowsInv /\ FoundInv(a) /\ [Next]_vars => FoundInv(a)'
  BY FoundStep
<1>4. FoundInv(a) => ReplacementFound
  BY DEF FoundInv, Finds, ReplacementFound
<1>5. QED
  BY <1>1, <1>2, <1>3, <1>4, TypeCorrect, PTL DEF Spec
=============================================================================
