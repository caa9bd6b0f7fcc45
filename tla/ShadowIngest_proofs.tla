-------------------------- MODULE ShadowIngest_proofs --------------------------
(***************************************************************************)
(* Proofs about ShadowIngest, for every set of transcripts and of session  *)
(* lists, any number of journal files, lines, faults and crashes, and any  *)
(* length of the run.                                                      *)
(*                                                                         *)
(* That no list is lost and that a replay starts where an accepted one     *)
(* ended holds whatever happens.  That the stamps tell the truth needs     *)
(* that the journal's file is not replaced under a running server, and     *)
(* that a crash takes nothing of the journal (~LiveSwap, ~PowerLoss).      *)
(* That what is skipped is complete needs besides that the time from a     *)
(* replay's read to its stamp is covered by the margin beyond the settle   *)
(* window: the code compares the stamp's own time with the file's, not the *)
(* time the file was read (Quick).                                         *)
(***************************************************************************)
EXTENDS ShadowIngest, TLAPS

-----------------------------------------------------------------------------
(***************************************************************************)
(* The inductive invariant, part by part.                                  *)
(***************************************************************************)

\* The replay reads no earlier than MaxLag before its stamp, and the margin
\* covers that lag and the settle window.
Quick == MaxLag + Settle <= SettleMargin

\* A run has the journal open, the stamps loaded and the file's identity;
\* what is not loaded is empty.
RunInv ==
  /\ pc \in {"load", "scan", "plan", "work"} => handle # None
  /\ pc \in {"scan", "plan", "work"} => loaded
  /\ loaded => handle # None
  /\ ~loaded => known = NoStamps
  /\ handle = None => \A s \in Source : cursor[s] = 0
  /\ pc # "work" => \A s \in Source : work[s].st = "out"

\* While a run goes on, the newest list is in the slot or being worked on.
NewestInv ==
  IF pc = "idle" THEN ran = newest
  ELSE newest = IF pending = None THEN list ELSE pending

\* What is read of a source is in the journal or on its way to it, unless the
\* journal dropped some of it.
Going(s) == work[s].st \in {"read", "append"}
Whole(s) == work[s].st = "append" => dropped = work[s].before
Covered(s, e) == e \in content[handle] \/ e \in work[s].events

CursorInv ==
  \A s \in Source :
    /\ handle # None => Stored(handle, s, cursor[s])
    /\ work[s].st = "append" => work[s].before <= dropped
    /\ Going(s) /\ Whole(s) => \A k \in 1..work[s].upTo : Covered(s, Line(s, k))

\* The journal of this process, and its run, are of the file at the path.
PathInv ==
  /\ handle # None => handle = path
  /\ pc \in {"scan", "plan", "work"} => id \in {path, None}

\* What a scan read is not ahead of the transcript, and what a replay read is
\* not behind the scan.
ScanInv ==
  \A s \in Source :
    /\ scan[s].size <= lines[s]
    /\ Going(s) =>
         /\ scan[s].size <= work[s].upTo /\ work[s].upTo <= lines[s]
         /\ work[s].read <= now /\ now <= work[s].read + MaxLag

\* What a stamp of source s promises of a journal that holds the events c, of
\* a transcript of n lines last written at m.
Promise(c, n, m, s, stamp) ==
  stamp.set =>
    /\ stamp.size <= n
    /\ \A k \in 1..stamp.size : Line(s, k) \in c
    /\ Quick /\ stamp.size = n /\ stamp.at >= m + SettleMargin => End(s, n) \in c

Described(f, s, stamp) == Promise(content[f], lines[s], mtime[s], s, stamp)

KnownInv ==
  handle # None => \A s \in Source : Described(handle, s, known[s])

StampFileInv ==
  stampFile.id # None =>
    \A s \in Source : Described(stampFile.id, s, stampFile.stamps[s])

\* The end of a transcript that was read settled is in the journal or on its
\* way to it.
EndInv ==
  \A s \in Source :
    /\ Going(s) /\ Whole(s)
    /\ work[s].upTo = lines[s] /\ work[s].read >= mtime[s] + Settle
    => Covered(s, End(s, lines[s]))

-----------------------------------------------------------------------------
(***************************************************************************)
(* Types.                                                                  *)
(***************************************************************************)

\* What a source's share of a run is a record of.
Work == [st : {"out", "todo", "read", "append"}, upTo : Nat, events : SUBSET Event,
         before : Nat, read : Nat]

\* What a replay answers are events.
LEMMA ReplayType ==
  ASSUME TypeOK, NEW s \in Source, NEW from \in Nat
  PROVE  Replay(s, from) \subseteq Event
<1>1. \A n \in 1..MaxLines : Line(s, n) \in Event /\ End(s, n) \in Event
  BY DEF Line, End, Event
<1>2. lines[s] \in 1..MaxLines
  BY DEF TypeOK
<1>3. (from + 1)..lines[s] \subseteq 1..MaxLines
  BY <1>2, ShadowAssumption
<1>4. QED
  BY <1>1, <1>2, <1>3 DEF Replay

\* The empty stamps, scan and work are of their types.
LEMMA EmptyTypes ==
  /\ NoStamps \in [Source -> Stamp]
  /\ NoScan \in [Source -> [size : Nat, mtime : Nat]]
  /\ Untouched \in Work
BY DEF NoStamps, Stamp, NoScan, Untouched, Work

\* Init is typed.
LEMMA TypeInit == Init => TypeOK
<1> SUFFICES ASSUME Init PROVE TypeOK
  OBVIOUS
<1>1. /\ now \in Nat /\ lines \in [Source -> 1..MaxLines] /\ mtime \in [Source -> Nat]
      /\ path \in File /\ content \in [File -> SUBSET Event]
      /\ dropped \in Nat /\ cursor \in [Source -> Nat] /\ faults \in Nat
      /\ newest \in SUBSET Source /\ ran \in SUBSET Source
  BY ShadowAssumption DEF Init, File
<1>2. /\ stampFile \in [id : File \cup {None}, stamps : [Source -> Stamp]]
      /\ known \in [Source -> Stamp] /\ scan \in [Source -> [size : Nat, mtime : Nat]]
      /\ work \in [Source -> Work]
  BY EmptyTypes DEF Init
<1>3. loaded \in BOOLEAN
  BY Zenon DEF Init
<1>4. QED
  BY <1>1, <1>2, <1>3 DEF Init, TypeOK, Work

\* The end of a run keeps the types of what it changes.
LEMMA EndRunType ==
  ASSUME TypeOK, EndRun
  PROVE  /\ pc' \in {"idle", "open"} /\ list' \in SUBSET Source
         /\ pending' = None /\ id' = None
         /\ scan' \in [Source -> [size : Nat, mtime : Nat]]
         /\ work' \in [Source -> Work]
         /\ ran' \in SUBSET Source /\ newest' = newest /\ dropped' = 0
<1>1. scan' \in [Source -> [size : Nat, mtime : Nat]] /\ work' \in [Source -> Work]
  BY EmptyTypes DEF EndRun
<1>2. list' \in SUBSET Source
  BY ShadowAssumption DEF EndRun, TypeOK
<1>3. QED
  BY <1>1, <1>2 DEF EndRun, TypeOK

\* Every step keeps the types.
LEMMA TypeStep ==
  ASSUME TypeOK, [Next]_vars
  PROVE  TypeOK'
<1> USE DEF TypeOK, transcripts, disk, memory, ingest, history
<1>0. TypeOK => work \in [Source -> Work]
  BY DEF Work
<1>1. CASE UNCHANGED vars
  BY <1>1 DEF vars
<1>2. CASE Tick
  BY <1>2 DEF Tick
<1>3. ASSUME NEW s \in Source, WriteLine(s) PROVE TypeOK'
  BY <1>3, ShadowAssumption DEF WriteLine
<1>4. CASE ReplaceFile
  BY <1>4, ShadowAssumption DEF ReplaceFile, File
<1>5. CASE Crash
  <2>1. /\ scan' \in [Source -> [size : Nat, mtime : Nat]]
        /\ work' \in [Source -> Work] /\ known' \in [Source -> Stamp]
    BY <1>5, EmptyTypes DEF Crash
  <2>2. content' \in [File -> SUBSET Event]
    BY <1>5 DEF Crash
  <2>3. loaded' \in BOOLEAN
    BY <1>5, Zenon DEF Crash
  <2>4. faults' \in Nat
    BY <1>5 DEF Crash, Fault
  <2>5. QED
    BY <1>5, <2>1, <2>2, <2>3, <2>4 DEF Crash, Work
<1>6. ASSUME NEW l \in Lists, Ingest(l) PROVE TypeOK'
  BY <1>6, ShadowAssumption DEF Ingest
<1>7. CASE OpenJournal \/ OpenDisabled
  <2>1. disabled' \in BOOLEAN
    BY <1>7, Zenon DEF OpenJournal, OpenDisabled
  <2>2. faults' \in Nat
    BY <1>7 DEF OpenJournal, OpenDisabled, Fault
  <2>3. QED
    BY <1>7, <2>1, <2>2 DEF OpenJournal, OpenDisabled
<1>8. CASE DiscoverThrows
  BY <1>8, EndRunType DEF DiscoverThrows, Fault, Work
<1>9. CASE LoadStamps
  <2>1. known' \in [Source -> Stamp]
    BY <1>9, EmptyTypes DEF LoadStamps, PersistedStamps
  <2>2. loaded' \in BOOLEAN
    BY <1>9, Zenon DEF LoadStamps
  <2>3. QED
    BY <1>9, <2>1, <2>2 DEF LoadStamps
<1>10. CASE ScanStamps
  <2>1. \A s \in Source : StampOf(s) \in [size : Nat, mtime : Nat]
    BY DEF StampOf
  <2>2. QED
    BY <1>10, <2>1 DEF ScanStamps
<1>11. CASE PlanRun
  <2>1. work' \in [Source -> Work]
    BY <1>11, EmptyTypes DEF PlanRun, Untouched, Work
  <2>2. known' \in [Source -> Stamp]
    BY <1>11, EmptyTypes DEF PlanRun
  <2>3. cursor' \in [Source -> Nat]
    BY <1>11 DEF PlanRun
  <2>4. QED
    BY <1>11, <2>1, <2>2, <2>3 DEF PlanRun, Work
<1>12. CASE WriteStamps
  <2>1. stampFile' \in [id : File \cup {None}, stamps : [Source -> Stamp]]
    BY <1>12 DEF WriteStamps, Fault
  <2>2. faults' \in Nat
    BY <1>12 DEF WriteStamps, Fault
  <2>3. QED
    BY <1>12, <2>1, <2>2, EndRunType DEF WriteStamps, Work
<1>13. ASSUME NEW s \in Source, ReadTranscript(s) PROVE TypeOK'
  <2>1. Replay(s, cursor[s]) \subseteq Event
    BY ReplayType
  <2>2. work' \in [Source -> Work]
    BY <1>0, <1>13, <2>1 DEF ReadTranscript, SetWork, Work
  <2>3. QED
    BY <1>13, <2>2 DEF ReadTranscript, Work
<1>14. ASSUME NEW s \in Source, ReplayThrows(s) PROVE TypeOK'
  <2>1. work' \in [Source -> Work]
    BY <1>0, <1>14, EmptyTypes DEF ReplayThrows, SetWork
  <2>2. QED
    BY <1>14, <2>1 DEF ReplayThrows, Fault, Work
<1>15. ASSUME NEW s \in Source, StartAppending(s) PROVE TypeOK'
  <2>1. work' \in [Source -> Work]
    BY <1>0, <1>15 DEF StartAppending, SetWork, Work
  <2>2. QED
    BY <1>15, <2>1 DEF StartAppending, Work
<1>16. ASSUME NEW s \in Source, NEW e \in work[s].events, AppendSlice(s, e) PROVE TypeOK'
  <2>1. work' \in [Source -> Work]
    BY <1>0, <1>16 DEF AppendSlice, SetWork, Work
  <2>2. e \in Event
    OBVIOUS
  <2>3. content' \in [File -> SUBSET Event]
    BY <1>16, <2>2 DEF AppendSlice
  <2>4. dropped' \in Nat /\ faults' \in Nat
    BY <1>16 DEF AppendSlice, Fault
  <2>5. QED
    BY <1>16, <2>1, <2>3, <2>4 DEF AppendSlice, Work
<1>17. ASSUME NEW s \in Source, Accept(s) PROVE TypeOK'
  <2>1. work' \in [Source -> Work]
    BY <1>0, <1>17, EmptyTypes DEF Accept, SetWork
  <2>2. known' \in [Source -> Stamp]
    BY <1>17 DEF Accept, Stamp
  <2>3. cursor' \in [Source -> Nat]
    BY <1>17 DEF Accept
  <2>4. QED
    BY <1>17, <2>1, <2>2, <2>3 DEF Accept, Work
<1>18. QED
  BY <1>1, <1>2, <1>3, <1>4, <1>5, <1>6, <1>7, <1>8, <1>9, <1>10, <1>11, <1>12,
     <1>13, <1>14, <1>15, <1>16, <1>17
     DEF Next, RunStep, SourceStep

\* Every variable of the shadow writer keeps its type.
THEOREM ShadowTypes == Spec => []TypeOK
<1>1. QED
  BY TypeInit, TypeStep, PTL DEF Spec

-----------------------------------------------------------------------------
(***************************************************************************)
(* Runs, and the lists they are for.                                       *)
(***************************************************************************)

\* The end of a run leaves nothing in progress.
LEMMA RunEnds ==
  ASSUME EndRun
  PROVE  /\ pc' \in {"idle", "open"}
         /\ \A s \in Source : work'[s].st = "out"
BY DEF EndRun, Untouched

\* Every step keeps what is open and loaded.
LEMMA RunKept ==
  ASSUME TypeOK, RunInv, [Next]_vars
  PROVE  RunInv'
<1> USE DEF RunInv, transcripts, disk, memory, ingest, history
<1>0. None \notin File /\ path \in File
  BY ShadowAssumption DEF TypeOK
<1>1. CASE UNCHANGED vars
  BY <1>1 DEF vars
<1>2. CASE Tick \/ ReplaceFile \/ \E s \in Source : WriteLine(s)
  BY <1>2 DEF Tick, ReplaceFile, WriteLine
<1>3. CASE Crash
  BY <1>3 DEF Crash, Untouched
<1>4. ASSUME NEW l \in Lists, Ingest(l) PROVE RunInv'
  BY <1>4 DEF Ingest
<1>5. CASE OpenJournal \/ OpenDisabled
  BY <1>0, <1>5 DEF OpenJournal, OpenDisabled
<1>6. CASE DiscoverThrows
  BY <1>6, RunEnds DEF DiscoverThrows
<1>7. CASE LoadStamps
  BY <1>0, <1>7 DEF LoadStamps
<1>8. CASE ScanStamps
  BY <1>8 DEF ScanStamps
<1>9. CASE PlanRun
  BY <1>9 DEF PlanRun
<1>10. CASE WriteStamps
  BY <1>10, RunEnds DEF WriteStamps
<1>11. ASSUME NEW s \in Source, ReadTranscript(s) \/ StartAppending(s) \/ ReplayThrows(s)
       PROVE  RunInv'
  BY <1>11 DEF ReadTranscript, StartAppending, ReplayThrows, SetWork
<1>12. ASSUME NEW s \in Source, NEW e \in work[s].events, AppendSlice(s, e) PROVE RunInv'
  BY <1>12 DEF AppendSlice, SetWork
<1>13. ASSUME NEW s \in Source, Accept(s) PROVE RunInv'
  BY <1>13 DEF Accept, SetWork
<1>14. QED
  BY <1>1, <1>2, <1>3, <1>4, <1>5, <1>6, <1>7, <1>8, <1>9, <1>10, <1>11, <1>12, <1>13
     DEF Next, RunStep, SourceStep

\* Every step keeps the newest list in the slot or in the run, or run.
LEMMA NewestKept ==
  ASSUME TypeOK, NewestInv, [Next]_vars
  PROVE  NewestInv'
<1> USE DEF NewestInv, transcripts, disk, memory, ingest, history
<1>1. CASE UNCHANGED vars
  BY <1>1 DEF vars
<1>2. CASE Tick \/ ReplaceFile \/ \E s \in Source : WriteLine(s)
  BY <1>2 DEF Tick, ReplaceFile, WriteLine
<1>3. CASE Crash
  BY <1>3 DEF Crash
<1>4. ASSUME NEW l \in Lists, Ingest(l) PROVE NewestInv'
  BY <1>4, ShadowAssumption DEF Ingest
<1>5. CASE OpenJournal \/ OpenDisabled \/ LoadStamps \/ ScanStamps \/ PlanRun
  BY <1>5 DEF OpenJournal, OpenDisabled, LoadStamps, ScanStamps, PlanRun
<1>6. CASE DiscoverThrows \/ WriteStamps
  <2>1. EndRun /\ pc # "idle"
    BY <1>6 DEF DiscoverThrows, WriteStamps
  <2>2. QED
    BY <2>1 DEF EndRun
<1>7. ASSUME NEW s \in Source, SourceStep(s) PROVE NewestInv'
  BY <1>7 DEF SourceStep, ReadTranscript, StartAppending, ReplayThrows, AppendSlice, Accept
<1>8. QED
  BY <1>1, <1>2, <1>3, <1>4, <1>5, <1>6, <1>7 DEF Next, RunStep

\* shadow.ts: when no ingest runs, the list that was run last is the newest
\* that any build offered, however the runs ended.
THEOREM NoListIsLost == Spec => []NewestListRan
<1>1. Init => NewestInv
  BY DEF Init, NewestInv
<1>2. TypeOK /\ NewestInv /\ [Next]_vars => NewestInv'
  BY NewestKept
<1>3. NewestInv => NewestListRan
  BY DEF NewestInv, NewestListRan
<1>4. QED
  BY <1>1, <1>2, <1>3, ShadowTypes, PTL DEF Spec

-----------------------------------------------------------------------------
(***************************************************************************)
(* Cursors.                                                                *)
(***************************************************************************)

\* A replay answers every line after its cursor.
LEMMA ReplayCovers ==
  ASSUME TypeOK, NEW s \in Source, NEW from \in Nat, NEW k \in 1..lines[s]
  PROVE  k \in 1..from \/ Line(s, k) \in Replay(s, from)
<1>1. lines[s] \in Nat
  BY ShadowAssumption DEF TypeOK
<1>2. k \in 1..from \/ k \in (from + 1)..lines[s]
  BY <1>1
<1>3. QED
  BY <1>2 DEF Replay

\* A step that leaves the journal, the cursors and the work alone.
LEMMA CursorUntouched ==
  ASSUME CursorInv, UNCHANGED <<content, handle, dropped, cursor, work>>
  PROVE  CursorInv'
BY DEF CursorInv, Stored, Going, Whole, Covered, Line

\* Every step keeps what is behind a cursor in the journal, and what was read
\* in it or on its way.
LEMMA CursorKept ==
  ASSUME TypeOK, RunInv, CursorInv, [Next]_vars
  PROVE  CursorInv'
<1> USE DEF transcripts, disk, memory, ingest, history
<1> DEFINE Of(s) ==
      /\ handle # None => Stored(handle, s, cursor[s])
      /\ work[s].st = "append" => work[s].before <= dropped
      /\ Going(s) /\ Whole(s) => \A k \in 1..work[s].upTo : Covered(s, Line(s, k))
<1>0. /\ \A s \in Source : Of(s)
      /\ work \in [Source -> Work] /\ dropped \in Nat /\ cursor \in [Source -> Nat]
  BY DEF CursorInv, TypeOK, Work
<1>1. CASE UNCHANGED vars
  BY <1>1, CursorUntouched DEF vars
<1>2. CASE Tick \/ ReplaceFile \/ \E s \in Source : WriteLine(s)
  BY <1>2, CursorUntouched DEF Tick, ReplaceFile, WriteLine
<1>3. CASE LoadStamps \/ ScanStamps \/ \E l \in Lists : Ingest(l)
  BY <1>3, CursorUntouched DEF LoadStamps, ScanStamps, Ingest
<1>4. CASE Crash
  BY <1>4 DEF Crash, CursorInv, Going, Untouched
<1>5. CASE OpenJournal \/ OpenDisabled
  <2>1. CASE handle # None
    BY <1>5, <2>1, CursorUntouched DEF OpenJournal, OpenDisabled
  <2>2. CASE handle = None
    <3>1. \A s \in Source : cursor'[s] = 0 /\ work'[s].st = "out"
      BY <1>5, <2>2 DEF OpenJournal, OpenDisabled, RunInv
    <3>2. QED
      BY <3>1 DEF CursorInv, Stored, Going
  <2>3. QED
    BY <2>1, <2>2
<1>6. CASE DiscoverThrows \/ WriteStamps
  <2>1. /\ UNCHANGED <<content, handle, cursor>>
        /\ \A s \in Source : work'[s].st = "out"
    BY <1>6, RunEnds DEF DiscoverThrows, WriteStamps
  <2>2. QED
    BY <1>0, <2>1 DEF CursorInv, Stored, Going, Line
<1>7. CASE PlanRun
  <2>1. /\ UNCHANGED <<content, handle, dropped>>
        /\ \A s \in Source : work'[s].st \in {"out", "todo"} /\ cursor'[s] \in {0, cursor[s]}
    BY <1>7 DEF PlanRun, Untouched
  <2>2. QED
    BY <1>0, <2>1 DEF CursorInv, Stored, Going, Line
<1>8. ASSUME NEW s \in Source, ReadTranscript(s) PROVE CursorInv'
  <2>1. /\ UNCHANGED <<content, handle, dropped, cursor>> /\ handle # None
        /\ work'[s].st = "read" /\ work'[s].upTo = lines[s]
        /\ work'[s].events = Replay(s, cursor[s])
        /\ \A q \in Source \ {s} : work'[q] = work[q]
    BY <1>0, <1>8 DEF ReadTranscript, SetWork, RunInv
  <2>2. Stored(handle, s, cursor[s]) /\ cursor[s] \in Nat
    BY <1>0, <2>1
  <2>3. \A k \in 1..lines[s] : Covered(s, Line(s, k))'
    <3>1. ASSUME NEW k \in 1..lines[s]
          PROVE  Line(s, k) \in content[handle] \/ Line(s, k) \in Replay(s, cursor[s])
      BY <2>2, ReplayCovers DEF Stored
    <3>2. QED
      BY <2>1, <3>1 DEF Covered, Line
  <2>4. Of(s)'
    BY <2>1, <2>2, <2>3 DEF Stored, Line
  <2>5. \A q \in Source \ {s} : Of(q)'
    BY <1>0, <2>1 DEF Stored, Going, Whole, Covered, Line
  <2>6. QED
    BY <2>4, <2>5 DEF CursorInv
<1>9. ASSUME NEW s \in Source, ReplayThrows(s) PROVE CursorInv'
  <2>1. /\ UNCHANGED <<content, handle, dropped, cursor>> /\ work'[s].st = "out"
        /\ \A q \in Source \ {s} : work'[q] = work[q]
    BY <1>0, <1>9 DEF ReplayThrows, SetWork, Untouched
  <2>2. QED
    BY <1>0, <2>1 DEF CursorInv, Stored, Going, Whole, Covered, Line
<1>10. ASSUME NEW s \in Source, StartAppending(s) PROVE CursorInv'
  <2>1. /\ UNCHANGED <<content, handle, dropped, cursor>>
        /\ work[s].st = "read" /\ work'[s].st = "append" /\ work'[s].before = dropped
        /\ work'[s].events = work[s].events /\ work'[s].upTo = work[s].upTo
        /\ \A q \in Source \ {s} : work'[q] = work[q]
    BY <1>0, <1>10 DEF StartAppending, SetWork, Work
  <2>2. QED
    BY <1>0, <2>1 DEF CursorInv, Stored, Going, Whole, Covered, Line
<1>11. ASSUME NEW s \in Source, NEW e \in work[s].events, AppendSlice(s, e) PROVE CursorInv'
  <2>1. /\ UNCHANGED <<handle, cursor>> /\ work[s].st = "append"
        /\ work'[s].st = "append" /\ work'[s].before = work[s].before
        /\ work'[s].events = work[s].events \ {e} /\ work'[s].upTo = work[s].upTo
        /\ \A q \in Source \ {s} : work'[q] = work[q]
        /\ handle \in File
    BY <1>0, <1>11 DEF AppendSlice, SetWork, Work, RunInv, TypeOK
  <2>2. CASE content' = [content EXCEPT ![handle] = @ \cup {e}] /\ dropped' = dropped
    <3>1. content'[handle] = content[handle] \cup {e}
      BY <2>1, <2>2 DEF TypeOK
    <3>2. QED
      BY <1>0, <2>1, <2>2, <3>1 DEF CursorInv, Stored, Going, Whole, Covered, Line
  <2>3. CASE content' = content /\ dropped' = dropped + 1
    <3>1. work[s].before \in Nat /\ \A q \in Source : work[q].before \in Nat
      BY <1>0 DEF Work
    <3>2. \A q \in Source : work'[q].st = "append" => ~Whole(q)'
      BY <1>0, <2>1, <2>3, <3>1 DEF Whole
    <3>3. \A q \in Source : Of(q)'
      <4>1. ASSUME NEW q \in Source PROVE work'[q].st = "append" => work'[q].before <= dropped'
        BY <1>0, <2>1, <2>3, <3>1
      <4>2. Of(s)'
        BY <1>0, <2>1, <2>3, <3>2, <4>1 DEF Stored, Line
      <4>3. ASSUME NEW q \in Source \ {s} PROVE Of(q)'
        BY <1>0, <2>1, <2>3, <3>2, <4>1 DEF Stored, Going, Whole, Covered, Line
      <4>4. QED
        BY <4>2, <4>3
    <3>4. QED
      BY <3>3 DEF CursorInv
  <2>4. QED
    BY <1>11, <2>2, <2>3 DEF AppendSlice
<1>12. ASSUME NEW s \in Source, Accept(s) PROVE CursorInv'
  <2>1. /\ UNCHANGED <<content, handle, dropped>> /\ work'[s].st = "out"
        /\ work[s].st = "append" /\ work[s].events = {}
        /\ \A q \in Source \ {s} : work'[q] = work[q] /\ cursor'[q] = cursor[q]
        /\ cursor'[s] = IF Taken(s) THEN work[s].upTo ELSE cursor[s]
    BY <1>0, <1>12 DEF Accept, SetWork, Untouched
  <2>2. handle # None => Stored(handle, s, cursor'[s])
    <3>1. CASE Taken(s)
      BY <1>0, <2>1, <3>1 DEF Taken, Stored, Going, Whole, Covered
    <3>2. CASE ~Taken(s)
      BY <1>0, <2>1, <3>2
    <3>3. QED
      BY <3>1, <3>2
  <2>3. Of(s)'
    BY <2>1, <2>2 DEF Stored, Going, Line
  <2>4. \A q \in Source \ {s} : Of(q)'
    BY <1>0, <2>1 DEF Stored, Going, Whole, Covered, Line
  <2>5. QED
    BY <2>3, <2>4 DEF CursorInv
<1>13. QED
  BY <1>1, <1>2, <1>3, <1>4, <1>5, <1>6, <1>7, <1>8, <1>9, <1>10, <1>11, <1>12
     DEF Next, RunStep, SourceStep

\* What does not depend on faults and crashes.
BaseInv == TypeOK /\ RunInv /\ CursorInv

\* It holds at the start, and every step keeps it.
LEMMA BaseHolds == Spec => []BaseInv
<1>1. Init => BaseInv
  <2>1. Init => RunInv /\ CursorInv
    BY DEF Init, RunInv, CursorInv, Untouched, Going, Stored
  <2>2. QED
    BY <2>1, TypeInit DEF BaseInv
<1>2. BaseInv /\ [Next]_vars => BaseInv'
  BY TypeStep, RunKept, CursorKept DEF BaseInv
<1>3. QED
  BY <1>1, <1>2, PTL DEF Spec

\* shadow.ts: a replay starts where an accepted one ended; whatever was
\* dropped, thrown or lost in a crash, no line behind a cursor is missing in
\* the journal this process writes.
THEOREM NothingBehindACursorIsMissing == Spec => []CursorBehindJournal
<1>1. BaseInv => CursorBehindJournal
  BY DEF BaseInv, CursorInv, CursorBehindJournal
<1>2. QED
  BY <1>1, BaseHolds, PTL

-----------------------------------------------------------------------------
(***************************************************************************)
(* Stamps.                                                                 *)
(***************************************************************************)

\* Every step keeps the journal, and its run, of the file at the path.
LEMMA PathKept ==
  ASSUME RunInv, PathInv, ~LiveSwap, [Next]_vars
  PROVE  PathInv'
<1> USE DEF PathInv, transcripts, disk, memory, ingest, history
<1>1. CASE UNCHANGED vars
  BY <1>1 DEF vars
<1>2. CASE Tick \/ \E s \in Source : WriteLine(s)
  BY <1>2 DEF Tick, WriteLine
<1>3. CASE ReplaceFile
  BY <1>3 DEF ReplaceFile, RunInv
<1>4. CASE Crash \/ \E l \in Lists : Ingest(l)
  BY <1>4 DEF Crash, Ingest
<1>5. CASE OpenJournal \/ OpenDisabled \/ LoadStamps \/ ScanStamps \/ PlanRun
  BY <1>5 DEF OpenJournal, OpenDisabled, LoadStamps, ScanStamps, PlanRun, RunInv
<1>6. CASE DiscoverThrows \/ WriteStamps
  BY <1>6 DEF DiscoverThrows, WriteStamps, EndRun
<1>7. ASSUME NEW s \in Source, SourceStep(s) PROVE PathInv'
  BY <1>7 DEF SourceStep, ReadTranscript, StartAppending, ReplayThrows, AppendSlice, Accept
<1>8. QED
  BY <1>1, <1>2, <1>3, <1>4, <1>5, <1>6, <1>7 DEF Next, RunStep

\* Every step keeps what was scanned behind what was read, and both behind
\* the transcript.
LEMMA ScanKept ==
  ASSUME TypeOK, ScanInv, RunInv, [Next]_vars
  PROVE  ScanInv'
<1> USE DEF transcripts, disk, memory, ingest, history
<1> DEFINE Of(s) ==
      /\ scan[s].size <= lines[s]
      /\ Going(s) =>
           /\ scan[s].size <= work[s].upTo /\ work[s].upTo <= lines[s]
           /\ work[s].read <= now /\ now <= work[s].read + MaxLag
<1>0. /\ \A s \in Source : Of(s) /\ lines[s] \in Nat
      /\ work \in [Source -> Work] /\ scan \in [Source -> [size : Nat, mtime : Nat]]
      /\ now \in Nat /\ MaxLag \in Nat /\ lines \in [Source -> 1..MaxLines]
  BY ShadowAssumption DEF ScanInv, TypeOK, Work
<1>1. CASE UNCHANGED <<lines, now, scan, work>>
  BY <1>0, <1>1 DEF ScanInv, Going
<1>2. CASE Tick
  BY <1>0, <1>2 DEF Tick, ScanInv, Going, InFlight, Work
<1>3. ASSUME NEW s \in Source, WriteLine(s) PROVE ScanInv'
  <2>1. /\ \A q \in Source : lines'[q] \in Nat /\ lines[q] <= lines'[q]
        /\ UNCHANGED <<now, scan, work>>
    BY <1>0, <1>3 DEF WriteLine
  <2>2. \A q \in Source : work[q].upTo \in Nat /\ scan[q].size \in Nat
    BY <1>0 DEF Work
  <2>3. QED
    BY <1>0, <2>1, <2>2 DEF ScanInv, Going
<1>4. CASE Crash \/ DiscoverThrows \/ WriteStamps
  <2>1. /\ UNCHANGED lines
        /\ \A s \in Source : scan'[s].size = 0 /\ work'[s].st = "out"
    BY <1>4 DEF Crash, DiscoverThrows, WriteStamps, EndRun, NoScan, Untouched
  <2>2. QED
    BY <1>0, <2>1 DEF ScanInv, Going
<1>5. CASE ScanStamps
  <2>1. /\ UNCHANGED <<lines, work>>
        /\ \A s \in Source : scan'[s].size = lines[s] /\ work[s].st = "out"
    BY <1>5 DEF ScanStamps, StampOf, RunInv
  <2>2. QED
    BY <1>0, <2>1 DEF ScanInv, Going
<1>6. CASE PlanRun
  <2>1. /\ UNCHANGED <<lines, scan>>
        /\ \A s \in Source : work'[s].st \in {"out", "todo"}
    BY <1>6 DEF PlanRun, Untouched
  <2>2. QED
    BY <1>0, <2>1 DEF ScanInv, Going
<1>7. ASSUME NEW s \in Source, ReadTranscript(s) PROVE ScanInv'
  <2>1. /\ UNCHANGED <<lines, now, scan>>
        /\ work'[s].upTo = lines[s] /\ work'[s].read = now
        /\ \A q \in Source \ {s} : work'[q] = work[q]
    BY <1>0, <1>7 DEF ReadTranscript, SetWork
  <2>2. QED
    BY <1>0, <2>1 DEF ScanInv, Going
<1>8. ASSUME NEW s \in Source, StartAppending(s) PROVE ScanInv'
  <2>1. /\ UNCHANGED <<lines, now, scan>> /\ Going(s)
        /\ work'[s].upTo = work[s].upTo /\ work'[s].read = work[s].read
        /\ \A q \in Source \ {s} : work'[q] = work[q]
    BY <1>0, <1>8 DEF StartAppending, SetWork, Work, Going
  <2>2. QED
    BY <1>0, <2>1 DEF ScanInv, Going
<1>9. ASSUME NEW s \in Source, NEW e \in work[s].events, AppendSlice(s, e) PROVE ScanInv'
  <2>1. /\ UNCHANGED <<lines, now, scan>> /\ Going(s)
        /\ work'[s].upTo = work[s].upTo /\ work'[s].read = work[s].read
        /\ \A q \in Source \ {s} : work'[q] = work[q]
    BY <1>0, <1>9 DEF AppendSlice, SetWork, Work, Going
  <2>2. QED
    BY <1>0, <2>1 DEF ScanInv, Going
<1>10. ASSUME NEW s \in Source, ReplayThrows(s) \/ Accept(s) PROVE ScanInv'
  <2>1. /\ UNCHANGED <<lines, now, scan>> /\ work'[s].st = "out"
        /\ \A q \in Source \ {s} : work'[q] = work[q]
    BY <1>0, <1>10 DEF ReplayThrows, Accept, SetWork, Untouched
  <2>2. QED
    BY <1>0, <2>1 DEF ScanInv, Going
<1>11. CASE UNCHANGED vars \/ ReplaceFile \/ OpenJournal \/ OpenDisabled \/ LoadStamps
            \/ \E l \in Lists : Ingest(l)
  BY <1>1, <1>11 DEF vars, ReplaceFile, OpenJournal, OpenDisabled, LoadStamps, Ingest
<1>12. QED
  BY <1>2, <1>3, <1>4, <1>5, <1>6, <1>7, <1>8, <1>9, <1>10, <1>11
     DEF Next, RunStep, SourceStep

\* A journal that only gains keeps a stamp's promise, of a transcript that
\* stands still and of one that goes on.
LEMMA PromiseStays ==
  ASSUME NEW c, NEW d, c \subseteq d, NEW n \in Nat, NEW m \in Nat, NEW o \in Nat,
         NEW q \in Nat, (o = n /\ q = m) \/ n < o, NEW s \in Source, NEW stamp \in Stamp,
         Promise(c, n, m, s, stamp)
  PROVE  Promise(d, o, q, s, stamp)
<1>1. stamp.size \in Nat
  BY DEF Stamp
<1>2. QED
  BY <1>1 DEF Promise

\* The empty stamps promise nothing.
LEMMA NothingPromised ==
  ASSUME NEW c, NEW n, NEW m, NEW s \in Source
  PROVE  Promise(c, n, m, s, NoStamps[s])
BY DEF Promise, NoStamps

\* A transcript stands still or gains a line.
Gained(s) == (lines'[s] = lines[s] /\ mtime'[s] = mtime[s]) \/ lines[s] < lines'[s]

\* No journal loses an event, and no transcript a line.
LEMMA OnlyGains ==
  ASSUME TypeOK, ~PowerLoss, [Next]_vars
  PROVE  /\ \A f \in File : content[f] \subseteq content'[f]
         /\ \A s \in Source : Gained(s)
<1> USE DEF transcripts, disk, memory, ingest, history, Gained
<1>1. CASE UNCHANGED <<content, lines, mtime>>
  BY <1>1
<1>2. ASSUME NEW s \in Source, WriteLine(s)
      PROVE  /\ \A f \in File : content[f] \subseteq content'[f]
             /\ \A q \in Source : Gained(q)
  <2>1. \A q \in Source : lines[q] \in Nat
    BY ShadowAssumption DEF TypeOK
  <2>2. QED
    BY <1>2, <2>1 DEF WriteLine, TypeOK
<1>3. CASE Crash
  <2>1. \A f \in File : \A e \in content[f] : e.at <= MaxLines
    BY DEF TypeOK, Event
  <2>2. \A f \in File : content[f] \subseteq content'[f]
    BY <1>3, <2>1 DEF Crash
  <2>3. QED
    BY <1>3, <2>2 DEF Crash
<1>4. ASSUME NEW s \in Source, NEW e \in work[s].events, AppendSlice(s, e)
      PROVE  /\ \A f \in File : content[f] \subseteq content'[f]
             /\ \A q \in Source : Gained(q)
  BY <1>4 DEF AppendSlice, TypeOK
<1>5. CASE Tick \/ ReplaceFile \/ UNCHANGED vars \/ \E l \in Lists : Ingest(l)
  BY <1>1, <1>5 DEF Tick, ReplaceFile, vars, Ingest
<1>6. CASE OpenJournal \/ OpenDisabled \/ DiscoverThrows \/ LoadStamps
           \/ ScanStamps \/ PlanRun \/ WriteStamps
  BY <1>1, <1>6
     DEF OpenJournal, OpenDisabled, DiscoverThrows, LoadStamps, ScanStamps, PlanRun, WriteStamps
<1>7. ASSUME NEW s \in Source,
             ReadTranscript(s) \/ StartAppending(s) \/ Accept(s) \/ ReplayThrows(s)
      PROVE  UNCHANGED <<content, lines, mtime>>
  BY <1>7 DEF ReadTranscript, StartAppending, Accept, ReplayThrows
<1>8. QED
  BY <1>1, <1>2, <1>3, <1>4, <1>5, <1>6, <1>7 DEF Next, RunStep, SourceStep

\* What a stamp says of a journal file it says after the step.
LEMMA DescribedStays ==
  ASSUME TypeOK, TypeOK', ~PowerLoss, [Next]_vars,
         NEW f \in File, NEW s \in Source, NEW stamp \in Stamp,
         Promise(content[f], lines[s], mtime[s], s, stamp)
  PROVE  Promise(content'[f], lines'[s], mtime'[s], s, stamp)
<1>1. /\ lines[s] \in Nat /\ lines'[s] \in Nat /\ mtime[s] \in Nat /\ mtime'[s] \in Nat
  BY ShadowAssumption DEF TypeOK
<1>2. QED
  BY <1>1, OnlyGains, PromiseStays DEF Gained

\* A source whose events the journal took is stamped with no promise too much.
LEMMA AcceptedStamp ==
  ASSUME BaseInv, ScanInv, EndInv, NEW s \in Source,
         work[s].st = "append", work[s].events = {}, Taken(s)
  PROVE  Promise(content[handle], lines[s], mtime[s], s,
                 [set |-> TRUE, size |-> scan[s].size, mtime |-> scan[s].mtime, at |-> now])
<1>1. /\ scan[s].size \in Nat /\ lines[s] \in Nat /\ mtime[s] \in Nat /\ now \in Nat
      /\ work[s].upTo \in Nat /\ work[s].read \in Nat
      /\ MaxLag \in Nat /\ Settle \in Nat /\ SettleMargin \in Nat
  BY ShadowAssumption DEF BaseInv, TypeOK
<1>2. Going(s) /\ Whole(s)
  BY DEF Going, Whole, Taken
<1>3. /\ scan[s].size <= work[s].upTo /\ work[s].upTo <= lines[s]
      /\ now <= work[s].read + MaxLag
  BY <1>2 DEF ScanInv
<1>4. \A k \in 1..scan[s].size : Line(s, k) \in content[handle]
  <2>1. \A k \in 1..work[s].upTo : Line(s, k) \in content[handle]
    BY <1>2 DEF BaseInv, CursorInv, Covered
  <2>2. QED
    BY <1>1, <1>3, <2>1
<1>5. ASSUME Quick, scan[s].size = lines[s], now >= mtime[s] + SettleMargin
      PROVE  End(s, lines[s]) \in content[handle]
  <2>1. work[s].upTo = lines[s] /\ work[s].read >= mtime[s] + Settle
    BY <1>1, <1>3, <1>5 DEF Quick
  <2>2. QED
    BY <1>2, <2>1 DEF EndInv, Covered
<1>6. QED
  BY <1>1, <1>3, <1>4, <1>5 DEF Promise

\* Every step keeps what the process knows true of the journal it has open.
LEMMA KnownKept ==
  ASSUME BaseInv, BaseInv', PathInv, ScanInv, KnownInv, StampFileInv, EndInv,
         ~LiveSwap, ~PowerLoss, [Next]_vars
  PROVE  KnownInv'
<1> USE DEF transcripts, disk, memory, ingest, history
<1> SUFFICES ASSUME handle' # None, NEW s \in Source
             PROVE  Promise(content'[handle'], lines'[s], mtime'[s], s, known'[s])
  BY DEF KnownInv, Described
<1>0. /\ TypeOK /\ TypeOK' /\ RunInv /\ known[s] \in Stamp /\ known'[s] \in Stamp
      /\ handle' \in File
  BY DEF BaseInv, TypeOK
<1>1. CASE UNCHANGED <<handle, known>>
  <2>1. Promise(content[handle], lines[s], mtime[s], s, known[s])
    BY <1>1 DEF KnownInv, Described
  <2>2. QED
    BY <1>0, <1>1, <2>1, DescribedStays
<1>2. CASE Crash
  BY <1>2 DEF Crash
<1>3. CASE OpenJournal \/ OpenDisabled
  <2>1. CASE handle # None
    BY <1>1, <1>3, <2>1 DEF OpenJournal, OpenDisabled
  <2>2. CASE handle = None
    <3>1. known' = NoStamps
      BY <1>0, <1>3, <2>2 DEF OpenJournal, OpenDisabled, RunInv
    <3>2. QED
      BY <3>1, NothingPromised
  <2>3. QED
    BY <2>1, <2>2
<1>4. CASE LoadStamps
  <2>1. CASE known' = known
    BY <1>1, <1>4, <2>1 DEF LoadStamps
  <2>2. CASE known' = NoStamps
    BY <2>2, NothingPromised
  <2>3. CASE known' = stampFile.stamps /\ stampFile.id = path
    <3>1. handle = path /\ handle' = handle /\ path \in File /\ path # None
      BY <1>0, <1>4, ShadowAssumption DEF LoadStamps, PathInv, RunInv, TypeOK
    <3>2. Promise(content[path], lines[s], mtime[s], s, known'[s])
      BY <2>3, <3>1 DEF StampFileInv, Described
    <3>3. QED
      BY <1>0, <3>1, <3>2, DescribedStays
  <2>4. QED
    BY <1>4, <2>1, <2>2, <2>3 DEF LoadStamps, PersistedStamps
<1>5. CASE PlanRun
  <2>1. known'[s] = known[s] \/ known'[s] = NoStamps[s]
    BY <1>5 DEF PlanRun
  <2>2. CASE known'[s] = known[s]
    <3>1. handle' = handle
      BY <1>5 DEF PlanRun
    <3>2. Promise(content[handle], lines[s], mtime[s], s, known[s])
      BY <3>1 DEF KnownInv, Described
    <3>3. QED
      BY <1>0, <2>2, <3>1, <3>2, DescribedStays
  <2>3. QED
    BY <2>1, <2>2, NothingPromised
<1>6. ASSUME NEW q \in Source, Accept(q)
      PROVE  Promise(content'[handle'], lines'[s], mtime'[s], s, known'[s])
  <2>1. UNCHANGED <<content, handle, lines, mtime>>
    BY <1>6 DEF Accept
  <2>2. CASE known'[s] = known[s]
    BY <2>1, <2>2 DEF KnownInv, Described
  <2>3. CASE known'[s] # known[s]
    <3>1. q = s /\ Taken(s)
      BY <1>0, <1>6, <2>3 DEF Accept, TypeOK
    <3>2. known'[s] = [set |-> TRUE, size |-> scan[s].size, mtime |-> scan[s].mtime, at |-> now]
      BY <1>0, <1>6, <3>1 DEF Accept, TypeOK
    <3>3. work[s].st = "append" /\ work[s].events = {}
      BY <1>6, <3>1 DEF Accept
    <3>4. QED
      BY <2>1, <3>1, <3>2, <3>3, AcceptedStamp
  <2>4. QED
    BY <2>2, <2>3
<1>7. CASE UNCHANGED vars \/ Tick \/ ReplaceFile \/ \E q \in Source : WriteLine(q)
  BY <1>1, <1>7 DEF vars, Tick, ReplaceFile, WriteLine
<1>8. CASE DiscoverThrows \/ ScanStamps \/ WriteStamps \/ \E l \in Lists : Ingest(l)
  BY <1>1, <1>8 DEF DiscoverThrows, ScanStamps, WriteStamps, Ingest
<1>9. ASSUME NEW q \in Source,
             \/ ReadTranscript(q) \/ StartAppending(q) \/ ReplayThrows(q)
             \/ \E e \in work[q].events : AppendSlice(q, e)
      PROVE  UNCHANGED <<handle, known>>
  BY <1>9 DEF ReadTranscript, StartAppending, ReplayThrows, AppendSlice
<1>10. QED
  BY <1>1, <1>2, <1>3, <1>4, <1>5, <1>6, <1>7, <1>8, <1>9 DEF Next, RunStep, SourceStep

\* Every step keeps what the stamps file says true of the file it names.
LEMMA StampFileKept ==
  ASSUME BaseInv, BaseInv', PathInv, KnownInv, StampFileInv, ~PowerLoss, [Next]_vars
  PROVE  StampFileInv'
<1> USE DEF transcripts, disk, memory, ingest, history
<1> SUFFICES ASSUME stampFile'.id # None, NEW s \in Source
             PROVE  Promise(content'[stampFile'.id], lines'[s], mtime'[s], s,
                            stampFile'.stamps[s])
  BY DEF StampFileInv, Described
<1>0. /\ TypeOK /\ TypeOK' /\ RunInv /\ stampFile'.id \in File
      /\ stampFile'.stamps[s] \in Stamp
  BY DEF BaseInv, TypeOK
<1>1. CASE UNCHANGED stampFile
  <2>1. Promise(content[stampFile.id], lines[s], mtime[s], s, stampFile.stamps[s])
    BY <1>1 DEF StampFileInv, Described
  <2>2. QED
    BY <1>0, <1>1, <2>1, DescribedStays
<1>2. CASE WriteStamps /\ stampFile' = [id |-> id, stamps |-> known]
  <2>1. handle # None /\ id = handle /\ stampFile'.id = handle /\ stampFile'.stamps = known
    BY <1>0, <1>2 DEF WriteStamps, RunInv, PathInv
  <2>2. Promise(content[handle], lines[s], mtime[s], s, known[s])
    BY <2>1 DEF KnownInv, Described
  <2>3. QED
    BY <1>0, <2>1, <2>2, DescribedStays
<1>3. CASE UNCHANGED vars \/ Tick \/ ReplaceFile \/ Crash
           \/ (\E q \in Source : WriteLine(q)) \/ (\E l \in Lists : Ingest(l))
  BY <1>1, <1>3 DEF vars, Tick, ReplaceFile, Crash, WriteLine, Ingest
<1>4. CASE OpenJournal \/ OpenDisabled \/ DiscoverThrows \/ LoadStamps \/ ScanStamps \/ PlanRun
  BY <1>1, <1>4 DEF OpenJournal, OpenDisabled, DiscoverThrows, LoadStamps, ScanStamps, PlanRun
<1>5. CASE WriteStamps
  BY <1>1, <1>2, <1>5 DEF WriteStamps
<1>6. ASSUME NEW q \in Source, SourceStep(q) PROVE UNCHANGED stampFile
  BY <1>6 DEF SourceStep, ReadTranscript, StartAppending, ReplayThrows, AppendSlice, Accept
<1>7. QED
  BY <1>1, <1>3, <1>4, <1>5, <1>6 DEF Next, RunStep

\* Every step keeps the end of what was read settled in the journal or on its
\* way to it.
LEMMA EndKept ==
  ASSUME BaseInv, ScanInv, EndInv, [Next]_vars
  PROVE  EndInv'
<1> USE DEF transcripts, disk, memory, ingest, history
<1> DEFINE Of(s) == /\ Going(s) /\ Whole(s)
                    /\ work[s].upTo = lines[s] /\ work[s].read >= mtime[s] + Settle
                    => Covered(s, End(s, lines[s]))
<1>0. /\ \A s \in Source : Of(s)
      /\ TypeOK /\ RunInv /\ CursorInv /\ work \in [Source -> Work] /\ dropped \in Nat
      /\ lines \in [Source -> Nat]
  BY ShadowAssumption DEF EndInv, BaseInv, TypeOK, Work
<1>1. CASE UNCHANGED <<lines, mtime, content, handle, dropped, work>>
  BY <1>0, <1>1 DEF EndInv, Going, Whole, Covered, End
<1>2. ASSUME \A s \in Source : work'[s].st \in {"out", "todo"} PROVE EndInv'
  BY <1>2 DEF EndInv, Going
<1>3. ASSUME NEW s \in Source, WriteLine(s) PROVE EndInv'
  <2>1. /\ UNCHANGED <<content, handle, dropped, work>> /\ lines'[s] = lines[s] + 1
        /\ \A q \in Source \ {s} : lines'[q] = lines[q] /\ mtime'[q] = mtime[q]
    BY <1>0, <1>3 DEF WriteLine, TypeOK
  <2>2. Of(s)'
    <3>1. CASE Going(s)
      <4>1. work[s].upTo <= lines[s] /\ work[s].upTo \in Nat /\ lines[s] \in Nat
        BY <1>0, <3>1 DEF ScanInv, Work
      <4>2. work'[s].upTo # lines'[s]
        BY <2>1, <4>1
      <4>3. QED
        BY <4>2
    <3>2. CASE ~Going(s)
      BY <2>1, <3>2 DEF Going
    <3>3. QED
      BY <3>1, <3>2
  <2>3. \A q \in Source \ {s} : Of(q)'
    BY <1>0, <2>1 DEF Going, Whole, Covered, End
  <2>4. QED
    BY <2>2, <2>3 DEF EndInv
<1>4. CASE Crash \/ DiscoverThrows \/ WriteStamps \/ PlanRun
  BY <1>2, <1>4, RunEnds DEF Crash, DiscoverThrows, WriteStamps, PlanRun, Untouched
<1>5. CASE OpenJournal \/ OpenDisabled
  BY <1>0, <1>2, <1>5 DEF OpenJournal, OpenDisabled, RunInv
<1>6. ASSUME NEW s \in Source, ReadTranscript(s) PROVE EndInv'
  <2>1. /\ UNCHANGED <<lines, mtime, content, handle, dropped>>
        /\ work'[s].upTo = lines[s] /\ work'[s].read = now
        /\ work'[s].events = Replay(s, cursor[s])
        /\ \A q \in Source \ {s} : work'[q] = work[q]
    BY <1>0, <1>6 DEF ReadTranscript, SetWork
  <2>2. Of(s)'
    BY <2>1 DEF Covered, Replay, End
  <2>3. \A q \in Source \ {s} : Of(q)'
    BY <1>0, <2>1 DEF Going, Whole, Covered, End
  <2>4. QED
    BY <2>2, <2>3 DEF EndInv
<1>7. ASSUME NEW s \in Source, ReplayThrows(s) \/ Accept(s) PROVE EndInv'
  <2>1. /\ UNCHANGED <<lines, mtime, content, handle, dropped>> /\ work'[s].st = "out"
        /\ \A q \in Source \ {s} : work'[q] = work[q]
    BY <1>0, <1>7 DEF ReplayThrows, Accept, SetWork, Untouched
  <2>2. QED
    BY <1>0, <2>1 DEF EndInv, Going, Whole, Covered, End
<1>8. ASSUME NEW s \in Source, StartAppending(s) PROVE EndInv'
  <2>1. /\ UNCHANGED <<lines, mtime, content, handle, dropped>>
        /\ work[s].st = "read" /\ work'[s].st = "append"
        /\ work'[s].events = work[s].events /\ work'[s].upTo = work[s].upTo
        /\ work'[s].read = work[s].read
        /\ \A q \in Source \ {s} : work'[q] = work[q]
    BY <1>0, <1>8 DEF StartAppending, SetWork, Work
  <2>2. QED
    BY <1>0, <2>1 DEF EndInv, Going, Whole, Covered, End
<1>9. ASSUME NEW s \in Source, NEW e \in work[s].events, AppendSlice(s, e) PROVE EndInv'
  <2>1. /\ UNCHANGED <<lines, mtime, handle>> /\ work[s].st = "append"
        /\ work'[s].st = "append" /\ work'[s].before = work[s].before
        /\ work'[s].events = work[s].events \ {e} /\ work'[s].upTo = work[s].upTo
        /\ work'[s].read = work[s].read /\ handle \in File
        /\ \A q \in Source \ {s} : work'[q] = work[q]
    BY <1>0, <1>9 DEF AppendSlice, SetWork, Work, RunInv, TypeOK
  <2>2. CASE content' = [content EXCEPT ![handle] = @ \cup {e}] /\ dropped' = dropped
    <3>1. content'[handle] = content[handle] \cup {e}
      BY <1>0, <2>1, <2>2 DEF TypeOK
    <3>2. QED
      BY <1>0, <2>1, <2>2, <3>1 DEF EndInv, Going, Whole, Covered, End
  <2>3. CASE content' = content /\ dropped' = dropped + 1
    <3>1. \A q \in Source : work[q].st = "append" => work[q].before <= dropped
      BY <1>0 DEF CursorInv
    <3>2. \A q \in Source : work'[q].st = "append" => ~Whole(q)'
      BY <1>0, <2>1, <2>3, <3>1 DEF Whole, Work
    <3>3. Of(s)'
      BY <2>1, <3>2
    <3>4. ASSUME NEW q \in Source \ {s} PROVE Of(q)'
      BY <1>0, <2>1, <2>3, <3>2 DEF Going, Whole, Covered, End
    <3>5. QED
      BY <3>3, <3>4 DEF EndInv
  <2>4. QED
    BY <1>9, <2>2, <2>3 DEF AppendSlice
<1>10. CASE UNCHANGED vars \/ Tick \/ ReplaceFile \/ LoadStamps \/ ScanStamps
            \/ \E l \in Lists : Ingest(l)
  BY <1>1, <1>10 DEF vars, Tick, ReplaceFile, LoadStamps, ScanStamps, Ingest
<1>11. QED
  BY <1>3, <1>4, <1>5, <1>6, <1>7, <1>8, <1>9, <1>10 DEF Next, RunStep, SourceStep

-----------------------------------------------------------------------------
(***************************************************************************)
(* The theorems about the stamps.                                          *)
(***************************************************************************)

\* The inductive invariant.
IInv == BaseInv /\ PathInv /\ ScanInv /\ KnownInv /\ StampFileInv /\ EndInv

\* It holds at the start.
LEMMA InvInit == Init => IInv
<1> SUFFICES ASSUME Init PROVE IInv
  OBVIOUS
<1>1. BaseInv
  <2>1. RunInv /\ CursorInv
    BY DEF Init, RunInv, CursorInv, Untouched, Going, Stored
  <2>2. QED
    BY <2>1, TypeInit DEF BaseInv
<1>2. PathInv /\ KnownInv /\ StampFileInv
  BY DEF Init, PathInv, KnownInv, StampFileInv
<1>3. ScanInv /\ EndInv
  BY DEF Init, ScanInv, EndInv, Going, NoScan, Untouched
<1>4. QED
  BY <1>1, <1>2, <1>3 DEF IInv

\* And always, while nobody swaps the journal and no commit is lost.
LEMMA InvHolds ==
  ASSUME ~LiveSwap, ~PowerLoss
  PROVE  Spec => []IInv
<1>1. IInv /\ [Next]_vars => IInv'
  <2> SUFFICES ASSUME IInv, [Next]_vars PROVE IInv'
    OBVIOUS
  <2>1. BaseInv'
    BY TypeStep, RunKept, CursorKept DEF IInv, BaseInv
  <2>2. PathInv' /\ ScanInv' /\ EndInv'
    BY PathKept, ScanKept, EndKept DEF IInv, BaseInv
  <2>3. KnownInv' /\ StampFileInv'
    BY <2>1, KnownKept, StampFileKept DEF IInv
  <2>4. QED
    BY <2>1, <2>2, <2>3 DEF IInv
<1>2. QED
  BY <1>1, InvInit, PTL DEF Spec

\* shadow.ts: "A journal that was replaced loses its stamps with it": what the
\* stamps file says was accepted, the journal file it names holds.
THEOREM StampsTellTheTruth ==
  ASSUME ~LiveSwap, ~PowerLoss
  PROVE  Spec => []StampsDescribeTheFile
<1>1. IInv => StampsDescribeTheFile
  BY DEF IInv, StampFileInv, Described, Promise, StampsDescribeTheFile, Stored
<1>2. QED
  BY <1>1, InvHolds, PTL

\* shadow.ts: "an unchanged transcript is not replayed" costs nothing.  A
\* source that would be skipped is in the journal with every line and its end,
\* as long as no read is older than the margin allows when it is stamped.
THEOREM SkippingIsSafe ==
  ASSUME ~LiveSwap, ~PowerLoss, MaxLag + Settle <= SettleMargin
  PROVE  Spec => []SkippedIsComplete
<1>1. IInv => SkippedIsComplete
  <2> SUFFICES ASSUME IInv, loaded, NEW s \in Source, CanSkip(s, StampOf(s))
               PROVE  Stored(handle, s, lines[s]) /\ End(s, lines[s]) \in content[handle]
    BY DEF SkippedIsComplete
  <2>1. Promise(content[handle], lines[s], mtime[s], s, known[s])
    BY DEF IInv, BaseInv, RunInv, KnownInv, Described
  <2>2. /\ known[s].set /\ known[s].size = lines[s]
        /\ known[s].at >= mtime[s] + SettleMargin
    BY DEF CanSkip, StampOf
  <2>3. QED
    BY <2>1, <2>2 DEF Promise, Quick, Stored
<1>2. QED
  BY <1>1, InvHolds, PTL

=============================================================================
