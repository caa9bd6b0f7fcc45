---------------------------- MODULE ShadowIngest ----------------------------
(***************************************************************************)
(* The shadow writer: every build hands it the session list, and it feeds  *)
(* the journal with the events of the transcripts that changed.            *)
(* Translated from packages/server/server/journal/shadow.ts; the harness   *)
(* replay it calls is not in this repository and is modelled from how it   *)
(* is used: it answers the events after a cursor, and the `ended` event    *)
(* only of a transcript that has been quiet for its settle window.         *)
(*                                                                         *)
(* A transcript is the number of lines written to it; line n of source s   *)
(* becomes event [src |-> s, at |-> n, kind |-> "line"], and the end after *)
(* n lines [src |-> s, at |-> n, kind |-> "end"].  Time is counted in      *)
(* settle windows (60 s).                                                  *)
(***************************************************************************)
EXTENDS Naturals, FiniteSets

CONSTANTS
  Source,        \* the transcripts
  Lists,         \* the session lists a build may hand over
  MaxFile,       \* bound: files that may have been at JOURNAL_PATH, 1..MaxFile
  None,          \* no list, no file
  Concurrency,   \* CONCURRENCY, replays in flight
  Settle,        \* the replay's settle window
  SettleMargin,  \* SETTLE_MARGIN_MS
  Live,          \* bound: the transcripts somebody still writes
  MaxLines,      \* bound: lines per transcript
  MaxTime,       \* bound: the clock
  MaxFaults,     \* bound: failed opens, listings, replays, appends and stamp
                 \* writes, and crashes
  MaxLag,        \* bound: time from a replay's read to its stamp
  LiveSwap,      \* may the journal file be replaced under a running server?
  PowerLoss      \* may a crash take the last commits of the WAL?

File == 1..MaxFile

ASSUME ShadowAssumption ==
  /\ \A l \in Lists : l \subseteq Source /\ l # None
  /\ None \notin File
  /\ {MaxFile, MaxLines, Concurrency} \subseteq Nat \ {0}
  /\ {Settle, SettleMargin, MaxTime, MaxFaults, MaxLag} \subseteq Nat
  /\ {LiveSwap, PowerLoss} \subseteq BOOLEAN

VARIABLES
  now, lines, mtime,   \* the clock and the transcripts
  path,      \* the identity of the file at JOURNAL_PATH
  content,   \* the events each journal file holds
  stampFile, \* the stamps file: [id, stamps]
  handle,    \* the file at the path when this process opened its journal, or None
  disabled,  \* it could not be opened: the journal takes nothing
  dropped,   \* the journal's `dropped` counter, since the run began
  known,     \* `committed`: the stamp each source was last accepted under
  loaded,    \* `committed` has been loaded
  cursor,    \* the replay cursor of each source
  pc,        \* where the running ingest is; "idle" when none runs
  list,      \* the session list it works on
  pending,   \* the one slot for a list that came meanwhile
  id,        \* the identity it read
  scan,      \* the stamps it scanned
  work,      \* what it has done of each source
  newest, ran,   \* history: the newest list offered, the last list run
  faults         \* bound

transcripts == <<now, lines, mtime>>
disk        == <<path, content, stampFile>>
memory      == <<handle, disabled, dropped, known, loaded, cursor>>
ingest      == <<pc, list, pending, id, scan, work>>
history     == <<newest, ran>>
vars        == <<transcripts, disk, memory, ingest, history, faults>>

NoStamps == [s \in Source |-> [set |-> FALSE, size |-> 0, mtime |-> 0, at |-> 0]]
NoScan   == [s \in Source |-> [size |-> 0, mtime |-> 0]]
Untouched == [st |-> "out", upTo |-> 0, events |-> {}, before |-> 0, read |-> 0]

\* Mutation of CanSkip: a source that was still live is skipped too.
CanSkipLive(s, stamp) ==
  known[s].set /\ known[s].size = stamp.size /\ known[s].mtime = stamp.mtime

\* canSkip: unchanged since it was last accepted, and settled then.
CanSkip(s, stamp) ==
  /\ known[s].set
  /\ known[s].size = stamp.size /\ known[s].mtime = stamp.mtime
  /\ known[s].at >= stamp.mtime + SettleMargin

\* claudeStamps: what `stat` says of a transcript.
StampOf(s) == [size |-> lines[s], mtime |-> mtime[s]]

\* What the replay of s answers after a cursor (not in this repository).
Line(s, n) == [src |-> s, at |-> n, kind |-> "line"]
End(s, n)  == [src |-> s, at |-> n, kind |-> "end"]

Replay(s, from) ==
  {Line(s, n) : n \in (from + 1)..lines[s]}
  \cup (IF now >= mtime[s] + Settle THEN {End(s, lines[s])} ELSE {})

Fault == faults < MaxFaults /\ faults' = faults + 1

Init ==
  /\ now = 0 /\ lines = [s \in Source |-> 1] /\ mtime = [s \in Source |-> 0]
  /\ path = 1 /\ content = [f \in File |-> {}]
  /\ stampFile = [id |-> None, stamps |-> NoStamps]
  /\ handle = None /\ disabled = FALSE /\ dropped = 0 /\ known = NoStamps /\ loaded = FALSE
  /\ cursor = [s \in Source |-> 0]
  /\ pc = "idle" /\ list = {} /\ pending = None /\ id = None
  /\ scan = NoScan /\ work = [s \in Source |-> Untouched]
  /\ newest = {} /\ ran = {} /\ faults = 0

-----------------------------------------------------------------------------
(***************************************************************************)
(* The world: time passes, a conversation goes on, somebody replaces the   *)
(* journal's file and another process creates it again.                    *)
(***************************************************************************)
InFlight == {s \in Source : work[s].st \in {"read", "append"}}

Tick ==
  /\ now < MaxTime
  /\ \A s \in InFlight : now < work[s].read + MaxLag
  /\ now' = now + 1
  /\ UNCHANGED <<lines, mtime, disk, memory, ingest, history, faults>>

\* The last SettleMargin of the clock is quiet, so that every transcript has
\* the time to settle.
WriteLine(s) ==
  /\ s \in Live /\ lines[s] < MaxLines /\ now + SettleMargin <= MaxTime
  /\ lines' = [lines EXCEPT ![s] = @ + 1]
  /\ mtime' = [mtime EXCEPT ![s] = now]
  /\ UNCHANGED <<now, disk, memory, ingest, history, faults>>

ReplaceFile ==
  /\ path < MaxFile /\ (LiveSwap \/ handle = None)
  /\ path' = path + 1
  /\ UNCHANGED <<transcripts, content, stampFile, memory, ingest, history, faults>>

\* The server dies: the stamps file and the journal stay, but for the commits
\* at the journal's end that a power loss takes (synchronous = NORMAL).
Crash ==
  /\ Fault
  /\ handle' = None /\ disabled' = FALSE /\ dropped' = 0
  /\ known' = NoStamps /\ loaded' = FALSE
  /\ cursor' = [s \in Source |-> 0]
  /\ pc' = "idle" /\ list' = {} /\ pending' = None /\ id' = None
  /\ scan' = NoScan /\ work' = [s \in Source |-> Untouched]
  /\ newest' = {} /\ ran' = {}
  /\ \E n \in IF PowerLoss THEN 0..MaxLines ELSE {MaxLines} :
       content' = [f \in File |-> {e \in content[f] : e.at <= n}]
  /\ UNCHANGED <<transcripts, path, stampFile>>

-----------------------------------------------------------------------------
(***************************************************************************)
(* ingest: single flight, coalesced into one slot.                         *)
(***************************************************************************)
Ingest(l) ==
  /\ newest' = l
  /\ IF pc = "idle"
     THEN pc' = "open" /\ list' = l /\ pending' = None
     ELSE pending' = l /\ UNCHANGED <<pc, list>>
  /\ UNCHANGED <<transcripts, disk, memory, id, scan, work, ran, faults>>

\* Mutation of EndRun: the list that came meanwhile is forgotten.
EndRunForgetting ==
  /\ ran' = list
  /\ pc' = "idle" /\ pending' = None
  /\ scan' = NoScan /\ work' = [s \in Source |-> Untouched] /\ id' = None
  /\ dropped' = 0
  /\ UNCHANGED <<list, newest>>

\* The run is over, however it ended: run once more for a list that came
\* meanwhile.
EndRun ==
  /\ ran' = list
  /\ IF pending # None
     THEN pc' = "open" /\ list' = pending
     ELSE pc' = "idle" /\ list' = list
  /\ pending' = None
  /\ scan' = NoScan /\ work' = [s \in Source |-> Untouched] /\ id' = None
  /\ dropped' = 0
  /\ UNCHANGED newest

\* getJournal: opened once and kept for the life of the process.
OpenJournal ==
  /\ pc = "open"
  /\ handle' = IF handle = None THEN path ELSE handle
  /\ pc' = "load"
  /\ UNCHANGED <<transcripts, disk, disabled, dropped, known, loaded, cursor, list,
                 pending, id, scan, work, history, faults>>

\* openJournal never throws: where it cannot open, it answers a journal that
\* drops what it is given, and that one is kept as well.
OpenDisabled ==
  /\ pc = "open" /\ handle = None /\ Fault
  /\ handle' = path /\ disabled' = TRUE
  /\ pc' = "load"
  /\ UNCHANGED <<transcripts, disk, dropped, known, loaded, cursor, list,
                 pending, id, scan, work, history>>

\* Mutation of PersistedStamps: whatever file they were written for.
PersistedStampsOfAny == stampFile.stamps

\* loadStamps: the stamps file, when it is this file's.
PersistedStamps == IF stampFile.id = path THEN stampFile.stamps ELSE NoStamps

\* fileIdentity of the path, and the stamps persisted for it, once.  Where the
\* journal could not be opened there may be no file to name.
LoadStamps ==
  /\ pc = "load"
  /\ id' \in {path} \cup (IF disabled THEN {None} ELSE {})
  /\ loaded' = TRUE
  /\ known' = IF loaded THEN known
              ELSE IF id' = None THEN NoStamps ELSE PersistedStamps
  /\ pc' = "scan"
  /\ UNCHANGED <<transcripts, disk, handle, disabled, dropped, cursor, list,
                 pending, scan, work, history, faults>>

ScanStamps ==
  /\ pc = "scan"
  /\ scan' = [s \in Source |-> StampOf(s)]
  /\ pc' = "plan"
  /\ UNCHANGED <<transcripts, disk, memory, list, pending, id, work, history,
                 faults>>

\* The replay's listing throws: the whole run has failed.
DiscoverThrows ==
  /\ pc = "scan" /\ Fault
  /\ EndRun
  /\ UNCHANGED <<transcripts, disk, handle, disabled, known, loaded, cursor>>

\* The sources to replay; a source no build lists any more is forgotten.
PlanRun ==
  /\ pc = "plan"
  /\ work' = [s \in Source |->
       IF s \in list /\ ~CanSkip(s, scan[s])
       THEN [Untouched EXCEPT !.st = "todo"] ELSE Untouched]
  /\ cursor' = [s \in Source |-> IF s \in list THEN cursor[s] ELSE 0]
  /\ known' = [s \in Source |-> IF s \in list THEN known[s] ELSE NoStamps[s]]
  /\ pc' = "work"
  /\ UNCHANGED <<transcripts, disk, handle, disabled, dropped, loaded, list,
                 pending, id, scan, history, faults>>

-----------------------------------------------------------------------------
(***************************************************************************)
(* One conversation of a run.                                              *)
(***************************************************************************)
SetWork(s, w) == work' = [work EXCEPT ![s] = w]

\* The replay reads the transcript.
ReadTranscript(s) ==
  /\ pc = "work" /\ work[s].st = "todo" /\ Cardinality(InFlight) < Concurrency
  /\ SetWork(s, [st |-> "read", upTo |-> lines[s], before |-> 0, read |-> now,
                 events |-> Replay(s, cursor[s])])
  /\ UNCHANGED <<transcripts, disk, memory, pc, list, pending, id, scan, history,
                 faults>>

\* It throws: this conversation waits for the next run.
ReplayThrows(s) ==
  /\ pc = "work" /\ work[s].st = "todo" /\ Fault
  /\ SetWork(s, Untouched)
  /\ UNCHANGED <<transcripts, disk, memory, pc, list, pending, id, scan, history>>

\* The replay resolves: droppedBefore is read.
StartAppending(s) ==
  /\ pc = "work" /\ work[s].st = "read"
  /\ SetWork(s, [work[s] EXCEPT !.st = "append", !.before = dropped])
  /\ UNCHANGED <<transcripts, disk, memory, pc, list, pending, id, scan, history,
                 faults>>

\* One slice of FLUSH_EVENTS: in the journal, or dropped and counted, which is
\* all a disabled journal does.
AppendSlice(s, e) ==
  /\ pc = "work" /\ work[s].st = "append" /\ e \in work[s].events
  /\ SetWork(s, [work[s] EXCEPT !.events = @ \ {e}])
  /\ \/ /\ ~disabled
        /\ content' = [content EXCEPT ![handle] = @ \cup {e}]
        /\ UNCHANGED <<dropped, faults>>
     \/ /\ IF disabled THEN UNCHANGED faults ELSE Fault
        /\ dropped' = dropped + 1
        /\ UNCHANGED content
  /\ UNCHANGED <<transcripts, path, stampFile, handle, disabled, known, loaded,
                 cursor, pc, list, pending, id, scan, history>>

\* Mutation of Taken: whatever the journal dropped.
TakenAnyway(s) == TRUE

\* The journal's counter has not moved since before the slices.
Taken(s) == dropped = work[s].before

\* The cursor and the stamp move only over events the journal took.
Accept(s) ==
  /\ pc = "work" /\ work[s].st = "append" /\ work[s].events = {}
  /\ cursor' = IF Taken(s) THEN [cursor EXCEPT ![s] = work[s].upTo] ELSE cursor
  /\ known' = IF Taken(s)
              THEN [known EXCEPT ![s] = [set |-> TRUE, size |-> scan[s].size,
                                         mtime |-> scan[s].mtime, at |-> now]]
              ELSE known
  /\ SetWork(s, Untouched)
  /\ UNCHANGED <<transcripts, disk, handle, disabled, dropped, loaded, pc, list,
                 pending, id, scan, history, faults>>

\* Every conversation is done: write the stamps file, if the journal's file has
\* an identity, and the status file.
WriteStamps ==
  /\ pc = "work" /\ \A s \in Source : work[s].st = "out"
  /\ \/ id # None /\ stampFile' = [id |-> id, stamps |-> known] /\ UNCHANGED faults
     \/ (IF id = None THEN UNCHANGED faults ELSE Fault) /\ UNCHANGED stampFile
  /\ EndRun
  /\ UNCHANGED <<transcripts, path, content, handle, disabled, known, loaded, cursor>>

-----------------------------------------------------------------------------
SourceStep(s) ==
  \/ ReadTranscript(s) \/ StartAppending(s) \/ Accept(s) \/ ReplayThrows(s)
  \/ \E e \in work[s].events : AppendSlice(s, e)

RunStep ==
  \/ OpenJournal \/ OpenDisabled \/ LoadStamps \/ ScanStamps \/ DiscoverThrows
  \/ PlanRun \/ WriteStamps
  \/ \E s \in Source : SourceStep(s)

Next ==
  \/ Tick \/ ReplaceFile \/ Crash \/ RunStep
  \/ \E s \in Source : WriteLine(s)
  \/ \E l \in Lists : Ingest(l)

Spec == Init /\ [][Next]_vars

\* The clock runs, a run goes on, and builds keep handing over a session list
\* (a dashboard is open: one build every 30 s or so).
FairSpec ==
  /\ Spec
  /\ WF_vars(RunStep) /\ WF_vars(Tick)
  /\ WF_vars(pc = "idle" /\ \E l \in Lists : Ingest(l))

-----------------------------------------------------------------------------
Event == [src : Source, at : 1..MaxLines, kind : {"line", "end"}]
Stamp == [set : BOOLEAN, size : Nat, mtime : Nat, at : Nat]

TypeOK ==
  /\ now \in Nat /\ lines \in [Source -> 1..MaxLines] /\ mtime \in [Source -> Nat]
  /\ path \in File /\ content \in [File -> SUBSET Event]
  /\ stampFile \in [id : File \cup {None}, stamps : [Source -> Stamp]]
  /\ handle \in File \cup {None} /\ disabled \in BOOLEAN /\ dropped \in Nat
  /\ known \in [Source -> Stamp] /\ loaded \in BOOLEAN
  /\ cursor \in [Source -> Nat]
  /\ pc \in {"idle", "open", "load", "scan", "plan", "work"}
  /\ list \in SUBSET Source /\ pending \in Lists \cup {None} /\ id \in File \cup {None}
  /\ scan \in [Source -> [size : Nat, mtime : Nat]]
  /\ work \in [Source -> [st : {"out", "todo", "read", "append"}, upTo : Nat,
                          events : SUBSET Event, before : Nat, read : Nat]]
  /\ newest \in SUBSET Source /\ ran \in SUBSET Source /\ faults \in Nat

Stored(f, s, n) == \A k \in 1..n : Line(s, k) \in content[f]

\* "An unchanged transcript is not replayed" costs nothing: whenever a source
\* would be skipped, the journal this process writes holds every line of it
\* and its end.
SkippedIsComplete ==
  loaded =>
    \A s \in Source :
      CanSkip(s, StampOf(s)) =>
        Stored(handle, s, lines[s]) /\ End(s, lines[s]) \in content[handle]

\* shadow.ts: "A journal that was replaced loses its stamps with it."  The
\* stamps file speaks of a journal file only if that file holds what the
\* stamps say it accepted.
StampsDescribeTheFile ==
  stampFile.id # None =>
    \A s \in Source :
      stampFile.stamps[s].set =>
        Stored(stampFile.id, s, stampFile.stamps[s].size)

\* Coalescing loses no build: when no ingest runs, the newest list offered is
\* the one that was run last.
NewestListRan == pc = "idle" => ran = newest

\* A replay starts where an accepted one ended: no line behind the cursor is
\* missing.
CursorBehindJournal ==
  handle # None => \A s \in Source : Stored(handle, s, cursor[s])

\* A transcript every build lists is complete in the journal once it has gone
\* quiet, with its end, whatever failed on the way: opens, listings, replays,
\* appends, stamp writes, and restarts.  Only a server whose journal could not
\* be opened when it first asked for it writes nothing until it is restarted.
EventuallyComplete ==
  <>[](disabled \/
       \A s \in Source : (\A l \in Lists : s \in l) =>
         /\ handle # None /\ Stored(handle, s, lines[s])
         /\ End(s, lines[s]) \in content[handle])
=============================================================================
