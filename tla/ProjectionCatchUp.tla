-------------------------- MODULE ProjectionCatchUp --------------------------
(***************************************************************************)
(* Catch-up passes: every materialised projection is the fold of the       *)
(* journal up to its stored cursor, and a pass moves each cursor to the    *)
(* journal's head, resuming or rebuilding.  Translated from                *)
(* packages/server/server/projections/{catch-up,catalog,store}.ts and from *)
(* the single-flight driver of runtime-metrics-web.ts.                     *)
(*                                                                         *)
(* A fold is idempotent by event id, so a stored state is the SET of       *)
(* events folded, each tagged with the code version that folded it.        *)
(* `stale` is a history variable: the projections whose rows describe a    *)
(* journal file that is no longer there.                                   *)
(***************************************************************************)
EXTENDS Integers, Sequences, FiniteSets

CONSTANTS
  Event,      \* event ids
  None,       \* no event
  Pass,       \* processes that run passes
  NumProj,    \* how many projections STORED_PROJECTIONS holds
  Build,      \* builds of the program a process may be
  Version,    \* Version[b][d]: the version build b folds projection d with
  Adapters,   \* Adapters[b]: the adapter versions build b runs
  PageSize,   \* events per journal page
  MaxPages,   \* CATCH_UP_MAX_PAGES, pages per pass
  MaxLog,     \* bound: rows of one journal
  MaxReplace, \* bound: times the journal file is replaced
  SameStart,  \* may a replacement start with the event remembered as first?
  EmptyStart, \* may a journal be replaced before any pass remembered its first
              \* event, a pass having started on it while it was empty?
  MaxFaults,  \* bound: crashes, failed page reads and failed store writes
  MaxBlind    \* bound: failed reads while looking for a replacement

Projection == 1..NumProj

ASSUME CatchUpAssumption ==
  /\ None \notin Event
  /\ NumProj \in Nat \ {0} /\ PageSize \in Nat \ {0} /\ MaxLog \in Nat
  /\ Version \in [Build -> [Projection -> Nat]]
  /\ Adapters \in [Build -> Nat]
  /\ SameStart \in BOOLEAN /\ EmptyStart \in BOOLEAN

VARIABLES
  log,        \* the journal: event ids by rowid
  meta,       \* projection_meta, by projection
  state,      \* the rows of st_<id>: {<<event, version>>}
  firstEvent, \* store_info.journal_first_event
  build,      \* the build each process runs
  pass,       \* the pass each process is in, if any
  dirty,      \* catchUpDirty: a request came while a pass ran
  stale,      \* history: projections folded from a replaced journal
  replaces, faults, blind   \* bounds

vars == <<log, meta, state, firstEvent, build, pass, dirty, stale, replaces,
          faults, blind>>
store == <<meta, state, firstEvent>>

Journal == INSTANCE JournalLog WITH MaxBatch <- 1

Unknown  == [known |-> FALSE, version |-> 0, adapters |-> 0, cursor |-> 0,
             rebuilding |-> FALSE]
NoMetas  == [d \in Projection |-> Unknown]
NullHead == -1     \* head() answers null when its read fails
Idle     == [pc |-> "idle", head |-> 0, metas |-> NoMetas, replaced |-> FALSE,
             next |-> 1, cursor |-> 0, upTo |-> 0, pages |-> 0, failed |-> FALSE]

Least(m, n)  == IF m <= n THEN m ELSE n
FirstOf(l)   == IF l = <<>> THEN None ELSE l[1]
At(a, pc)    == pass[a].pc = pc
Goto(a, rec) == pass' = [pass EXCEPT ![a] = rec]

\* The end of a pass, whatever its report says: maybeCatchUp runs one more
\* when a request came meanwhile.
Finish(a) ==
  /\ Goto(a, IF dirty[a] THEN [Idle EXCEPT !.pc = "head"] ELSE Idle)
  /\ dirty' = [dirty EXCEPT ![a] = FALSE]

Init ==
  /\ Journal!Init
  /\ meta = NoMetas
  /\ state = [d \in Projection |-> {}]
  /\ firstEvent = None
  /\ build \in [Pass -> Build]
  /\ pass = [a \in Pass |-> Idle]
  /\ dirty = [a \in Pass |-> FALSE]
  /\ stale = {} /\ replaces = 0 /\ faults = 0 /\ blind = 0

-----------------------------------------------------------------------------
(***************************************************************************)
(* The journal's writers and whoever replaces its file.                    *)
(***************************************************************************)

Grow(e) ==
  /\ Len(log) < MaxLog
  /\ log = <<>> => SameStart \/ e # firstEvent
  /\ Journal!Commit(<<e>>)
  /\ UNCHANGED <<store, build, pass, dirty, stale, replaces, faults, blind>>

\* While no pass runs the file is recreated (n = 0) or an older copy of it
\* with n rows is restored.
Replace(n) ==
  /\ replaces < MaxReplace /\ replaces' = replaces + 1
  /\ \A a \in Pass : At(a, "idle")
  /\ n < Len(log) /\ (n = 0 \/ SameStart)
  /\ EmptyStart \/ firstEvent # None \/ \A d \in Projection : meta[d].cursor = 0
  /\ log' = SubSeq(log, 1, n)
  /\ stale' = stale \cup {d \in Projection : meta[d].cursor > n}
  /\ UNCHANGED <<store, build, pass, dirty, faults, blind>>

-----------------------------------------------------------------------------
(***************************************************************************)
(* One pass.                                                               *)
(***************************************************************************)

\* maybeCatchUp: single flight, with one dirty bit for whoever comes while a
\* pass runs.
Request(a) ==
  /\ IF At(a, "idle")
     THEN Goto(a, [Idle EXCEPT !.pc = "head"]) /\ UNCHANGED dirty
     ELSE dirty' = [dirty EXCEPT ![a] = TRUE] /\ UNCHANGED pass
  /\ UNCHANGED <<log, store, build, stale, replaces, faults, blind>>

ReadHead(a) ==
  /\ At(a, "head")
  /\ \/ /\ Goto(a, [pass[a] EXCEPT !.pc = "metas", !.head = Len(log)])
        /\ UNCHANGED blind
     \/ /\ blind < MaxBlind /\ blind' = blind + 1
        /\ Goto(a, [pass[a] EXCEPT !.pc = "metas", !.head = NullHead,
                                   !.failed = TRUE])
  /\ UNCHANGED <<log, store, build, dirty, stale, replaces, faults>>

ReadMetas(a) ==
  /\ At(a, "metas")
  /\ Goto(a, [pass[a] EXCEPT !.pc = "check", !.metas = meta])
  /\ UNCHANGED <<log, store, build, dirty, stale, replaces, faults, blind>>

\* Mutation of JournalReplaced: a cursor past the head goes unnoticed.
ReplacedByFirstOnly(a, first) ==
  firstEvent # None /\ first # None /\ firstEvent # first

\* journalReplaced: the first event differs from the one remembered, or a
\* stored cursor is past the head.  A failed read of the first event reads
\* as an empty journal.
JournalReplaced(a, first) ==
  \/ firstEvent # None /\ first # None /\ firstEvent # first
  \/ /\ pass[a].head # NullHead
     /\ \E d \in Projection : pass[a].metas[d].cursor > pass[a].head

CheckJournal(a) ==
  /\ At(a, "check")
  /\ \/ /\ Goto(a, [pass[a] EXCEPT !.pc = "plan",
                      !.replaced = JournalReplaced(a, FirstOf(log))])
        /\ UNCHANGED blind
     \/ /\ blind < MaxBlind /\ blind' = blind + 1
        /\ Goto(a, [pass[a] EXCEPT !.pc = "plan", !.failed = TRUE,
                      !.replaced = JournalReplaced(a, None)])
  /\ UNCHANGED <<log, store, build, dirty, stale, replaces, faults>>

\* Mutation of Fresh: a new version of the code resumes the old one's rows.
FreshAnyVersion(a, d) ==
  LET m == pass[a].metas[d] IN
  ~m.known \/ pass[a].replaced \/ m.adapters # Adapters[build[a]]

\* planProjection, from the meta the pass read at its start.
Fresh(a, d) ==
  LET m == pass[a].metas[d] IN
  \/ ~m.known
  \/ pass[a].replaced
  \/ m.version # Version[build[a]][d]
  \/ m.adapters # Adapters[build[a]]

PlanFrom(a, d) == IF Fresh(a, d) THEN 0 ELSE pass[a].metas[d].cursor

\* resetProjection: the row it leaves, beside emptied tables.
ResetMeta(b, d) ==
  [known |-> TRUE, version |-> Version[b][d], adapters |-> Adapters[b],
   cursor |-> 0, rebuilding |-> TRUE]

\* Plan one projection, in the catalog's order, resetting it first when it
\* rebuilds from scratch.
PlanOne(a) ==
  LET d == pass[a].next IN
  /\ At(a, "plan") /\ d \in Projection
  /\ IF Fresh(a, d)
     THEN /\ meta' = [meta EXCEPT ![d] = ResetMeta(build[a], d)]
          /\ state' = [state EXCEPT ![d] = {}]
          /\ stale' = stale \ {d}
     ELSE UNCHANGED <<meta, state, stale>>
  /\ Goto(a, [pass[a] EXCEPT
        !.next = d + 1,
        !.cursor = IF d = 1 THEN PlanFrom(a, d) ELSE Least(@, PlanFrom(a, d))])
  /\ UNCHANGED <<log, firstEvent, build, dirty, replaces, faults, blind>>

\* Every projection planned: remember the journal's first event.
RememberFirst(a) ==
  /\ At(a, "plan") /\ pass[a].next = NumProj + 1
  /\ firstEvent' = IF log = <<>> THEN firstEvent ELSE FirstOf(log)
  /\ Goto(a, [pass[a] EXCEPT !.pc = "read"])
  /\ UNCHANGED <<log, meta, state, build, dirty, stale, replaces, faults, blind>>

ReadPage(a) ==
  LET p == pass[a] IN
  /\ At(a, "read") /\ p.pages < MaxPages /\ ~p.failed
  /\ Goto(a, IF p.cursor < Len(log)
             THEN [p EXCEPT !.pc = "fold", !.upTo = Least(p.cursor + PageSize, Len(log))]
             ELSE [p EXCEPT !.pc = "mark"])
  /\ UNCHANGED <<log, store, build, dirty, stale, replaces, faults, blind>>

\* One transaction: every projection whose cursor is behind the page's end
\* folds the whole page and moves its cursor there.
PageEvents(a) == {log[i] : i \in (pass[a].cursor + 1)..pass[a].upTo}

\* Mutations of Behind: any cursor that is elsewhere is moved to the page's end,
\* one that is a single row behind is not.
BehindElsewhere(a, d) == meta[d].cursor # pass[a].upTo
BehindByTwo(a, d)     == meta[d].cursor + 1 < pass[a].upTo

Behind(a, d) == meta[d].cursor < pass[a].upTo

FoldPage(a) ==
  LET p == pass[a] IN
  /\ At(a, "fold")
  /\ state' = [d \in Projection |->
       IF Behind(a, d)
       THEN state[d] \cup (PageEvents(a) \X {Version[build[a]][d]})
       ELSE state[d]]
  /\ meta' = [d \in Projection |->
       IF Behind(a, d) THEN [meta[d] EXCEPT !.cursor = p.upTo] ELSE meta[d]]
  /\ Goto(a, [p EXCEPT !.pc = "read", !.cursor = p.upTo, !.pages = @ + 1])
  /\ UNCHANGED <<log, firstEvent, build, dirty, stale, replaces, faults, blind>>

\* The head was reached: the rebuilds of this pass are over.
MarkCaughtUp(a) ==
  /\ At(a, "mark")
  /\ meta' = [d \in Projection |-> [meta[d] EXCEPT !.rebuilding = FALSE]]
  /\ Finish(a)
  /\ UNCHANGED <<log, state, firstEvent, build, stale, replaces, faults, blind>>

\* The page budget is spent (or the signal aborted), or a read of this pass
\* failed: the cursor stays where the last page left it.
Interrupt(a) ==
  /\ At(a, "read") /\ (pass[a].pages >= MaxPages \/ pass[a].failed)
  /\ Finish(a)
  /\ UNCHANGED <<log, store, build, stale, replaces, faults, blind>>

\* A page read fails, or a store transaction throws and rolls back.
Fail(a) ==
  /\ pass[a].pc \in {"plan", "read", "fold", "mark"}
  /\ faults < MaxFaults /\ faults' = faults + 1
  /\ Finish(a)
  /\ UNCHANGED <<log, store, build, stale, replaces, blind>>

\* The process dies and comes back, perhaps as another build.
Restart(a, b) ==
  /\ faults < MaxFaults /\ faults' = faults + 1
  /\ Goto(a, Idle)
  /\ dirty' = [dirty EXCEPT ![a] = FALSE]
  /\ build' = [build EXCEPT ![a] = b]
  /\ UNCHANGED <<log, store, stale, replaces, blind>>

-----------------------------------------------------------------------------
PassStep(a) ==
  \/ ReadHead(a) \/ ReadMetas(a) \/ CheckJournal(a) \/ PlanOne(a)
  \/ RememberFirst(a) \/ ReadPage(a) \/ FoldPage(a) \/ MarkCaughtUp(a)
  \/ Interrupt(a)

Next ==
  \/ \E e \in Event : Grow(e)
  \/ \E n \in 0..MaxLog : Replace(n)
  \/ \E a \in Pass : \/ Request(a) \/ PassStep(a) \/ Fail(a)
                     \/ \E b \in Build : Restart(a, b)

Spec == Init /\ [][Next]_vars

\* A pass keeps running; surfaces keep asking, so an idle process gets a
\* request sooner or later.
FairSpec ==
  /\ Spec
  /\ \A a \in Pass : WF_vars(PassStep(a)) /\ WF_vars(At(a, "idle") /\ Request(a))

-----------------------------------------------------------------------------
MetaType == [known : BOOLEAN, version : Nat, adapters : Nat, cursor : Nat,
             rebuilding : BOOLEAN]
PassType == [pc : {"idle", "head", "metas", "check", "plan", "read", "fold",
                   "mark"},
             head : Nat \cup {NullHead}, metas : [Projection -> MetaType],
             replaced : BOOLEAN, next : 1..(NumProj + 1), cursor : Nat,
             upTo : Nat, pages : Nat, failed : BOOLEAN]

TypeOK ==
  /\ log \in Seq(Event)
  /\ meta \in [Projection -> MetaType]
  /\ state \in [Projection -> SUBSET (Event \X Nat)]
  /\ firstEvent \in Event \cup {None}
  /\ build \in [Pass -> Build]
  /\ pass \in [Pass -> PassType]
  /\ dirty \in [Pass -> BOOLEAN]
  /\ stale \in SUBSET Projection
  /\ replaces \in Nat /\ faults \in Nat /\ blind \in Nat

\* The fold of the journal's first n events by version v.
FoldOf(n, v) == {log[i] : i \in 1..n} \X {v}

\* catalog.ts: a stored cursor is "the journal rowid folded up to".  The rows
\* of a projection are the fold, by one version of the code, of exactly the
\* events up to its cursor - after every step, crash and failed write.
RowsMatchCursor ==
  \A d \in Projection \ stale :
    state[d] = FoldOf(meta[d].cursor, meta[d].version)

\* catch-up.ts: a journal that is not the one the projections were folded
\* from is found out, and every projection is rebuilt before a page of it is
\* folded.
ReplacementFound ==
  \A a \in Pass : pass[a].pc \in {"fold", "mark"} => stale = {}

\* With any number of processes passing at once, whatever they do to each
\* other's rows: no row ever comes from an event its projection's cursor has
\* not reached.  (With one process RowsMatchCursor says more; with two it fails,
\* and this is what is left, and proved.)
RowsBehindCursor ==
  \A d \in Projection \ stale : \A row \in state[d] :
    \E i \in 1..meta[d].cursor : i <= Len(log) /\ log[i] = row[1]

\* A pass never moves a cursor backwards except by dropping the rows with it.
CursorDropsWithRows ==
  [][\A d \in Projection :
       meta'[d].cursor < meta[d].cursor => state'[d] = {}]_vars

CaughtUp ==
  \A d \in Projection :
    meta[d].known /\ meta[d].cursor = Len(log) /\ ~meta[d].rebuilding

\* A request made while a pass runs is answered by another pass: once the
\* journal is quiet, every projection gets to its head and no rebuild is left
\* open.
EventuallyCaughtUp == <>[]CaughtUp
=============================================================================
