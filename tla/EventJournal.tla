---------------------------- MODULE EventJournal ----------------------------
(***************************************************************************)
(* The event journal: an append-only SQLite table `events` whose rowid is  *)
(* the cursor of every reader, shared by several processes (the server,    *)
(* its second handle, `agentop journal import`).  Translated from          *)
(* packages/server/server/journal/journal.ts, journal-plan.ts and          *)
(* string-cache.ts.                                                        *)
(*                                                                         *)
(* One append is one BEGIN IMMEDIATE transaction of INSERT OR IGNORE rows. *)
(* Repeated strings are interned into `event_strings`; a process caches    *)
(* the ids it has seen COMMITTED.  A JavaScript process runs one piece of  *)
(* code at a time: a call that is "attempt" or "inserting" holds its       *)
(* thread, and the awaits of `append` (the recovery retry's sleep, the     *)
(* resumption after the transaction) are where other calls get in.         *)
(*                                                                         *)
(* Abstractions: an event interns one string; validation is membership in  *)
(* `Invalid`; a row's other columns are not represented.                   *)
(***************************************************************************)
EXTENDS Naturals, Sequences, FiniteSets, Functions

CONSTANTS
  Proc,             \* processes that may open the journal
  Slot,             \* append calls a process may have in flight at once
  Event,            \* event ids
  Invalid,          \* the events planAppend rejects
  Str,              \* strings the rows intern
  Offered,          \* the events a producer may offer, as [event, str]
  None,             \* no process
  MaxBatch,         \* bound: events of one append
  RecoveryAttempts, \* RECOVERY_ATTEMPTS
  MaxOffers,        \* bound: append calls of the whole run
  MaxCrashes        \* bound: processes killed in the whole run

ASSUME JournalAssumption ==
  /\ None \notin Proc
  /\ IsFiniteSet(Proc) /\ IsFiniteSet(Slot)
  /\ Offered \subseteq [event : Event, str : Str]
  /\ RecoveryAttempts \in Nat \ {0}
  /\ MaxBatch \in Nat \ {0}

VARIABLES
  events,    \* committed rows by rowid: [event, sid, str]; str is what the
             \* writer offered, kept to state what a reader must get back
  dict,      \* committed `event_strings`, by id
  wal,       \* the -wal file is non-empty
  tx,        \* the open write transaction, or NoTx: SQLite has one writer
  conn,      \* state of each process's handle
  recovery,  \* recoveryPending of each handle
  cache,     \* the <<string, id>> pairs each process remembers
  counters,  \* JournalCounters since the handle was opened; `offered` is
             \* history: the events its callers have handed it
  armed,     \* the deferred checkpoint timer is set
  due,       \* history: the handle committed rows since its last checkpoint
  call,      \* the append calls of each process
  offers, crashes   \* bounds

vars == <<events, dict, wal, tx, conn, recovery, cache, counters, armed, due,
          call, offers, crashes>>

Row  == [event : Event, sid : Nat, str : Str]
Pair == Str \X Nat

NoTx == [proc |-> None, events |-> <<>>, dict |-> <<>>]
Idle == [pc |-> "idle", rows |-> <<>>, tries |-> 0, retry |-> FALSE,
         pos |-> 0, fresh |-> {}, written |-> 0, duplicates |-> 0]
Zero == [offered |-> 0, written |-> 0, duplicates |-> 0, rejected |-> 0,
         dropped |-> 0]

Batches  == UNION {[1..n -> Offered] : n \in 1..MaxBatch}
OnThread == {"attempt", "inserting"}

ThreadFree(p) == \A s \in Slot : call[p][s].pc \notin OnThread

\* checkEvent: the rules of validation, abstracted to a set of events.
Valid(o) == o.event \notin Invalid

\* planAppend: every event of a batch is either a row or a rejection.
Accepted(batch) ==
  LET rows[n \in 0..Len(batch)] ==
        IF n = 0 THEN <<>>
        ELSE IF Valid(batch[n]) THEN Append(rows[n - 1], batch[n])
        ELSE rows[n - 1]
  IN  rows[Len(batch)]

SetCall(p, s, c) == call' = [call EXCEPT ![p] = [@ EXCEPT ![s] = c]]
Count(p, c) == counters' = [counters EXCEPT ![p] = c]

Init ==
  /\ events = <<>> /\ dict = <<>> /\ wal = FALSE /\ tx = NoTx
  /\ conn = [p \in Proc |-> "none"]
  /\ recovery = [p \in Proc |-> FALSE]
  /\ cache = [p \in Proc |-> {}]
  /\ counters = [p \in Proc |-> Zero]
  /\ armed = [p \in Proc |-> FALSE]
  /\ due = [p \in Proc |-> FALSE]
  /\ call = [p \in Proc |-> [s \in Slot |-> Idle]]
  /\ offers = 0 /\ crashes = 0

-----------------------------------------------------------------------------
(***************************************************************************)
(* Opening, closing, dying.                                                *)
(***************************************************************************)

\* openJournal: a -wal found non-empty before opening arms the retry.
Open(p) ==
  /\ conn[p] = "none"
  /\ conn' = [conn EXCEPT ![p] = "open"]
  /\ recovery' = [recovery EXCEPT ![p] = wal]
  /\ UNCHANGED <<events, dict, wal, tx, cache, counters, armed, due, call,
                 offers, crashes>>

\* Any refusal of openJournal: a network path, no sqlite, a failed migration.
OpenDisabled(p) ==
  /\ conn[p] = "none"
  /\ conn' = [conn EXCEPT ![p] = "disabled"]
  /\ UNCHANGED <<events, dict, wal, tx, recovery, cache, counters, armed, due,
                 call, offers, crashes>>

\* close(): cancels the timer and checkpoints.  SQLite removes the WAL when
\* the last connection of all closes.
Close(p) ==
  /\ conn[p] = "open" /\ ThreadFree(p)
  /\ conn' = [conn EXCEPT ![p] = "closed"]
  /\ armed' = [armed EXCEPT ![p] = FALSE]
  /\ due' = [due EXCEPT ![p] = FALSE]
  /\ wal' = (wal /\ \E q \in Proc \ {p} : conn[q] = "open")
  /\ UNCHANGED <<events, dict, tx, recovery, cache, counters, call, offers,
                 crashes>>

\* The process is killed at any point: its memory and its open transaction
\* are gone, committed rows and the WAL stay.
Crash(p) ==
  /\ conn[p] # "none" /\ crashes < MaxCrashes
  /\ crashes' = crashes + 1
  /\ tx' = IF tx.proc = p THEN NoTx ELSE tx
  /\ conn' = [conn EXCEPT ![p] = "none"]
  /\ recovery' = [recovery EXCEPT ![p] = FALSE]
  /\ cache' = [cache EXCEPT ![p] = {}]
  /\ counters' = [counters EXCEPT ![p] = Zero]
  /\ armed' = [armed EXCEPT ![p] = FALSE]
  /\ due' = [due EXCEPT ![p] = FALSE]
  /\ call' = [call EXCEPT ![p] = [s \in Slot |-> Idle]]
  /\ UNCHANGED <<events, dict, wal, offers>>

-----------------------------------------------------------------------------
(***************************************************************************)
(* append, up to and including its transaction attempts.                   *)
(***************************************************************************)

\* The call up to its first attempt.  A disabled or closed handle still
\* plans the batch, and counts what it would have written as dropped.
AppendCall(p, s, batch) ==
  LET rows     == Accepted(batch)
      writable == conn[p] = "open" /\ rows # <<>>
  IN
  /\ conn[p] # "none" /\ ThreadFree(p) /\ call[p][s] = Idle
  /\ offers < MaxOffers /\ offers' = offers + 1
  /\ Count(p, [counters[p] EXCEPT
                !.offered = @ + Len(batch),
                !.rejected = @ + (Len(batch) - Len(rows)),
                !.dropped = @ + IF writable THEN 0 ELSE Len(rows)])
  /\ IF writable
     THEN SetCall(p, s, [Idle EXCEPT !.pc = "attempt", !.rows = rows,
                                     !.tries = 1, !.retry = recovery[p]])
     ELSE UNCHANGED call
  /\ UNCHANGED <<events, dict, wal, tx, conn, recovery, cache, armed, due,
                 crashes>>

\* BEGIN IMMEDIATE takes the write lock.
Begin(p, s) ==
  /\ call[p][s].pc = "attempt" /\ conn[p] = "open" /\ tx = NoTx
  /\ tx' = [proc |-> p, events |-> events, dict |-> dict]
  /\ SetCall(p, s, [call[p][s] EXCEPT !.pc = "inserting", !.pos = 1,
                                      !.fresh = {}, !.written = 0,
                                      !.duplicates = 0])
  /\ UNCHANGED <<events, dict, wal, conn, recovery, cache, counters, armed, due,
                 offers, crashes>>

\* Mutation of Busy: attempts are not counted.
BusyUncounted(p, s) ==
  LET c == call[p][s] IN
  /\ c.pc = "attempt" /\ conn[p] = "open"
  /\ SetCall(p, s, [c EXCEPT !.pc = IF c.retry THEN "sleeping" ELSE "failed"])
  /\ UNCHANGED <<events, dict, wal, tx, conn, recovery, cache, counters, armed,
                 due, offers, crashes>>

\* busy_timeout ran out.  withRecoveryRetry sleeps and tries again while a
\* WAL recovery was pending when the call began; otherwise the append fails.
Busy(p, s) ==
  LET c == call[p][s] IN
  /\ c.pc = "attempt" /\ conn[p] = "open"
  /\ SetCall(p, s, IF c.retry /\ c.tries < RecoveryAttempts
                   THEN [c EXCEPT !.pc = "sleeping", !.tries = @ + 1]
                   ELSE [c EXCEPT !.pc = "failed"])
  /\ UNCHANGED <<events, dict, wal, tx, conn, recovery, cache, counters, armed,
                 due, offers, crashes>>

\* The retry's sleep ends; the handle may have been closed meanwhile, and a
\* statement on a closed handle throws an error that is not BUSY.
Retry(p, s) ==
  /\ call[p][s].pc = "sleeping" /\ ThreadFree(p)
  /\ SetCall(p, s, [call[p][s] EXCEPT !.pc = IF conn[p] = "open"
                                             THEN "attempt" ELSE "failed"])
  /\ UNCHANGED <<events, dict, wal, tx, conn, recovery, cache, counters, armed,
                 due, offers, crashes>>

\* event_id UNIQUE: a row of this event is in the table, or in the batch.
Present(rows, e) == \E i \in 1..Len(rows) : rows[i].event = e

\* Mutations of Insert: every row counted as written, and INSERT OR REPLACE.
InsertCountingAll(p, s, id, fresh, d) ==
  LET c   == call[p][s]
      o   == c.rows[c.pos]
      dup == Present(tx.events, o.event)
      row == [event |-> o.event, sid |-> id, str |-> o.str]
  IN
  /\ tx' = [tx EXCEPT !.dict = d,
                      !.events = IF dup THEN @ ELSE Append(@, row)]
  /\ SetCall(p, s, [c EXCEPT !.pos = @ + 1, !.fresh = fresh, !.written = @ + 1])

InsertOrReplace(p, s, id, fresh, d) ==
  LET c     == call[p][s]
      o     == c.rows[c.pos]
      row   == [event |-> o.event, sid |-> id, str |-> o.str]
      other == SelectSeq(tx.events, LAMBDA r : r.event # o.event)
  IN
  /\ tx' = [tx EXCEPT !.dict = d, !.events = Append(other, row)]
  /\ SetCall(p, s, [c EXCEPT !.pos = @ + 1, !.fresh = fresh, !.written = @ + 1])

\* INSERT OR IGNORE: the row at c.pos goes in with string id `id`, or counts
\* as a duplicate.
Insert(p, s, id, fresh, d) ==
  LET c   == call[p][s]
      o   == c.rows[c.pos]
      dup == Present(tx.events, o.event)
      row == [event |-> o.event, sid |-> id, str |-> o.str]
  IN
  /\ tx' = [tx EXCEPT !.dict = d,
                      !.events = IF dup THEN @ ELSE Append(@, row)]
  /\ SetCall(p, s, [c EXCEPT !.pos = @ + 1, !.fresh = fresh,
                             !.written = @ + IF dup THEN 0 ELSE 1,
                             !.duplicates = @ + IF dup THEN 1 ELSE 0])

\* intern(): a remembered id is used as it is; an unknown string is looked
\* up in `event_strings`, and added to it when absent.
Remembered(p, s, x) == {pair \in cache[p] \cup call[p][s].fresh : pair[1] = x}
Stored(x)           == {i \in 1..Len(tx.dict) : tx.dict[i] = x}

InsertRow(p, s) ==
  LET c == call[p][s]
      x == c.rows[c.pos].str
      n == Len(tx.dict) + 1
  IN
  /\ c.pc = "inserting" /\ c.pos <= Len(c.rows)
  /\ \/ \E pair \in Remembered(p, s, x) :
          Insert(p, s, pair[2], c.fresh, tx.dict)
     \/ /\ Remembered(p, s, x) = {}
        /\ \E id \in Stored(x) :
             Insert(p, s, id, c.fresh \cup {<<x, id>>}, tx.dict)
     \/ /\ Remembered(p, s, x) = {} /\ Stored(x) = {}
        /\ Insert(p, s, n, c.fresh \cup {<<x, n>>}, Append(tx.dict, x))
  /\ UNCHANGED <<events, dict, wal, conn, recovery, cache, counters, armed, due,
                 offers, crashes>>

\* COMMIT.  Rows and new strings are frames in the WAL.
Commit(p, s) ==
  LET c == call[p][s] IN
  /\ c.pc = "inserting" /\ c.pos > Len(c.rows)
  /\ events' = tx.events /\ dict' = tx.dict /\ tx' = NoTx
  /\ wal' = (wal \/ tx.events # events \/ tx.dict # dict)
  /\ due' = [due EXCEPT ![p] = @ \/ tx.events # events]
  /\ SetCall(p, s, [c EXCEPT !.pc = "committed"])
  /\ UNCHANGED <<conn, recovery, cache, counters, armed, offers, crashes>>

\* Any error inside the transaction (a full disk, an I/O error): SQLite rolls
\* the whole batch back.
Rollback(p, s) ==
  /\ call[p][s].pc = "inserting"
  /\ tx' = NoTx
  /\ SetCall(p, s, [call[p][s] EXCEPT !.pc = "failed"])
  /\ UNCHANGED <<events, dict, wal, conn, recovery, cache, counters, armed, due,
                 offers, crashes>>

-----------------------------------------------------------------------------
(***************************************************************************)
(* append, after the await.                                                *)
(***************************************************************************)

\* Mutation of Resume: the timer is armed on a closed handle too.
ResumeArming(p, s) ==
  LET c == call[p][s] IN
  /\ c.pc = "committed" /\ ThreadFree(p)
  /\ recovery' = [recovery EXCEPT ![p] = FALSE]
  /\ cache' = [cache EXCEPT ![p] = @ \cup c.fresh]
  /\ Count(p, [counters[p] EXCEPT !.written = @ + c.written,
                                  !.duplicates = @ + c.duplicates])
  /\ armed' = [armed EXCEPT ![p] = @ \/ c.written > 0]
  /\ SetCall(p, s, Idle)
  /\ UNCHANGED <<events, dict, wal, tx, conn, due, offers, crashes>>

\* The batch is in: remember its strings, count, arm the checkpoint.
Resume(p, s) ==
  LET c == call[p][s] IN
  /\ c.pc = "committed" /\ ThreadFree(p)
  /\ recovery' = [recovery EXCEPT ![p] = FALSE]
  /\ cache' = [cache EXCEPT ![p] = @ \cup c.fresh]
  /\ Count(p, [counters[p] EXCEPT !.written = @ + c.written,
                                  !.duplicates = @ + c.duplicates])
  /\ armed' = [armed EXCEPT ![p] = @ \/ (c.written > 0 /\ conn[p] = "open")]
  /\ SetCall(p, s, Idle)
  /\ UNCHANGED <<events, dict, wal, tx, conn, due, offers, crashes>>

\* Mutations of ResumeFailed: the strings of a rolled-back batch are
\* remembered, and the batch is not counted.
ResumeFailedRemembering(p, s) ==
  LET c == call[p][s] IN
  /\ c.pc = "failed" /\ ThreadFree(p)
  /\ recovery' = [recovery EXCEPT ![p] = FALSE]
  /\ cache' = [cache EXCEPT ![p] = @ \cup c.fresh]
  /\ Count(p, [counters[p] EXCEPT !.dropped = @ + Len(c.rows)])
  /\ SetCall(p, s, Idle)
  /\ UNCHANGED <<events, dict, wal, tx, conn, armed, due, offers, crashes>>

ResumeFailedUncounted(p, s) ==
  /\ call[p][s].pc = "failed" /\ ThreadFree(p)
  /\ recovery' = [recovery EXCEPT ![p] = FALSE]
  /\ SetCall(p, s, Idle)
  /\ UNCHANGED <<events, dict, wal, tx, conn, cache, counters, armed, due,
                 offers, crashes>>

\* Nothing of the batch is in the table: it is counted as dropped.
ResumeFailed(p, s) ==
  LET c == call[p][s] IN
  /\ c.pc = "failed" /\ ThreadFree(p)
  /\ recovery' = [recovery EXCEPT ![p] = FALSE]
  /\ Count(p, [counters[p] EXCEPT !.dropped = @ + Len(c.rows)])
  /\ SetCall(p, s, Idle)
  /\ UNCHANGED <<events, dict, wal, tx, conn, cache, armed, due, offers,
                 crashes>>

-----------------------------------------------------------------------------
(***************************************************************************)
(* The deferred checkpoint, the reader's cache and its eviction.           *)
(***************************************************************************)

\* The timer fires; whatever PASSIVE could not copy stays in the WAL.
FireCheckpoint(p) ==
  /\ armed[p] /\ ThreadFree(p)
  /\ armed' = [armed EXCEPT ![p] = FALSE]
  /\ due' = [due EXCEPT ![p] = @ /\ conn[p] # "open"]
  /\ UNCHANGED <<events, dict, wal, tx, conn, recovery, cache, counters, call,
                 offers, crashes>>

\* lookup(): what a reader of process p gets for a string id, from its cache
\* or, on a miss, from the committed table (and the miss joins the cache).
Cached(p, id) == {pair \in cache[p] : pair[2] = id}
Decode(p, id) ==
  IF Cached(p, id) # {} THEN {pair[1] : pair \in Cached(p, id)}
  ELSE IF id \in 1..Len(dict) THEN {dict[id]} ELSE {}

ReadRow(p, i) ==
  /\ conn[p] = "open" /\ ThreadFree(p)
  /\ cache' = [cache EXCEPT ![p] =
                 @ \cup {<<x, events[i].sid>> : x \in Decode(p, events[i].sid)}]
  /\ UNCHANGED <<events, dict, wal, tx, conn, recovery, counters, armed, due,
                 call, offers, crashes>>

\* StringCache evicts a pair, both directions together, when over budget.
Evict(p, pair) ==
  /\ ThreadFree(p)
  /\ cache' = [cache EXCEPT ![p] = @ \ {pair}]
  /\ UNCHANGED <<events, dict, wal, tx, conn, recovery, counters, armed, due,
                 call, offers, crashes>>

-----------------------------------------------------------------------------
Step(p, s) ==
  \/ Begin(p, s) \/ Busy(p, s) \/ Retry(p, s) \/ InsertRow(p, s)
  \/ Commit(p, s) \/ Rollback(p, s) \/ Resume(p, s) \/ ResumeFailed(p, s)

Handle(p) ==
  \/ Open(p) \/ OpenDisabled(p) \/ Close(p) \/ Crash(p) \/ FireCheckpoint(p)
  \/ \E i \in 1..Len(events) : ReadRow(p, i)
  \/ \E pair \in cache[p] : Evict(p, pair)

Next ==
  \E p \in Proc :
    \/ Handle(p)
    \/ \E s \in Slot : Step(p, s)
    \/ \E s \in Slot, batch \in Batches : AppendCall(p, s, batch)

Spec == Init /\ [][Next]_vars

\* Fairness: a process that is not killed keeps running its code.  Nothing
\* forces a caller to append, to open or to close.
FairSpec ==
  /\ Spec
  /\ \A p \in Proc : \A s \in Slot : WF_vars(Step(p, s))
  /\ \A p \in Proc : WF_vars(FireCheckpoint(p))

-----------------------------------------------------------------------------
CallType ==
  [pc : {"idle", "attempt", "sleeping", "inserting", "committed", "failed"},
   rows : Seq(Offered), tries : Nat, retry : BOOLEAN, pos : Nat,
   fresh : SUBSET Pair, written : Nat, duplicates : Nat]

CountersType == [offered : Nat, written : Nat, duplicates : Nat,
                 rejected : Nat, dropped : Nat]

TypeOK ==
  /\ events \in Seq(Row) /\ dict \in Seq(Str) /\ wal \in BOOLEAN
  /\ tx \in [proc : Proc \cup {None}, events : Seq(Row), dict : Seq(Str)]
  /\ conn \in [Proc -> {"none", "open", "closed", "disabled"}]
  /\ recovery \in [Proc -> BOOLEAN]
  /\ cache \in [Proc -> SUBSET Pair]
  /\ counters \in [Proc -> CountersType]
  /\ armed \in [Proc -> BOOLEAN]
  /\ due \in [Proc -> BOOLEAN]
  /\ call \in [Proc -> [Slot -> CallType]]
  /\ offers \in Nat /\ crashes \in Nat

-----------------------------------------------------------------------------
\* Every reader of every process gets back the string the writer offered:
\* the ids in committed rows and in caches name committed strings, although
\* a rolled-back transaction frees the ids it had given out.
ReadsWhatWasWritten ==
  \A p \in Proc : \A i \in 1..Len(events) :
    conn[p] = "open" => Decode(p, events[i].sid) = {events[i].str}

InFlight(p) == {s \in Slot : call[p][s].pc # "idle"}

\* No event is lost without a trace: every event offered to a handle is in
\* exactly one of its counters once the call that carried it is over.
Accounted ==
  \A p \in Proc :
    LET c == counters[p] IN
    c.offered = c.written + c.duplicates + c.rejected + c.dropped
                + SumFunctionOnSet([s \in Slot |-> Len(call[p][s].rows)],
                                   InFlight(p))

Committed(p) == {s \in Slot : call[p][s].pc = "committed"}

\* The rows the handle of p says it wrote, or is about to say it wrote.
Claimed(p) ==
  counters[p].written
  + SumFunctionOnSet([s \in Slot |-> call[p][s].written], Committed(p))

\* The counters agree with the table: with no process killed, the rows the
\* handles say they wrote (or are about to say) are the rows there are.
WrittenIsStored ==
  crashes = 0 => Len(events) = SumFunctionOnSet([p \in Proc |-> Claimed(p)], Proc)

\* A timer is set, or the append about to set it has not resumed yet.
Scheduled(p) ==
  \/ armed[p]
  \/ \E s \in Slot : call[p][s].pc = "committed" /\ call[p][s].written > 0

\* Rows a handle committed are never left in the WAL with nobody due to copy
\* them (armCheckpoint), and a closed handle has no timer, which would run
\* against a closed database.
RowsScheduled ==
  \A p \in Proc :
    /\ conn[p] = "open" /\ due[p] => Scheduled(p)
    /\ armed[p] => conn[p] = "open"

\* Every append returns, whatever the database answered.
AppendReturns ==
  \A p \in Proc : \A s \in Slot :
    (call[p][s].pc # "idle") ~> (call[p][s].pc = "idle")

Log == INSTANCE JournalLog WITH log <- [i \in 1..Len(events) |-> events[i].event]

\* The cursors of every reader stand on this: the table refines a log that
\* only grows, batch by batch, and holds an event id once.
AppendOnlyLog == Log!Spec
=============================================================================
