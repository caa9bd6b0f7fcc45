# Verification of agentistics

TLA+ models of the stateful core of agentistics (the `agentop` server and its
companions): what its processes store on disk and share with each other, how
they crash, race and retry, and what must be true throughout. TLC checks the
models on small instances; TLAPS proves the main theorems for all instances.

Paths below are relative to the repository; `server/` stands for
`packages/server/server/`.

    tlc -workers 2 -config MCEventJournalProcesses.cfg MCEventJournal
    tlapm ProjectionCatchUp_proofs.tla

## 1. The system

A server (`agentop server`) watches the transcripts coding agents write, builds
the dashboard's data from them, and feeds an **event journal**, from which it
folds **projections**. One-shot commands (`agentop journal import`,
`agentop projections`, `agentop session ...`), a cockpit and a second server
start by mistake are further *processes* over the same files: there is no
daemon that owns them, only SQLite transactions, lock files and renames.

| Component | State it keeps | Operations | Talks to | What is hard | What makes it correct |
|---|---|---|---|---|---|
| Event journal `server/journal/{journal,journal-plan,schema,string-cache}.ts` | `events` and `event_strings` tables, the WAL; per handle: string cache, counters, `recoveryPending`, the checkpoint timer | open, append, readFrom, checkpoint, close | shadow, import and backfill write; catch-up reads by rowid | several processes, busy retries with awaits between them, rollback after ids were handed out, crashes with frames in the WAL | an event has one row; rows are only ever appended; a reader gets the strings the writer gave; every offered event is in exactly one counter; committed rows are due a checkpoint |
| Shadow writer `server/journal/shadow.ts` | stamps (memory and file), replay cursors, the one-slot queue | ingest, run, load and save stamps | called by each build; replays transcripts through the harness; appends to the journal | conversations in flight at once around one `dropped` counter; live transcripts; a journal file that is replaced; crashes between append and stamp | what is skipped is complete; stamps describe the file they are saved for; the newest list is run; a quiet transcript gets complete |
| Projection catch-up `server/projections/{catch-up,catalog,store}.ts`, driver in `server/runtime-metrics-web.ts` | `projection_meta`, `st_*` rows, the remembered first event; single-flight flag and dirty bit | a pass: plan, reset, fold pages, mark | reads the journal; read by the metrics routes | plans from values read earlier; crashes between transactions; version changes; a replaced journal; two passes | rows are exactly the fold up to the cursor; a replacement is found; the projections reach the head |
| Projections `server/projections/folds` and the SQL they store | rows | fold | catch-up | order of events, repeats | idempotent by event id |
| Journal import and backfill `server/journal/{import,backfill}*.ts` | the run record | import, automatic backfill | journal, shadow | a coarse archive against a live replay | no event twice under two ids; the backfill runs to its end once |
| Instance lock `server/single-instance.ts` | the lock file | claim, wait, release | server start-up, systemd | stale locks, pid reuse, two starts at once | one server per data directory; a server that claims stays visible; one ends up running |
| File lock `server/sessions/file-lock.ts` | the `<file>.lock` directory | lockFile, release | registry, task store | takeover of an abandoned lock, a bounded wait | one holder; nobody waits for ever |
| Managed session registry `server/sessions/registry.ts` | a JSON list | add, remove, patch, touch | file lock, sessions | read-modify-write by several processes | no change is lost |
| Resume lock and conversation claims `server/cli-start.ts`, `server/sessions/{resume-lock,conversation-claim,live-claims,reopen-attempt,task-reopen}.ts` | registry rows, tmux panes, the chain of calls per conversation | resume, reopen, start, end, take over | registry, tmux, processes outside the fleet | reads of rows, panes and processes at different times; a restart between a row and its pane; sources that fail | one assistant per conversation; a live session's row stands; no row without a session; every call returns |
| Spawn admission `server/sessions/{spawn-admission,fleet-spawn,memory-budget}.ts` | a budget | admit, release | sessions | leaks and bursts | budget kept, nobody starves |
| Task store `server/sessions/{task-store,task-web,task-source,task-next}.ts` | a JSON document, leases | task and board operations, claims, the minting of legacy tasks | file lock | decisions from a look without the lock; the same lock past its deadline, one temporary file | changes as if at once; one claimant; one task per title |
| Input channel and pane writer `server/sessions/{input-channel,input-web,pane-writer,backend-tmux}.ts`, `packages/web/src/lib/terminalChannel.ts` | a queue per socket, a chain of writes per pane, the page's pending keys | keys, pastes, prompts, answers | browser, tmux | writes of several calls each; calls that fail in the middle; sockets that close with keys unanswered | prompts whole; answers in order; nothing lost silently |
| Terminal hub and streams `server/sessions/{terminal-hub,terminal-web}.ts` | readers and one capture loop per session | subscribe, leave, tick, nudge | browser, tmux | pages that come and go around awaits; loops stopped and started under a read | one loop serves exactly who watches; the screen gets current |
| Team uploader `server/team-{uploader,forget-client,rules,connections}.ts`, `server/uploader-auth-stop.ts`; a central's `server/team-{ingest,forget}.ts` | the sent-state, the withdrawal's journal, the enforced rules, the memo of the last aggregate | push cycle, push by hand, withdraw, probe | a central, which fails, refuses or is replaced | two activities over one sent-state; crashes in a withdrawal; answers that are lost | what is recorded as sent is held; what is denied is named and goes; what is shared arrives |
| Events and notifications, envelopes, backup, vault | queues, sealed stores | deliver, retry, restore | other machines | retries of what was done | at most once, in order, resumable |

The remaining parts (the dashboard's build, harness adapters and parsers, core
types and metrics, the web, TUI, VS Code and desktop clients, the MCP server,
the engine interface, accounts and routes) are conversions, rendering or
request handling. `PROJECT.json` lists every component with its status, and,
under `hazards`, each place of the code where something can go wrong that a
test would hardly reach, with the properties that watch it.

## 2. The modules

    JournalLog  <-- refined by -- EventJournal *
        ^
        +-- instanced by -------- ProjectionCatchUp *
    ShadowIngest *
    InstanceLock
    FileLock <-- extended by -+-- SessionRegistry *
                              +-- TaskStore * -- refines --> TaskBook
    ConversationClaim *
    Pane <-- extended by -+-- PaneInput ---+
                          +-- TerminalHub -+--> LiveTerminal * (their composition)
    TeamCentral <-- extended by -- TeamUploader *

A `*` marks a module about which something is proved: the theorems and their proofs are in
`<module>_proofs`, which extends it. FileLockInvariant states the invariant of the
lock, which the proofs of both modules that extend FileLock share.

Each specification has an `MC<module>` that gives TLC its constants' values
and symmetry, and one `.cfg` per question. Operators commented "Mutation of X"
are forms of X with a plausible bug in them; no specification uses them. They
document what each property notices: put in X's place, they make it fail.

Where the code breaks one of its own promises in a case that can be told from
the steps taken, the model takes those steps like any other, a **history
variable** records that the case has come about, and the property excuses what
was recorded and nothing else. So `robbed`, `misread`, `early`, `wiped`, `raced`,
`disturbed`, `unheard`, `unsure` below: the runs go through those cases, and a
property says that nothing besides them breaks the promise. Section 4 lists them.

### JournalLog
What every reader by cursor stands on: a sequence of event ids that only grows,
by one committed batch at a time, and holds an id once.

### EventJournal (`journal.ts`, `journal-plan.ts`, `string-cache.ts`)
`events`, `dict` are the committed tables, `tx` SQLite's one write transaction
(a private copy of both until COMMIT), `wal` whether a `-wal` file with frames
exists. Per process: `conn` (the handle), `recovery` (`recoveryPending`),
`cache` (the `StringCache`), `counters`, `armed` (the checkpoint timer).
`call[p][s]` is an `append` in flight: its `pc` is at an await point
(`sleeping`, `committed`, `failed`) or holds the thread (`attempt`,
`inserting`): a process is single-threaded, and `ThreadFree` keeps any other
code of it from running meanwhile, while other processes go on.
`Open`, `Close`, `AppendCall`, `Begin`/`Busy`/`Retry` (`withRecoveryRetry`),
`InsertRow` (`intern` and `INSERT OR IGNORE`), `Commit`, `Rollback`, `Resume`
and `ResumeFailed` (what follows the await), `FireCheckpoint`, `ReadRow`
(`lookup` through the cache) and `Evict` are its operations; `Crash` kills a
process at any of them. `due` is a history variable: a handle committed rows
since it last checkpointed.
Abstracted: an event interns one string, validation is membership in
`Invalid`, and how much of the WAL a checkpoint copies.

### ShadowIngest (`shadow.ts`)
A transcript is its number of lines. `content[f]` is what journal file `f`
holds, `path` the file now at the journal's path, `handle` the one the process
has open, `known` the map `committed`, `stampFile` its copy on disk. `pc` walks
one run; `work[s]` one conversation in it, up to `CONCURRENCY` of them in any
interleaving. Time is counted in settle windows (60 s, so SETTLE_MARGIN is 2);
`MaxLag` bounds the time from a replay's reading a transcript to its stamp;
transcripts in `Live` grow. `openJournal` never throws: where it cannot open it
answers a journal that drops everything, which the process keeps (`OpenDisabled`,
`disabled`) until it is restarted. A listing, a replay, an append or a write of
the stamps may fail by itself.
The harness replay is outside the repository's sources and is modelled by its
use: it answers the events after a cursor, and an end once the transcript has
been quiet for a settle window. `newest` and `ran` are history. `close()` is not
modelled: the server never calls it.

### ProjectionCatchUp (`catch-up.ts`, `catalog.ts`, `store.ts`, `runtime-metrics-web.ts`)
`log` is the journal (it grows through `JournalLog!Commit`), `meta`, `state` and
`firstEvent` the store, `pass[a]` the pass process `a` is in, with what it read
at its start (`head`, `metas`, `replaced`). A pass is `ReadHead`, `ReadMetas`,
`CheckJournal` (`journalReplaced`), `PlanOne` per projection (which resets it in a
transaction of its own when it must rebuild), `RememberFirst`, then `ReadPage`
and `FoldPage` until `MarkCaughtUp` or `Interrupt`. `Request` is `maybeCatchUp`
with its dirty bit. `Fail` is a failed page read or transaction, `Restart` a
crash, perhaps into another build with other fold versions. A stored state is
the set of events folded, each tagged with the version that folded it: that
stands for any fold idempotent by event id, and lets a mixture of versions
show. `stale` is history: projections that describe a file that has gone.
Three switches separate what the code can notice from what it cannot:
`SameStart` (a replacement that begins with the same event), `EmptyStart` (one
while no first event is remembered), `MaxBlind` (failed reads while looking).

### InstanceLock (`single-instance.ts`)
A member of `Start` is one process that starts a server; it takes a pid no live
process has, perhaps one a dead process had. `agentop server` asks first who
holds the lock (`Probe`, `ProbedFree`, `ProbedHeld`), and only then loads
anything and claims. The lock file records who made it, whether the pid
is in it yet, and whether it is younger than the grace for unreadable locks.
Every file-system call is a step: `Create` (O_EXCL), `WritePid`, `ReadHolder`,
`CheckHolder`, `UnlinkStale`, `Poll`, `ReadRelease`, `UnlinkOwn`; `Degrade` is
the "run without a claim" of any other error. `found` and `robbed` are history:
whose lock a start has read, and whether a start has removed another one than
that.

### FileLock and SessionRegistry (`file-lock.ts`, `registry.ts`)
`Mkdir`, `Inspect`, `Steal` (rename and remove), `Release` are the calls of the
lock; `Deadline` is WAIT_MS, after which a process is `contended`: at work
without the lock. `Age` is STALE_MS; it is three times WAIT_MS, so the lock of a
live holder is not taken for abandoned. `Freeze` is a file system that turns
read-only. `found` and `robbed` are history: whose lock a process is to take over,
and whether a takeover moved aside one that somebody else was holding.
SessionRegistry extends FileLock with the read and the whole-file
write-back each change makes inside it; `applied` is history: what the changes
amount to one after the other. A read that fails while there is a list reads an
empty one, as in the code, and is recorded (`misread`).

### TaskBook and TaskStore (`task-store.ts`, `task-web.ts`, `task-source.ts`, `task-next.ts`)
TaskBook is what a caller of the board may think it is: a book every change of
which is made at once, decided by the book it is made in, and answered. `told`
is history: whom the board has told that a task is theirs, and not otherwise
since; a lease that runs out (`Lapse`) ends that.
TaskStore is the document on disk. Each handler makes a store of its own
(`loadTaskWorld` calls `createTaskStore`), so that its in-process queue orders
nothing between handlers, and each is a process of FileLock. A handler opens
(`Open`: the first look, which says what legacy tasks to mint), looks a second
time (`Look`, `Plan`), and makes its changes one by one: `Take` the lock, `Read`,
`WriteTmp`, `Rename`, `Leave`, which makes a change done without the lock once
more. Looks take no turns: a handler may look while others mint and create
(`raced`: the titles two were about to make a task of; `wiped`: the claimed tasks
that were minted once more). `spoilt` says that the bytes on disk do not parse: the temporary file has
one name for all, and two writers past the lock may mix in it. The refinement
mapping takes `file` for the book, the processes for the callers; a read and the
steps of the lock map to stutters and the rename to the change.

### ConversationClaim (`cli-start.ts`, `sessions/*.ts`)
A session is a registry row (`row`, `conv`) and a tmux pane (`pane`) under one id;
`proc` are assistants outside the fleet. `chain[c]` is `withResumeLock`: the calls
of this server waiting for a conversation. `job[r]` walks one call, one step per
await: a resume (`ReadClaims`, `Confirm`, takeover by signal, the spawn,
`Supersede`), a reopen of fallen rows (`Plan`, `NextRow`, `Recheck`), a start, an
end. A spawn is `Refuse`, `AddRow`, `SpawnPane`, `Settle` or `Abandon`, and the
retirement of fallen siblings (`ListPanes`, `ReadRows`, `RetireOne`). `Restart`
forgets the chains and cuts the calls off wherever they are. Each read of a
source of claims that the code lets fail may fail, as a mishap. No call waits for
another's row to get its pane, since none does in the code. `early` and
`misread` are history: the rows a call took for fallen while their panes were
about to come, and the conversations a failed read showed free.
One harness is modelled, which publishes what conversation a process drives.

### Pane, PaneInput, TerminalHub, LiveTerminal (`input-*.ts`, `pane-writer.ts`, `backend-tmux.ts`, `terminal-*.ts`, `terminalChannel.ts`)
Pane is external: the assistant's input box, what keys do to it, its screen.
PaneInput is what is typed into it: `client` the page's reducer, `inbox` and `acks`
a socket, `chain` the pane's writes, of which the first takes one step per call
of tmux (`FocusInput`, `TypePrompt`, `PressReturn`, `SecondReturn`,
`CheckOverlay`; `PressKey`; `SetBuffer`, `PasteBuffer`); `Finish` answers it.
`taken` is history. A key at the pane's own terminal may move the focus at any
moment; a return may be lost, and a repaint for any reason then passes for its
effect, so that no second one is sent; a capture that fails shows nothing.
`disturbed` is history: the prompts whose text or return missed the input box by
one of these without being seen to. `Greet` is the first Enter of a session started with a
prompt, which bypasses the chain.
TerminalHub is the capture loop: `Tick` or `Nudge` asks for a read, `Capture` is
tmux's, `Deliver` is what `tick` does after its await, with the entry it finds by
then. A reader that left while the registry was being asked becomes an
`orphan`. LiveTerminal composes the two: a key that tmux took nudges the hub.

### TeamCentral and TeamUploader (`team-*.ts`, `uploader-auth-stop.ts`)
TeamCentral is what a central holds of a machine: `held`, a version of each
session, `cache`, the aggregate last sent (what it was computed from), and its
`instance`, which changes when its database does.
TeamUploader is one connection. `disk` are its files, `mem` its module-level maps
(lost in a crash), `shared` the push context all connections share, `act` the two
activities: the cycle (`Policy`, `GetContext`, `Plan`, the withdrawal `Whoami`,
`WriteJournal`, `Forget`, `Acked`, `CloseJournal`, `Enforced`) and the push by hand
(`PushNow`, `Guard`); both push through `Gate`, `Probe`, `Select`, `Post`, `Stored`,
`Finish`. Each await is a step boundary. A request may be refused, fail, be
done with its answer lost, or store the sessions without the aggregate; a crash
may come between an answer and the file that records it; a timer may fire in a
push by hand. `Spend` makes every outcome of a request
but "ok" cost one of `MaxEvents`. `unheard` and `unsure` are history: the sessions,
and whether the aggregate, about which the central did what this machine has no
record of.

## 3. The runs

| Run | Instance | What it shows | States |
|---|---|---|---|
| `journal_processes` | 2 processes, 1 call each, 2 events, 2 strings, batches to 2, 2 appends, 1 crash | ids read back what was written, counters agree with the table, and the table refines `JournalLog` (so that an event has one row) | 428 k |
| `journal_calls` | 1 process, 2 calls at once, an invalid event, 3 appends, 1 crash | every event accounted for, rows due a checkpoint, every append returns | 37 k |
| `projections` | 1 process, 2 projections, 2 builds, journals to 3 rows, pages of 2, budget 2, 1 replacement, 2 faults | rows are the fold up to the cursor, replacements are found, cursors drop only with rows, the projections reach the head | 711 k |
| `shadow` | 2 transcripts, one of them live, 2 journal files, 1 fault, time | the newest list is run, nothing missing behind a cursor; what is skipped is complete, stamps describe their file, a quiet transcript gets complete | 1.47 M |
| `instance` | 3 starts, 1 a service, 3 pids used again, a stop, a crash, a failed create | one server, visible while it runs; a waiting service ends with a server running | 566 k |
| `registry` | 3 processes, 1 change each, 2 sessions, a crash, a wait that times out, failed reads, a file system that freezes | one holder, no lost change, every acquire returns | 532 k |
| `claims` | 2 calls of any kind, 3 fallen rows of 2 conversations, a fresh one, an outside process, 1 mishap | one assistant per conversation, live rows stand, no row without a session, calls return | 291 k |
| `terminal` | 1 socket with 2 keys, 2 prompts, 2 pages, 2 reads at once, 3 arrivals, 2 mishaps (failed calls, keys at the terminal), 1 capture that throws | prompts whole, answers in order, no silent loss; one loop for who watches; the screen gets current, every write ends | 555 k |
| `tasks` | 2 processes, 4 tasks (one legacy, two created under its name), a group with a member, 3 handlers, a crash or a late wait | the document refines `TaskBook`; one claimant; one task per title | 869 k |
| `team` | 2 sessions of which one may be denied, 2 versions, batches of 1, 3 events of any kind | what is sent is held, what is denied is named, the memo is true; what is shared arrives, what is denied goes | 555 k |
| `team_success` | the same, 2 events | section 4 | violated |
| `team_chain` | the same, 2 events | section 4 | violated |

The type invariant of each module (`TypeOK`) was checked with its module while it
was written and is not repeated in the runs; for the modules with theorems it is
proved.

**Why the bounds are enough to be interesting.** Two processes and two events
reach every way two transactions can meet: the same event, the same string, a
string whose transaction rolled back. Two slots reach every interleaving of two
appends at their awaits. Two projections are the least with different cursors,
two builds the least with different versions; a page of 2 in a journal of 3
splits the log unevenly, so pages end before, at and past a cursor. Two
conversations share the one `dropped` counter. Of three processes at a lock one
dies and leaves it, two find it and race for it, and each of them may make a new
one before the other takes the old one over: that is how a lock is robbed, in
`instance` and in `registry`. Three rows of two
conversations let a reopen carry out one row while another call is in the
conversation of the next; two calls of four kinds meet in every order. Two keys
are the least with an order; two prompts and a key share a pane, two pages a
loop that one of them stops. A legacy name and two creations of the same title
meet in every pair; three handlers let one plan from
what a second has read and a third changed. A batch of one makes two sessions
two requests, so that a push can fail between them; the memo's streak
(`MaxStreak`, 40 in the code) of 1 lets it suppress once and be sent again.
Every counter that bounds the environment (`MaxOffers`, `MaxCrashes`,
`MaxFaults`, `MaxStops`, `MaxLines`, `MaxTime`, `Calls`, `MaxLate`,
`MaxMishaps`, `MaxThrows`, `MaxSent`, `MaxArrivals`, `MaxHandlers`,
`MaxEvents`, `MaxVersion`...) is a constant of its module, named in its
declaration.

**Symmetry** is used for events and processes in two runs that check no
liveness: `journal_processes`, `tasks`.

**Deadlock** is checked in `projections` and `shadow`. In the others the bounds on
the environment let the system stop: no append left to offer, no start left to
make, no change, call or key left to ask for; and a connection's upload chain may
end (`team_chain`).

**Fairness.** Weak, and only on what the code itself schedules: the steps of an
append and the timer (`journal_calls`), of a pass, of a run, of a claim, of a
change, of a call of the fleet, of the pane's chain and the hub's interval, of an
upload cycle and its timers. Beyond that: an idle catch-up gets a request sooner
or later (`projections`; surfaces poll), builds go on and the clock runs
(`shadow`; a dashboard is open), the service manager starts its units
(`instance`, `team`), deadlines pass and locks and contexts age (`instance`,
`registry`, `team`), requests end, for each has a timeout (`team`). Nobody is
forced to append, type, watch, resume, stop or crash. SQLite may answer BUSY
every time: `AppendReturns` holds because the retries are bounded.
`AcquireReturns` excuses a frozen file system, where a takeover whose rename
fails goes round without a sleep or a look at the deadline (`file-lock.ts:144`).

## 4. Where the code and its comments disagree

Two runs are violated, on purpose; `PROJECT.json` quotes the lines that promise
otherwise.

`team_success`: a push sends one session with the aggregate of all, the batch
after it is refused, and that stops the uploads. A rule then denies a session that
was never sent: there is nothing to withdraw, the push that is to replace the
aggregate is skipped by the authentication gate, and the hash of the rules is saved
all the same (`team-uploader.ts:1589-1591`). The rules count as enforced while the
central's aggregate still holds the session. The same happens after a withdrawal
whose follow-up push is skipped or fails with its aggregate alone.

`team_chain`: a connection's timer fires while a push by hand is under way. The
cycle remembers the trigger and returns before the `try` that would arm the next
timer (`team-uploader.ts:1634-1638`); the push by hand ends without taking the
trigger up (1906-1909). Nothing is left that would run a cycle.

**Excused case by case.** The runs go through the following, and the theorems
hold with them; the property named excuses what the history variable recorded.

| History | What happens | What the property excuses |
|---|---|---|
| `robbed` (InstanceLock) | of two starts that read one stale lock the slower unlinks the lock the faster has made since (`single-instance.ts:266`; the comment at 181 says "still produce exactly one winner") | `OneServer`, `ServerIsVisible` from then on |
| `robbed` (FileLock) | two waiters find one abandoned lock, and the slower one's rename moves aside the new lock of the faster (`file-lock.ts:144`; the comment at 37: "exactly one racer can win") | `Exclusive`, `NoLostUpdate`, `Atomic`, `OneClaimant`, `OneTaskPerTitle` from then on |
| `lates` (FileLock) | a wait past WAIT_MS goes ahead without the lock, by intention; the task store then makes the change again through the one temporary file both use, so that an appended comment is there twice, where `task-store.ts:16-20` calls the second pass idempotent | the same but `Exclusive` |
| `misread` (SessionRegistry) | a failed read of the registry reads as an empty list, which the change writes back | `NoLostUpdate` from then on |
| `wiped` (TaskStore) | two looks mint one legacy task, and the second mint writes a fresh record over a claim made in between (against `task-source.ts:57-60`, "re-upserting the derived record would undo that") | `OneClaimant` of that task |
| `raced` (TaskStore) | two creations of one title at once, or a creation beside a mint: neither looks again inside the lock (against `task-web.ts:119-120`) | `OneTaskPerTitle` of that title |
| `early` (ConversationClaim) | a row is written before its pane comes; meanwhile a reopen, a resume or an end takes it for fallen, or a sibling's start retires it, having listed the panes before it reads the rows (`registry.ts:384`; `cli-start.ts:2079` claims the race closed inside one process) | `OneAssistant` of that row's conversation, `LiveRowsStand` of that row |
| `misread` (ConversationClaim) | the registry or the process table cannot be read, and a conversation somebody holds looks free (`cli-start.ts:2092`) | `OneAssistant` of that conversation |
| `disturbed` (PaneInput) | a lost return whose effect a repaint passes for, so that no second return is sent and the prompt is reported as delivered (`backend-tmux.ts:318-335`); a second return that fails (342); a failed capture before the prompt (365-369); somebody at the terminal who moves the focus meanwhile (against 344-347) | `PromptsAreWhole` of that prompt |
| `unheard` (TeamUploader) | the central stored or forgot a session and the answer was lost, or the server died before recording it (`team-uploader.ts:1145-1154`, 1177), or the first reconciliation cleared what was sent before it: nothing names such a session when a rule denies it (against `team-rules.ts:138`, "ids the central holds and may no longer have"); one forgotten unheard is still recorded as sent, and once allowed again never sent again | `SentIsHeld`, `DeniedIsNamed` and the eventual properties of that session |
| `unsure` (TeamUploader) | an aggregate was stored unheard of, or not stored with its sessions | `MemoIsHeld` until the next answer |
| `disabled` (ShadowIngest) | the journal cannot be opened when the server first asks for it: a journal that drops everything is kept for the process's life (`shadow.ts:277-290`) | `EventuallyComplete` until a restart |
| a replaced central (`SameCentral`) | a copy restored under a new identity holds sessions the new sent-state does not name, so that a rule cannot withdraw them | `DeniedIsNamed`, `MemoIsHeld`, `EventuallyGone` |
| an ended chain (`ChainGoesOn`) | as in `team_chain` | `EventuallyShared`, `EventuallyGone` |

**Left out by a constant.** These the models cannot tell from what is allowed, or
the property fails outright; the runs take the value under which it holds, and
the other value gives the counterexample.

| Constant | Runs assume | Otherwise |
|---|---|---|
| `Pass`, processes that pass at once | 1 | with 2, `RowsMatchCursor` fails: a process that planned before another reset the projection folds a page that begins past the new cursor; `catch-up.ts:193` compares the cursor with the page's end only (its comment, 29-30: two processes "never fold the same page twice into one state") |
| `EmptyStart` | FALSE | `ReplacementFound` fails: a pass that starts on an empty journal remembers no first event and folds what arrives; a journal recreated before the next pass is taken for the same one |
| `MaxBlind` | 0 | with 1, `ReplacementFound` fails: a failed read of the first event reads as "empty", and the same pass stores the new first event |
| `SameStart` | FALSE | a new journal that begins with the same event is taken for the old one: the first event is all that is compared |
| `LiveSwap` | FALSE | `StampsDescribeTheFile` fails: the identity saved with the stamps is the path's, not the open handle's |
| `MaxLag` | 1 | with 2, `SkippedIsComplete` fails: a stamp's time is taken after the appends, and a slow append makes a source read while live look settled |
| `PowerLoss` | FALSE | `SkippedIsComplete` fails: the last commits of the WAL go (`synchronous = NORMAL`) and the stamps that count on them stay |
| `HasTicks` | TRUE | `ServerRuns` fails: where the platform does not say when a process started, a service keeps asking behind a dead server's lock whose pid is in use again |

`MembersHaveGroup` of TaskStore is stated and checked by no run: it fails, since
`patchSubtask` writes back a record its handler looked at before the group was
deleted, and `task-store.ts:630-637` explains why no member must name a group that
is gone.

Stated as hazards or comments only: an event offered again with another string
writes that string (`intern` runs before the INSERT is ignored), so an
all-duplicate batch can put frames in the WAL that no checkpoint is due for,
where `journal.ts:426` says it commits nothing to copy (`RowsScheduled` therefore
speaks of rows); a page that leaves while its subscription waits for the registry
is subscribed for good and keeps the loop running (`terminal-web.ts:121-126`;
`ServedExactly` names these orphans); a read of a loop that has stopped clears the
flag of its successor (`terminal-hub.ts:111`), which delays frames but does not
keep them; the first Enter of a session bypasses the pane's chain
(`backend-tmux.ts:387`), which is one per process in any case.

## 5. The proofs

Every theorem is proved for all values of its module's constants: any number of
processes, events, rows, tasks, pages or calls, and any bound on the crashes,
failures and waits the environment may cause. What it rests on is the module's
named assumption (types, finiteness, values that differ) and the hypotheses the
theorem states. Those hypotheses are rows of the second table of section 4: the
theorem says that nothing else is needed, the counterexample that they are. A
theorem without hypotheses may state a property that excuses cases of the first
table; it then says that these cases are the only ones, in any instance.

| Module | Theorem | States | Hypotheses |
|---|---|---|---|
| EventJournal | `ReadersGetWhatWasWritten`, `CommittedRowsAreScheduled`, `EventsAreAccounted`, `CountersMatchTheTable` | `ReadsWhatWasWritten`, `RowsScheduled`, `Accounted`, `WrittenIsStored` | |
| | `JournalImplementsLog` | `AppendOnlyLog`: the table refines JournalLog | |
| ProjectionCatchUp | `RowsAreTheFold` | `RowsMatchCursor` | one process running passes |
| | `RowsStayBehindCursors`, `CursorsDropWithRows` | `RowsBehindCursor` (which no run checks: with one process it follows from `RowsMatchCursor`), `CursorDropsWithRows` | |
| | `ReplacementsAreFound` | `ReplacementFound` | one process, `~SameStart`, `~EmptyStart`, `MaxBlind = 0` |
| SessionRegistry | `LockExcludes`, `NoUpdateIsLost` | `Exclusive`, `NoLostUpdate` | |
| | `RobberyTakesThree` | nobody is robbed unless a process was killed and there are three | |
| TaskStore | `ChangesAreAtomic` | `Atomic`: the document refines TaskBook | |
| | `TasksHaveOneClaimant`, `TitlesNameOneTask` | `OneClaimant`, `OneTaskPerTitle` | |
| LiveTerminal | `EveryPageIsServed`, `AnswersComeInOrder`, `NoKeyIsLostSilently` | `ServedExactly`, `AnswersInOrder`, `NothingLostSilently` | |
| | `PromptsStayWhole` | `PromptsAreWhole` | |
| ConversationClaim | `RowsHavePanes` | `NoRowWithoutPane` | |
| | `OneAssistantEach`, `LiveSessionsStand` | `OneAssistant`, `LiveRowsStand` | |
| ShadowIngest | `NoListIsLost`, `NothingBehindACursorIsMissing` | `NewestListRan`, `CursorBehindJournal` | |
| | `StampsTellTheTruth` | `StampsDescribeTheFile` | `~LiveSwap`, `~PowerLoss` |
| | `SkippingIsSafe` | `SkippedIsComplete` | the same, and `MaxLag + Settle <= SettleMargin` |
| TeamUploader | `PushesTakeTurns`, `RemovalsAreJournalled` | one activity past the guard at a time; a removal's journal on disk before its request | |
| | `TheSentStateIsTrue`, `WhatIsDeniedCanBeNamed`, `TheMemoIsTrue` | `SentIsHeld`, `DeniedIsNamed`, `MemoIsHeld` | |

Besides, each of these modules has a theorem that its type invariant holds
(`JournalTypes`, `TypeCorrect`, `RegistryTypes`, `StoreTypes`, `TerminalTypes`,
`ClaimTypes`, `ShadowTypes`, `UploaderTypes`).

None of these properties is inductive; what each proof adds is the part of the
argument the code does not state.

*EventJournal.* The invariant says what an open transaction is: an extension of
the tables that could be committed as it stands (`TxInv`), owned by the one call
that inserts, whose counters say how far it has come (`InsertingInv`). A cache
holds pairs of the committed dictionary only, and the strings a call is about to
remember are pairs of its transaction until it commits, of the dictionary from
then on (`CommittedInv`); a rollback makes them false and drops them at once.
The refinement follows: only Commit changes the table, and it appends distinct
new events. `Accounted` and `WrittenIsStored` are sums over calls and over
processes; the invariants are the sums themselves, and each action moves one
term.

*ProjectionCatchUp.* `RowsMatchCursor` does not say that the page a pass holds
starts no later than each cursor, nor that the meta it planned from is still the
one stored, nor by which version the rows were folded. `RowsInv` adds it:
*Snapshot* (what the pass read is still so, for projections not planned yet),
*Planned* (planned projections have this build's version and a cursor no less
than the pass's) and *Folded* (the rows, also for the log's prefix). A page may
start before a cursor that is ahead: folding it again adds nothing, which is
where idempotence by id is used. With several processes the cursors of
projections that do not describe a vanished file still lie in the journal, which
gives `RowsBehindCursor`. For `ReplacementFound`: as long as the vanished file's
rows are there, the first event remembered is not the journal's, and a pass that
plans knows it and has not reached the first of those projections.

*FileLock.* Its lemmas are about one step of the lock, and stand in the proofs of
both modules that extend it. Only the dead leave a directory behind, so that
whoever is about to move one aside has seen a process die (`StealInv`), and names
the one it saw. Until somebody is robbed, a holder's directory is at the path
(`HolderInv`), so that no second one can be made; a takeover that moves it aside
had seen the directory of another, and that is what `robbed` records. It takes the
dead one, the one that moves and the holder: three (`RobbedInv`), which is
`RobberyTakesThree`. SessionRegistry adds that a list that was read
inside the lock is still the one on disk, and TaskStore the same of the book, of
the temporary file before the rename, and of the bytes on disk parsing; both as
long as no wait ran out and nobody was robbed.

*TaskStore.* For the refinement: the rename is the change, decided by the book
that was read, which is still the book. Whoever was told that a task is theirs has
the claim on the board until the lease ends or a mint wipes it (`ToldInv`). For the
titles, the invariant is about changes still to be made as well as about the board
(`TitleInv`): two handlers that are both to make a task of one title have raced, a
handler makes one task of a title, and a task that is to be made has the title of
one on the board only if the title was raced for. The second look is where this is
kept, since it finds the title if the other's task is there already, and finds the
race if it is not.

*LiveTerminal.* What a connection expects answers for is what was answered and
not read yet, then what is still in its inbox; while nothing was undelivered,
what tmux took and what is in the inbox are the messages sent, in order; a sender
has one write in the chain, for the message it is at. For prompts: past
its first step the prompt at the head of the chain has the focus, then is last in
the box or submitted, then submitted with the box empty (`HeadInv`), and a
prompt is nowhere but at the end of the line it is in (`LineInv`): both of prompts
that were not disturbed. What happens to a disturbed one must not reach the others, which
holds because the next prompt is whole wherever the remains of another stand before it.

*ConversationClaim.* `Base` holds whatever the calls see: the chain's first has the
conversation to itself, and a row without a pane has a call that answers for it.
`IInv` adds that a call past its last look knows who drives its conversation
(`ClaimInv`), that the rows it will mark are rows of sessions that are over
(`OverInv`) and that the row it opens is its own (`OpeningInv`); and that the steps
of others leave this so, since whoever could bring a session into that conversation
waits for the chain. All this is said of the conversations that are *clean*: nothing
misread, no row of theirs taken early. A row taken early stays in `early`, and a
pane that comes for it later is excused; the proof shows that no other conversation
is touched. A listing of panes that fails is safe: the process table still shows
whoever runs in a pane, and nothing is retired.

*ShadowIngest.* While a run goes on, the newest list is the one in the slot or, if
that is empty, the one being run (`NewestInv`). For the cursor: every line up to
what a replay read is in the journal or in the slices still to be appended, unless
the counter of dropped events has moved since the replay began, in which case the
replay is not accepted (`CursorInv`); the counter is one for all conversations, so
another's loss costs a replay, and never hides one. For the stamps: a stamp, in
memory or in the file, promises lines of the journal it was written for
(`Promise`), and the file at the path is the one the process has open (`PathInv`,
which is where `LiveSwap` is excluded). That what is skipped is *complete* needs
the end marker too: a stamp old enough to be skipped by was taken at most `MaxLag`
after its replay read the transcript, so with the margin covering that time and the
settle window the transcript had settled when it was read. The theorem states the
exact relation the code's two constants must have to the duration of a replay.

*TeamUploader.* Two activities share the state files and the memory across their
awaits. `TurnInv` says that what the running flag guards is one activity's: it is
held from the guard to the end, and nothing else is past the guard. `RemovalInv`
is the order of a removal: it names what an earlier journal named, its own is on
disk before its request, and it is closed only once acknowledged. With these,
`SentInv` adds to `SentIsHeld` what is *owed*: a session the central may hold less of
than the sent-state says is in the journal, and whoever is up knows it (`resume`, or
the ids of the removal being acknowledged). A crash keeps the journal, a start
reads it, the next plan takes all of it up, and an acknowledgement settles it; the
journal is closed only when nothing is owed. `NamedInv` says of all sessions what
`DeniedIsNamed` says of the denied, which is why a rule may be declared at any
moment. `MemoInv` adds that an answer being recorded is of the aggregate the
central has. What the central did unheard is carried along in `unheard` and
`unsure`: a lost answer, a crash before the file (`Recording` moves into `unheard`),
a reconciliation that clears what was recorded put a session there, and an answer
that is heard and recorded takes it out, for by then the record is true again. The
proofs are by the same cases with and without it; what they show is that these are
all the ways the record and the central can part.

Two of the provers' limits shape these modules. An induction scheme cannot be
applied, since it takes an operator as a parameter: the lemmas about sums, about the
least of a set of numbers and about the recursive function of `Accepted` take the
least counterexample instead, which the well-foundedness of `<` on the naturals and
of inclusion of finite sets provides. And temporal proofs end at safety: every
property with `~>` or fairness stays with TLC (`AppendReturns`,
`EventuallyCaughtUp`, `EventuallyComplete`, `ServerRuns`, `AcquireReturns`,
`EventuallyCurrent`, `EveryWriteEnds`, `CallsReturn`, `EventuallyShared`,
`EventuallyGone`).

Model-checked only: `OneServer` and `ServerIsVisible` of InstanceLock, with three
starts, the number it takes to rob one.

## 6. Not modelled, and why

What projections compute and their SQL; the harness replay (outside the
sources); schema migrations; parsing, formatting, rendering and routes; the
WAL's contents beyond "has frames". Of the parts that are modelled:

- *Registry*: the quarantine of an unreadable file.
- *Claims*: other processes that start sessions (`agentop session` opens a task
  without a lock), pid reuse, adoption, the arithmetic of admission, rows with no
  conversation, harnesses that do not publish theirs.
- *Terminal*: the drivers of choices, rewinds and queued messages, the shell's
  channel, the ceiling on streams, the shared snapshot of the fleet.
- *Task store*: the activity log, the seeding of status and type lists, attempts,
  filings, progress rules, files.
- *Team*: adding and removing connections, several of them and their slots,
  workflow runs and tasks, the seal ledger, requests refused for their size and
  the batch size, the migration of state files, an aborted request that lands
  late.

`PROJECT.json` says the same of each component, and why the others are left out.
Most of the repository by size is rendering, conversion and request handling, of
which a state machine would only restate the code.

## 7. Plan

1. *Proofs*: for InstanceLock `OneServer` and `ServerIsVisible`, for any number of
   starts, pids, stops and crashes.
2. *Pipeline*: shadow, journal and projections composed, with the loss of the
   WAL's tail that `synchronous = NORMAL` admits; import and backfill.
3. *Outgoing*: notification dedupe, then backup's order of steps, envelopes and
   the vault's gate.
4. *Sessions*: spawn admission, adoption, calls of other processes.
