----------------------------- MODULE TaskStore -----------------------------
(***************************************************************************)
(* The task board on disk: one JSON document that the handlers of the      *)
(* server, the cockpit and every `agentop session ...` read, change and    *)
(* write back whole, each change inside the lock of FileLock.              *)
(* Translated from packages/server/server/sessions/task-store.ts, and from *)
(* its callers in task-source.ts and task-web.ts.                          *)
(*                                                                         *)
(* Every handler makes a store of its own, so that each is a process of    *)
(* FileLock and nothing but the lock orders their changes.  A handler      *)
(* loads the board (which mints the tasks of names that sessions carry),   *)
(* plans its changes from what it loaded, without the lock, and then makes *)
(* them one by one.                                                        *)
(*                                                                         *)
(* Left out: the activity log, the seeding of the status and type lists,   *)
(* the other fields of tasks and subtasks, filings.                        *)
(***************************************************************************)
EXTENDS FileLock, Sequences, SequencesExt

CONSTANTS
  Task, Home, Subtask, Group,   \* as in TaskBook
  Legacy,       \* the tasks whose ids derive from a name that sessions carry
  Title,        \* the title of each task
  MaxHandlers   \* bound: handlers run, waits that reached WAIT_MS and crashes together

ASSUME TaskStoreAssumption ==
  /\ Home \in Task /\ Legacy \subseteq Task \ {Home} /\ Group \in Subtask
  /\ IsFiniteSet(Legacy)
  /\ \A k, l \in Legacy : Title[k] = Title[l] => k = l

VARIABLES
  file,     \* the book on disk; empty when the bytes there do not parse
  spoilt,   \* do they not?
  tmp,      \* what the temporary file holds: nothing, or a book and whether it is spoilt
  lapsed, told, wiped,   \* as in TaskBook
  raced,    \* history: the titles two handlers were about to make a task of
  handler,  \* what each caller was asked for, or NoHandler
  todo,     \* the changes it has still to make
  loaded,   \* it has minted, and looked at the board
  at,       \* where its change is: "start", "read", "written", "done", "thrown"
  copy,     \* the book its change read
  again,    \* its change is being made once more
  handlers  \* bound: handlers run so far

bookVars  == <<file, spoilt, tmp, lapsed, told, wiped>>
boardVars == <<bookVars, raced>>
callVars  == <<handler, todo, loaded, at, copy, again, handlers>>
vars == <<lockVars, boardVars, callVars>>

NoHandler == [do |-> "none", by |-> None, on |-> None]

Book == INSTANCE TaskBook WITH book <- file, Caller <- Proc, Nobody <- None

NotRead == [book |-> Book!EmptyBook, corrupt |-> FALSE]

Init ==
  /\ LockInit /\ Book!Init
  /\ spoilt = FALSE /\ tmp = <<>> /\ raced = {}
  /\ handler = [p \in Proc |-> NoHandler]
  /\ todo = [p \in Proc |-> <<>>]
  /\ loaded = [p \in Proc |-> FALSE]
  /\ at = [p \in Proc |-> "start"]
  /\ copy = [p \in Proc |-> NotRead]
  /\ again = [p \in Proc |-> FALSE]
  /\ handlers = 0

Handler ==
  [do : {"claim", "takeover", "release", "remove", "create"}, by : Proc, on : Task]
    \cup [do : {"join", "drop"}, by : Proc, on : Subtask]
    \cup [do : {"comment"}, by : Proc, on : {Home}]

Asks(p, kinds, things) == [do : kinds, by : {p}, on : things]

-----------------------------------------------------------------------------
(***************************************************************************)
(* The handlers.                                                           *)
(***************************************************************************)

\* Mutation of Missing: a name is known by the id it derives to alone.
MissingById(b) == Legacy \ (b.tasks \cup b.buried)

\* ensureLegacyTasks: the names nobody carries yet, or has deleted.
Missing(b) ==
  {l \in Legacy : l \notin b.buried /\ \A t \in b.tasks : Title[t] # Title[l]}

Mints(p) == SetToSeq({[do |-> "mint", by |-> p, on |-> l] : l \in Missing(file)})

\* A created task's id is new.
NewId(t) ==
  /\ t \notin Legacy \cup file.tasks \cup file.buried
  /\ \A p \in Proc : handler[p].on # t

Asked(p) ==
  Asks(p, {"claim", "takeover", "release", "remove"}, Task)
    \cup Asks(p, {"create"}, {t \in Task : NewId(t)})
    \cup Asks(p, {"join"}, Subtask \ {Group})
    \cup Asks(p, {"drop"}, Subtask)
    \cup Asks(p, {"comment"}, {Home})

Budget == handlers + lates + crashes < MaxHandlers

\* The tasks a list of changes makes, and the titles of those of which another
\* handler is about to make one, too.
Made(changes) ==
  {changes[i].on : i \in {j \in DOMAIN changes : changes[j].do = "mint"}}

Races(p, changes) ==
  {Title[t] : t \in Made(changes)}
    \cap {Title[t] : t \in UNION {Made(todo[q]) : q \in Proc \ {p}}}

\* A handler begins: the first look of loadTaskWorld.
Open(p, h) ==
  /\ pc[p] = "idle" /\ handler[p] = NoHandler /\ Budget
  /\ handlers' = handlers + 1
  /\ handler' = [handler EXCEPT ![p] = h]
  /\ todo' = [todo EXCEPT ![p] = Mints(p)]
  /\ raced' = raced \cup Races(p, Mints(p))
  /\ UNCHANGED <<lockVars, bookVars, loaded, at, copy, again>>

\* createTask: same title, same work.  Else the name's tombstone is lifted.
Creation(h, b) ==
  IF \E t \in b.tasks : Title[t] = Title[h.on] THEN <<>>
  ELSE LET lifts == {[do |-> "lift", by |-> h.by, on |-> l] :
                       l \in {k \in Legacy : Title[k] = Title[h.on]}} IN
       Append(SetToSeq(lifts), [h EXCEPT !.do = "mint"])

\* What a handler does about the board it looked at.
Plan(h, b) ==
  CASE h.do = "create" -> Creation(h, b)
    [] h.do \in {"claim", "takeover", "release", "remove", "comment"} /\ h.on \in b.tasks -> <<h>>
    [] h.do = "join" /\ {h.on, Group} \subseteq b.subs -> <<h>>
    [] h.do = "drop" /\ h.on \in b.subs -> <<h>>
    [] OTHER -> <<>>

\* The rest of a handler: the changes left, or its reply.
Proceed(p, changes, acting) ==
  LET over == acting /\ changes = <<>> IN
  /\ todo' = [todo EXCEPT ![p] = changes]
  /\ loaded' = [loaded EXCEPT ![p] = acting /\ ~over]
  /\ handler' = [handler EXCEPT ![p] = IF over THEN NoHandler ELSE @]

\* The second look, on which the handler acts.
Look(p) ==
  /\ handler[p] # NoHandler /\ ~loaded[p] /\ todo[p] = <<>> /\ pc[p] = "idle"
  /\ Proceed(p, Plan(handler[p], file), TRUE)
  /\ raced' = raced \cup Races(p, Plan(handler[p], file))
  /\ UNCHANGED <<lockVars, bookVars, at, copy, again, handlers>>

-----------------------------------------------------------------------------
(***************************************************************************)
(* One change: enqueue, withFileLock, read, write.                         *)
(***************************************************************************)
Take(p) ==
  /\ todo[p] # <<>> /\ at[p] = "start" /\ Lock(p)
  /\ UNCHANGED <<boardVars, callVars>>

\* Mutation of Read: the book is read while still waiting for the lock.
ReadEarly(p) ==
  /\ pc[p] \notin {"idle", "dead"} /\ at[p] = "start"
  /\ copy' = [copy EXCEPT ![p] = [book |-> file, corrupt |-> spoilt]]
  /\ at' = [at EXCEPT ![p] = IF Book!Writes(Head(todo[p]), file) THEN "read" ELSE "done"]
  /\ UNCHANGED <<lockVars, boardVars, handler, todo, loaded, again, handlers>>

Read(p) ==
  /\ pc[p] \in Inside /\ at[p] = "start"
  /\ copy' = [copy EXCEPT ![p] = [book |-> file, corrupt |-> spoilt]]
  /\ at' = [at EXCEPT ![p] = IF Book!Writes(Head(todo[p]), file) THEN "read" ELSE "done"]
  /\ UNCHANGED <<lockVars, boardVars, handler, todo, loaded, again, handlers>>

\* Bytes that did not parse are moved aside, and the changed book goes into the
\* temporary file, which has one name for all: two that write it at a time may
\* leave a mixture.
WriteTmp(p) ==
  LET list == Book!Apply(Head(todo[p]), copy[p].book) IN
  /\ pc[p] \in Inside /\ at[p] = "read"
  /\ IF copy[p].corrupt THEN file' = Book!EmptyBook /\ spoilt' = FALSE
                        ELSE UNCHANGED <<file, spoilt>>
  /\ \/ tmp' = <<list, FALSE>>
     \/ /\ \E q \in Proc \ {p} : pc[q] \in Inside /\ at[q] = "written"
        /\ tmp' = <<Book!EmptyBook, TRUE>>
  /\ at' = [at EXCEPT ![p] = "written"]
  /\ UNCHANGED <<lockVars, lapsed, told, wiped, raced, handler, todo, loaded, copy,
                 again, handlers>>

\* The rename.  It throws when another writer has renamed the file away.
Rename(p) ==
  LET c == Head(todo[p]) IN
  /\ pc[p] \in Inside /\ at[p] = "written"
  /\ IF tmp = <<>>
     THEN /\ at' = [at EXCEPT ![p] = "thrown"]
          /\ UNCHANGED bookVars
     ELSE /\ at' = [at EXCEPT ![p] = "done"]
          /\ file' = tmp[1] /\ spoilt' = tmp[2] /\ tmp' = <<>>
          /\ told' = Book!Told(c) /\ lapsed' = Book!Renewed(c)
          /\ wiped' = Book!Wiped(c)
  /\ UNCHANGED <<lockVars, raced, handler, todo, loaded, copy, again, handlers>>

\* The lock is released.  A change made without the lock is made once more,
\* and one that threw ends its handler.
Leave(p) ==
  /\ at[p] \in {"done", "thrown"} /\ Release(p)
  /\ at' = [at EXCEPT ![p] = "start"]
  /\ copy' = [copy EXCEPT ![p] = NotRead]
  /\ again' = [again EXCEPT ![p] = at[p] = "done" /\ pc[p] = "contended" /\ ~@]
  /\ CASE at[p] = "thrown" -> Proceed(p, <<>>, TRUE)
       [] again'[p] -> UNCHANGED <<todo, loaded, handler>>
       [] OTHER -> Proceed(p, Tail(todo[p]), loaded[p])
  /\ UNCHANGED <<boardVars, handlers>>

-----------------------------------------------------------------------------
(***************************************************************************)
(* Time and failure.                                                       *)
(***************************************************************************)
Lapse(t) ==
  /\ Book!Lapse(t)
  /\ UNCHANGED <<lockVars, spoilt, tmp, raced, callVars>>

Time ==
  /\ Age \/ (Budget /\ \E p \in Proc : Deadline(p))
  /\ UNCHANGED <<boardVars, callVars>>

\* A process is killed, wherever its handler is.
Die(p) ==
  /\ Budget /\ Crash(p)
  /\ Proceed(p, <<>>, TRUE)
  /\ at' = [at EXCEPT ![p] = "start"]
  /\ copy' = [copy EXCEPT ![p] = NotRead]
  /\ again' = [again EXCEPT ![p] = FALSE]
  /\ UNCHANGED <<boardVars, handlers>>

Work(p) ==
  \/ Look(p) \/ Take(p)
  \/ Acquire(p) /\ UNCHANGED <<boardVars, callVars>>
  \/ Read(p) \/ WriteTmp(p) \/ Rename(p) \/ Leave(p)

Next ==
  \/ Time \/ \E t \in Task : Lapse(t)
  \/ \E p \in Proc : Work(p) \/ Die(p) \/ \E h \in Asked(p) : Open(p, h)

Spec == Init /\ [][Next]_vars

-----------------------------------------------------------------------------
TypeOK ==
  /\ LockTypeOK
  /\ file \in Book!Books /\ spoilt \in BOOLEAN
  /\ tmp \in {<<>>} \cup (Book!Books \X BOOLEAN)
  /\ lapsed \subseteq Task /\ wiped \subseteq Task /\ told \in [Task -> SUBSET Proc]
  /\ raced \subseteq {Title[t] : t \in Task}
  /\ handler \in [Proc -> Handler \cup {NoHandler}]
  /\ todo \in [Proc -> Seq(Book!Change)] /\ loaded \in [Proc -> BOOLEAN]
  /\ at \in [Proc -> {"start", "read", "written", "done", "thrown"}]
  /\ copy \in [Proc -> [book : Book!Books, corrupt : BOOLEAN]]
  /\ again \in [Proc -> BOOLEAN]

\* task-store.ts:12-14: in whatever order handlers, crashes and takeovers of
\* the lock come, the file is a book whose changes are made one at a time, each
\* whole and decided by the book it is made in.  Only a change that goes ahead
\* without the lock, or was robbed of it, may break this.
Atomic ==
  Book!Init /\ [][Book!Next \/ lates' > 0 \/ robbed']_<<file, lapsed, told, wiped>>

\* task-next.ts:7-10: whatever the handlers had seen, no task is two callers'.
\* What takes a claim unseen is the minting of a name by a handler that looked
\* for it before another had minted it.
OneClaimant == lates = 0 /\ ~robbed => Book!OneClaimant

\* task-web.ts:119-120, "Same title = same work. Creating a second one silently
\* would split a delivery's metrics in two", and task-source.ts:71-76: no two
\* tasks have one title, whatever is created, minted and deleted, but where two
\* handlers were about to make a task of it at once: neither the creation nor
\* the minting looks for the title again inside the lock.
OneTaskPerTitle ==
  lates = 0 /\ ~robbed =>
    \A s, t \in file.tasks : Title[s] = Title[t] => s = t \/ Title[s] \in raced

\* task-store.ts:630-637: no subtask is a member of a group that is gone.  This
\* does not hold, and no run checks it: a subtask joins by a write of the record
\* its handler looked at before the group was removed.
MembersHaveGroup == file.members # {} => Group \in file.subs
=============================================================================
