---------------------------- MODULE InstanceLock ----------------------------
(***************************************************************************)
(* One server per data directory: the lock file a server creates with      *)
(* O_EXCL before it starts anything, and removes when it stops.            *)
(* Translated from packages/server/server/single-instance.ts.              *)
(*                                                                         *)
(* A member of Start is one process that starts a server; its pid may have *)
(* belonged to another process before.  Every file-system call is a step   *)
(* of its own, so the calls of two starts interleave.  A lock file is the  *)
(* process that created it and what it holds: nothing yet, or the pid and  *)
(* the start ticks of its creator.  `agentop server` first asks who holds  *)
(* the lock, before it loads anything; the claim stays the authority.      *)
(***************************************************************************)
EXTENDS Naturals, FiniteSets

CONSTANTS
  Start,     \* processes that start a server
  None,      \* no file, no process
  Pid,       \* pids the system hands out
  Service,   \* the starts that wait for a holder (systemd) instead of exiting
  HasTicks,  \* does the platform say when a process started?
  MaxStops,    \* bound: servers that stop and release
  MaxCrashes,  \* bound: processes killed before they release
  MaxDegraded  \* bound: creates that fail for a reason other than EEXIST

ASSUME InstanceAssumption ==
  /\ None \notin Start
  /\ Service \subseteq Start
  /\ HasTicks \in BOOLEAN
  /\ None \notin Pid

VARIABLES
  lock,    \* the lock file: [by, written, fresh], or NoLock
  pc,      \* where each process is
  attempt, \* the attempt claimInstanceLock is at
  pid,     \* the pid of each process, once started
  seen,    \* whom the lock named when the process read it, or None
  found,   \* history: the process whose lock it read, named there or not
  robbed,  \* history: a start removed another lock than the one it had read
  stops, crashes, degraded   \* bounds

history == <<found, robbed>>
bounds  == <<stops, crashes, degraded>>
vars == <<lock, pc, attempt, pid, seen, history, bounds>>

NoLock == [by |-> None, written |-> FALSE, fresh |-> FALSE]

\* isAlive: kill(pid, 0).
Alive  == {p \in Start : pc[p] \notin {"new", "gone"}}

\* parseLock: whom the lock file names, if it names anybody.
Names(l) == IF l.written THEN l.by ELSE None

Goto(p, l) == pc' = [pc EXCEPT ![p] = l]

Init ==
  /\ lock = NoLock
  /\ pc = [p \in Start |-> "new"]
  /\ attempt = [p \in Start |-> 1]
  /\ pid = [p \in Start |-> None]
  /\ seen = [p \in Start |-> None]
  /\ found = [p \in Start |-> None] /\ robbed = FALSE
  /\ stops = 0 /\ crashes = 0 /\ degraded = 0

\* Mutation of Holds: the start ticks are never compared.
HoldsByPid(h) == \E q \in Alive : pid[q] = pid[h]

\* holdsLock: the writer itself is alive, or, where nothing says when a
\* process started, any process with its pid.
Holds(h) ==
  IF HasTicks THEN h \in Alive ELSE \E q \in Alive : pid[q] = pid[h]

-----------------------------------------------------------------------------
(***************************************************************************)
(* A start, and the early question of `agentop server`.                    *)
(***************************************************************************)

\* A process gets a pid no live process has; a dead one may have had it.
\* The server's own entry point claims at once.
Begin(p) ==
  /\ pc[p] = "new"
  /\ \E n \in Pid : /\ \A q \in Alive : pid[q] # n
                    /\ pid' = [pid EXCEPT ![p] = n]
  /\ \E l \in {"probe", "create"} : Goto(p, l)
  /\ UNCHANGED <<lock, attempt, seen, history, bounds>>

HolderLives(p) == seen[p] # None /\ Holds(seen[p])

\* probeInstanceLock: read the lock, then ask about whom it names.
Probe(p) ==
  /\ pc[p] = "probe"
  /\ seen' = [seen EXCEPT ![p] = Names(lock)]
  /\ Goto(p, "probed")
  /\ UNCHANGED <<lock, attempt, pid, history, bounds>>

ProbedFree(p) ==
  /\ pc[p] = "probed"
  /\ ~HolderLives(p)
  /\ Goto(p, "create")
  /\ UNCHANGED <<lock, attempt, pid, seen, history, bounds>>

\* waitForInstanceFree: the service manager's start asks again; its wait may
\* be over, and a start by hand never waits.
ProbedHeld(p) ==
  /\ pc[p] = "probed"
  /\ HolderLives(p)
  /\ Goto(p, "gone") \/ (p \in Service /\ Goto(p, "probe"))
  /\ UNCHANGED <<lock, attempt, pid, seen, history, bounds>>

-----------------------------------------------------------------------------
(***************************************************************************)
(* claimInstanceLock: at most two attempts.                                *)
(***************************************************************************)

\* Mutation of Create: 'w' for 'wx'.
CreateOver(p) ==
  /\ pc[p] = "create"
  /\ lock' = [by |-> p, written |-> FALSE, fresh |-> TRUE] /\ Goto(p, "write")
  /\ UNCHANGED <<attempt, pid, seen, history, bounds>>

\* open(file, 'wx'): creates the file, or fails because it exists.
Create(p) ==
  /\ pc[p] = "create"
  /\ IF lock = NoLock
     THEN lock' = [by |-> p, written |-> FALSE, fresh |-> TRUE] /\ Goto(p, "write")
     ELSE Goto(p, "read") /\ UNCHANGED lock
  /\ UNCHANGED <<attempt, pid, seen, history, bounds>>

\* Any other failure of the create, or of the write of the pid into the file
\* it created: the server runs without a claim.
Degrade(p) ==
  /\ pc[p] \in {"create", "write"}
  /\ degraded < MaxDegraded /\ degraded' = degraded + 1
  /\ Goto(p, "unguarded")
  /\ UNCHANGED <<lock, attempt, pid, seen, history, stops, crashes>>

\* The pid goes into the file this process created, wherever that file is now.
WritePid(p) ==
  /\ pc[p] = "write"
  /\ lock' = IF lock.by = p THEN [lock EXCEPT !.written = TRUE] ELSE lock
  /\ Goto(p, "serving")
  /\ UNCHANGED <<attempt, pid, seen, history, bounds>>

ReadHolder(p) ==
  /\ pc[p] = "read"
  /\ seen' = [seen EXCEPT ![p] = Names(lock)]
  /\ found' = [found EXCEPT ![p] = lock.by]
  /\ Goto(p, "check")
  /\ UNCHANGED <<lock, attempt, pid, robbed, bounds>>

\* Mutation of Believed: a file that names nobody is stale at once.
BelievedNamed(p) == HolderLives(p)

\* isFresh of a file that names nobody yet.
Believed(p) ==
  IF seen[p] # None THEN Holds(seen[p]) ELSE lock.fresh

CheckHolder(p) ==
  /\ pc[p] = "check"
  /\ Goto(p, IF Believed(p) THEN "refused" ELSE "unlink")
  /\ UNCHANGED <<lock, attempt, pid, seen, history, bounds>>

\* Stale: drop whatever is at the path and go round once more.
UnlinkStale(p) ==
  /\ pc[p] = "unlink"
  /\ lock' = NoLock
  /\ robbed' = (robbed \/ lock.by \notin {None, found[p]})
  /\ found' = [found EXCEPT ![p] = None]
  /\ attempt' = [attempt EXCEPT ![p] = @ + 1]
  /\ Goto(p, IF attempt[p] = 1 THEN "create" ELSE "refused")
  /\ UNCHANGED <<pid, seen, bounds>>

\* waitForInstanceLock: a start by the service manager claims again.
Poll(p) ==
  /\ pc[p] = "refused" /\ p \in Service
  /\ attempt' = [attempt EXCEPT ![p] = 1]
  /\ Goto(p, "create")
  /\ UNCHANGED <<lock, pid, seen, history, bounds>>

\* A start by hand exits; one by the service manager does when SERVICE_LOCK_WAIT
\* is over, and is not started again.
Leave(p) ==
  /\ pc[p] = "refused"
  /\ Goto(p, "gone")
  /\ UNCHANGED <<lock, attempt, pid, seen, history, bounds>>

-----------------------------------------------------------------------------
(***************************************************************************)
(* releaseSync: remove the lock if it still names this pid.                *)
(***************************************************************************)
ReadRelease(p) ==
  /\ pc[p] = "serving" /\ stops < MaxStops
  /\ stops' = stops + 1
  /\ Goto(p, IF lock.written /\ pid[lock.by] = pid[p] THEN "release" ELSE "gone")
  /\ UNCHANGED <<lock, attempt, pid, seen, history, crashes, degraded>>

UnlinkOwn(p) ==
  /\ pc[p] = "release"
  /\ lock' = NoLock
  /\ Goto(p, "gone")
  /\ UNCHANGED <<attempt, pid, seen, history, bounds>>

-----------------------------------------------------------------------------
(***************************************************************************)
(* The environment.                                                        *)
(***************************************************************************)
Crash(p) ==
  /\ p \in Alive /\ crashes < MaxCrashes
  /\ crashes' = crashes + 1
  /\ Goto(p, "gone")
  /\ UNCHANGED <<lock, attempt, pid, seen, history, stops, degraded>>

\* UNREADABLE_GRACE_MS passes over the file.  No live process spends that
\* long between creating it and writing its pid, or between finding it empty
\* and asking its age.
Age ==
  /\ lock.fresh
  /\ \A p \in Start :
       /\ pc[p] = "write" => lock.by # p
       /\ pc[p] = "check" /\ seen[p] = None => ~lock.written
  /\ lock' = [lock EXCEPT !.fresh = FALSE]
  /\ UNCHANGED <<pc, attempt, pid, seen, history, bounds>>

-----------------------------------------------------------------------------
Claim(p) ==
  \/ Probe(p) \/ ProbedFree(p) \/ ProbedHeld(p)
  \/ Create(p) \/ WritePid(p) \/ ReadHolder(p) \/ CheckHolder(p)
  \/ UnlinkStale(p) \/ Poll(p) \/ Leave(p) \/ UnlinkOwn(p)

Next ==
  \/ Age
  \/ \E p \in Start :
       Begin(p) \/ Claim(p) \/ Degrade(p) \/ ReadRelease(p) \/ Crash(p)

Spec == Init /\ [][Next]_vars

\* A process that is not killed keeps running, the service manager starts its
\* unit, and time passes.  Nothing forces a server to stop.
FairSpec ==
  /\ Spec
  /\ WF_vars(Age)
  /\ \A p \in Start : WF_vars(Claim(p))
  /\ \A p \in Service : WF_vars(Begin(p))

-----------------------------------------------------------------------------
Serving == {p \in Start : pc[p] \in {"write", "serving"}}

TypeOK ==
  /\ lock \in [by : Start \cup {None}, written : BOOLEAN, fresh : BOOLEAN]
  /\ pc \in [Start -> {"new", "probe", "probed", "create", "write", "read",
                       "check", "unlink", "refused", "serving", "unguarded",
                       "release", "gone"}]
  /\ attempt \in [Start -> 1..3]
  /\ pid \in [Start -> Pid \cup {None}]
  /\ seen \in [Start -> Start \cup {None}]
  /\ found \in [Start -> Start \cup {None}] /\ robbed \in BOOLEAN
  /\ stops \in Nat /\ crashes \in Nat /\ degraded \in Nat

\* single-instance.ts:176-181: never two servers that both claimed, whatever
\* stale lock a crash left and whoever goes for it.  "Two processes finding the
\* same stale lock still produce exactly one winner" is not so: the one that is
\* slower to remove it may remove the winner's instead.  Nothing else lets two
\* servers in.
OneServer == robbed \/ Cardinality(Serving) <= 1

\* A server that claimed the data directory stays visible there: whoever asks
\* finds its lock until it stops, whatever other starts and stops did, unless
\* it was robbed of it in that way.
ServerIsVisible == robbed \/ \A p \in Start : pc[p] = "serving" => lock.by = p

Running == {p \in Start : pc[p] \in {"serving", "unguarded"}}

\* A crash is never worse than the duplicate the lock prevents: while a start
\* of the service manager waits, a server runs in the end, whatever a dead
\* one left behind and whoever has its pid now.
ServerRuns ==
  (\E p \in Service : pc[p] \in {"probe", "create", "refused"}) ~>
    (Running # {} \/ \A p \in Service : pc[p] = "gone")
=============================================================================
