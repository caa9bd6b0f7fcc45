-------------------------- MODULE SessionRegistry --------------------------
(***************************************************************************)
(* The registry of managed sessions: one JSON list that the server, the    *)
(* cockpit and every one-shot `agentop session ...` read, change and write *)
(* back whole, each change inside the lock of FileLock.                    *)
(* Translated from packages/server/server/sessions/registry.ts.            *)
(*                                                                         *)
(* A process runs its changes one after another (`enqueue`), so it has one *)
(* under way at a time.  The write is a temporary file of its own and a    *)
(* rename: one step.  A record is its label, and of the fields a patch may *)
(* set only the name is represented.  `touch` stamps every known session.  *)
(***************************************************************************)
EXTENDS FileLock

CONSTANTS
  Session,  \* session ids
  Asks      \* the changes that are asked for

VARIABLES
  file,    \* the list on disk: the label of each session, or Absent
  ops,     \* the change each process is making, or NoOp
  copy,    \* the list it read, or NotRead
  applied, \* history: what the changes written so far amount to, one by one
  misread  \* history: a read of the list failed while there was one

registry == <<file, ops, copy, applied, misread>>
vars == <<lockVars, registry>>

Absent == "absent"
Label  == {Absent, "unnamed", "named", "seen"}
Change == [do : {"add", "remove", "rename"}, id : Session]
            \cup [do : {"touch"}, id : {None}]

ASSUME RegistryAssumption == Asks \subseteq Change

NoOp    == [do |-> "none", id |-> None]
NotRead == [s \in {} |-> Absent]

\* What a change makes of a list.  A patch of an unknown session and the
\* removal of an absent one write nothing.
Apply(c, list) ==
  LET to(label) == [list EXCEPT ![c.id] = label] IN
  CASE c.do = "add"    -> to("unnamed")
    [] c.do = "remove" -> to(Absent)
    [] c.do = "rename" /\ list[c.id] # Absent -> to("named")
    [] c.do = "touch"  ->
         [s \in Session |-> IF list[s] = Absent THEN Absent ELSE "seen"]
    [] OTHER -> list

Init ==
  /\ LockInit
  /\ file = [s \in Session |-> Absent]
  /\ ops = [p \in Proc |-> NoOp]
  /\ copy = [p \in Proc |-> NotRead]
  /\ applied = file /\ misread = FALSE

\* add, remove, patch: queued behind the lock.
Ask(p, c) ==
  /\ Lock(p)
  /\ ops' = [ops EXCEPT ![p] = c]
  /\ UNCHANGED <<file, copy, applied, misread>>

\* Mutation of Read: the list is read while still waiting for the lock.
ReadEarly(p) ==
  /\ pc[p] # "idle" /\ copy[p] = NotRead /\ ops[p] # NoOp
  /\ copy' = [copy EXCEPT ![p] = file]
  /\ UNCHANGED <<lockVars, file, ops, applied, misread>>

Empty == [s \in Session |-> Absent]

\* Inside the lock, or without it past WAIT_MS: read the whole list (a read
\* that fails, for whatever reason, reads an empty one) ...
Read(p) ==
  /\ pc[p] \in Inside /\ copy[p] = NotRead /\ ops[p] # NoOp
  /\ \E list \in {file, Empty} :
       /\ copy' = [copy EXCEPT ![p] = list]
       /\ misread' = (misread \/ list # file)
  /\ UNCHANGED <<lockVars, file, ops, applied>>

\* ... and write it back changed, unless the change is none or the write fails.
Write(p) ==
  LET list == Apply(ops[p], copy[p]) IN
  /\ pc[p] \in Inside /\ copy[p] # NotRead
  /\ IF frozen \/ list = copy[p]
     THEN UNCHANGED <<file, applied>>
     ELSE file' = list /\ applied' = Apply(ops[p], applied)
  /\ copy' = [copy EXCEPT ![p] = NotRead]
  /\ ops' = [ops EXCEPT ![p] = NoOp]
  /\ UNCHANGED <<lockVars, misread>>

Leave(p) ==
  /\ Release(p) /\ ops[p] = NoOp
  /\ UNCHANGED registry

Die(p) ==
  /\ Crash(p)
  /\ ops' = [ops EXCEPT ![p] = NoOp]
  /\ copy' = [copy EXCEPT ![p] = NotRead]
  /\ UNCHANGED <<file, applied, misread>>

Work(p) ==
  \/ Acquire(p) /\ UNCHANGED registry
  \/ Read(p) \/ Write(p) \/ Leave(p)

Next ==
  \/ LockTime /\ UNCHANGED registry
  \/ \E p \in Proc : Work(p) \/ Die(p) \/ \E c \in Asks : Ask(p, c)

Spec == Init /\ [][Next]_vars

\* A process that is not killed keeps working, and time passes.
FairSpec ==
  /\ Spec
  /\ \A p \in Proc : WF_vars(Work(p)) /\ WF_vars(Deadline(p) /\ UNCHANGED registry)
  /\ WF_vars(Age /\ UNCHANGED registry)

-----------------------------------------------------------------------------
TypeOK ==
  /\ LockTypeOK
  /\ file \in [Session -> Label] /\ applied \in [Session -> Label]
  /\ ops \in [Proc -> Change \cup {NoOp}]
  /\ copy \in [Proc -> [Session -> Label] \cup {NotRead}]
  /\ misread \in BOOLEAN

\* registry.ts:269-275, "AND ACROSS PROCESSES": no change any process has
\* written is undone by another writing back a list it read before.  That takes
\* a process that went ahead without the lock, a lock that was robbed of its
\* holder, or a read that failed and took a full list for an empty one.
NoLostUpdate == lates = 0 /\ ~robbed /\ ~misread => file = applied
=============================================================================
