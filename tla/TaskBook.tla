------------------------------ MODULE TaskBook ------------------------------
(***************************************************************************)
(* The task board as its callers see it: a book every change of which is   *)
(* made at once, whole, and answered from the book it was made in.         *)
(* The changes are those of the object createTaskStore returns, in         *)
(* packages/server/server/sessions/task-store.ts.                          *)
(*                                                                         *)
(* Of a task the book keeps that it exists and who claims it; of a subtask *)
(* that it exists and whether it is a member of the group.  The subtasks,  *)
(* the group among them, belong to the task Home.                          *)
(***************************************************************************)
EXTENDS Naturals

CONSTANTS
  Task,     \* task ids
  Home,     \* the task that has subtasks
  Subtask,  \* subtask ids
  Group,    \* the one that is a group
  Caller,   \* whoever claims tasks and comments on them
  Nobody

VARIABLES
  book,    \* the book
  lapsed,  \* claimed tasks whose lease has run out
  told,    \* whom the board has told that a task is theirs, and not since otherwise
  wiped    \* history: tasks that were minted once more while somebody claimed them

vars == <<book, lapsed, told, wiped>>

Books == [tasks : SUBSET Task, claim : [Task -> Caller \cup {Nobody}],
          buried : SUBSET Task, subs : SUBSET Subtask, members : SUBSET Subtask,
          said : [Caller -> Nat]]

EmptyBook ==
  [tasks |-> {}, claim |-> [t \in Task |-> Nobody], buried |-> {},
   subs |-> {}, members |-> {}, said |-> [p \in Caller |-> 0]]

Change == [do : {"claim", "takeover", "release", "mint", "lift", "remove"},
           by : Caller, on : Task]
  \cup [do : {"join", "drop"}, by : Caller, on : Subtask]
  \cup [do : {"comment"}, by : Caller, on : {Home}]

\* heldByOther.  (The clock of a claim is read before the wait for the lock,
\* which is short beside a lease.)
HeldByOther(c, b) ==
  b.claim[c.on] \notin {Nobody, c.by} /\ c.on \notin lapsed

\* Does the change write the book, or answer from it?
Writes(c, b) ==
  CASE c.do = "claim"    -> c.on \in b.tasks /\ ~HeldByOther(c, b)
    [] c.do = "takeover" -> c.on \in b.tasks
    [] c.do = "release"  -> c.on \in b.tasks /\ b.claim[c.on] \in {Nobody, c.by}
    [] c.do = "remove"   -> c.on \in b.tasks
    [] c.do = "lift"     -> c.on \in b.buried
    [] c.do = "drop"     -> c.on \in b.subs
    [] OTHER             -> TRUE

\* The book with the change made.  A removal takes with it what hangs off the
\* task, or frees the members of the group.
Apply(c, b) ==
  LET claimed(by) == [b EXCEPT !.claim[c.on] = by] IN
  CASE c.do \in {"claim", "takeover"} -> claimed(c.by)
    [] c.do = "release" -> claimed(Nobody)
    [] c.do = "mint"    -> [claimed(Nobody) EXCEPT !.tasks = @ \cup {c.on}]
    [] c.do = "lift"    -> [b EXCEPT !.buried = @ \ {c.on}]
    [] c.do = "remove"  ->
         LET left == [claimed(Nobody) EXCEPT !.tasks = @ \ {c.on}, !.buried = @ \cup {c.on}] IN
         IF c.on # Home THEN left
         ELSE [left EXCEPT !.subs = {}, !.members = {}, !.said = [p \in Caller |-> 0]]
    [] c.do = "join"    -> [b EXCEPT !.subs = @ \cup {c.on}, !.members = @ \cup {c.on}]
    [] c.do = "drop"    -> [b EXCEPT !.subs = @ \ {c.on},
                                     !.members = IF c.on = Group THEN {} ELSE @ \ {c.on}]
    [] c.do = "comment" -> [b EXCEPT !.said[c.by] = @ + 1]

\* Whose a task is once the answer is out, by what everybody has been told.  A
\* takeover is announced, and a task that is gone is nobody's.
Told(c) ==
  CASE c.do = "claim"    -> [told EXCEPT ![c.on] = @ \cup {c.by}]
    [] c.do = "takeover" -> [told EXCEPT ![c.on] = {c.by}]
    [] c.do = "release"  -> [told EXCEPT ![c.on] = @ \ {c.by}]
    [] c.do = "remove"   -> [told EXCEPT ![c.on] = {}]
    [] OTHER             -> told

\* A mint of a task that is there writes a fresh record over it.
Wiped(c) ==
  IF c.do = "mint" /\ book.claim[c.on] # Nobody THEN wiped \cup {c.on} ELSE wiped

\* Mutation of Renewed: the new claim keeps the expiry of the old one.
NotRenewed(c) == IF c.do = "claim" THEN lapsed ELSE lapsed \ {c.on}

\* A lease starts anew with every write of the claim.
Renewed(c) == lapsed \ {c.on}

-----------------------------------------------------------------------------
Init ==
  /\ book = [EmptyBook EXCEPT !.tasks = {Home}, !.subs = Subtask]
  /\ lapsed = {}
  /\ told = [t \in Task |-> {}]
  /\ wiped = {}

Do(c) ==
  /\ Writes(c, book)
  /\ book' = Apply(c, book)
  /\ told' = Told(c)
  /\ wiped' = Wiped(c)
  /\ lapsed' = Renewed(c)

\* DEFAULT_LEASE_MS after the claim.  Its holder can know.
Lapse(t) ==
  /\ book.claim[t] # Nobody /\ t \notin lapsed
  /\ lapsed' = lapsed \cup {t}
  /\ told' = [told EXCEPT ![t] = {}]
  /\ UNCHANGED <<book, wiped>>

Next == (\E c \in Change : Do(c)) \/ (\E t \in Task : Lapse(t))

Spec == Init /\ [][Next]_vars

-----------------------------------------------------------------------------
TypeOK ==
  /\ book \in Books
  /\ lapsed \subseteq Task
  /\ told \in [Task -> SUBSET Caller]
  /\ wiped \subseteq Task

\* task-next.ts, "Two agents taking the same task and doing it twice is the
\* failure mode of every shared queue": no task is two callers' at once, but for
\* one whose claim a mint has wiped.
OneClaimant == \A t \in Task \ wiped : \A p, q \in told[t] : p = q
=============================================================================
