------------------------- MODULE ConversationClaim -------------------------
(***************************************************************************)
(* The door to a conversation: how one server keeps two assistants out of  *)
(* one transcript when several requests resume, reopen, start and end      *)
(* sessions at once (cli-start.ts, sessions/resume-lock.ts,                *)
(* reopen-attempt.ts, live-claims.ts, task-reopen.ts, registry.ts).        *)
(*                                                                         *)
(* A session is a registry row and a tmux pane under the same id. The row  *)
(* is written before the pane exists and is marked ended, never deleted,   *)
(* when another session takes its place. An assistant may also run outside *)
(* the fleet, as a process with no pane. One harness is modelled, one that *)
(* publishes which conversation each of its processes drives.              *)
(***************************************************************************)
EXTENDS Naturals, FiniteSets, Sequences

CONSTANTS
    Req,        \* the calls the server gets
    Id,         \* managed session ids, a prefix of the naturals
    Proc,       \* assistant processes outside the fleet
    Conv,       \* conversations
    Fresh,      \* those among them that no one has begun yet
    DirOf,      \* the working directory of each conversation
    OldConv,    \* the rows the registry starts with: a sequence of conversations
    None,
    MaxMishaps  \* listings, claim reads and launches that fail, sessions that
                \* end by themselves and restarts of the server

ClaimAssumption ==
    /\ Id = 1..Cardinality(Id) /\ IsFiniteSet(Id)
    /\ Fresh \subseteq Conv
    /\ OldConv \in Seq(Conv \ Fresh) /\ Len(OldConv) <= Cardinality(Id)
    /\ None \notin Id \cup Proc \cup Conv
    /\ Proc \cap Id = {}
    /\ DOMAIN DirOf = Conv
    /\ MaxMishaps \in Nat

ASSUME ClaimAssumption

VARIABLES
    row,    \* the registry: free, standing, ended or removed
    conv,   \* the conversation a row records
    pane,   \* tmux: unborn, up, dead (its command exited) or gone
    proc,   \* the conversation an outside process drives, None when it is gone
    chain,  \* per conversation, the calls that wait for it, the first one inside
    job,    \* what each call is doing
    mishaps, \* how many there have been
    early,  \* history: rows that a call took for fallen or for over while
            \* their panes were about to come
    misread \* history: conversations that somebody held and a failed read of
            \* the claims showed free

history == <<early, misread>>
vars == <<row, conv, pane, proc, chain, job, mishaps, history>>

Old == 1..Len(OldConv)

Idle == [at |-> "idle", kind |-> None, conv |-> None, old |-> None, new |-> None,
         todo |-> {}, ids |-> {}, doomed |-> {}, target |-> None, last |-> FALSE]

TypeOK ==
    /\ row \in [Id -> {"free", "standing", "ended", "removed"}]
    /\ conv \in [Id -> Conv \cup {None}]
    /\ pane \in [Id -> {"unborn", "up", "dead", "gone"}]
    /\ proc \in [Proc -> Conv \cup {None}]
    /\ chain \in [Conv -> Seq(Req)]
    /\ job \in [Req ->
         [at : {"idle", "asked", "plan", "next", "confirm", "ending", "gate", "pane",
                "settle", "abandon", "list", "read", "patch", "supersede", "retire",
                "done", "lost"},
          kind : {"resume", "reopen", "start", "end", None},
          conv : Conv \cup {None}, old : Id \cup {None}, new : Id \cup {None},
          todo : SUBSET Id, ids : SUBSET Id, doomed : SUBSET Id,
          target : Proc \cup Id \cup {None}, last : BOOLEAN]]
    /\ mishaps \in 0..MaxMishaps
    /\ early \subseteq Id /\ misread \subseteq Conv

(* After a reboot the rows stand and no pane does; assistants may have been
   started by hand since, at most one in a conversation. *)
Init ==
    /\ row = [i \in Id |-> IF i \in Old THEN "standing" ELSE "free"]
    /\ conv = [i \in Id |-> IF i \in Old THEN OldConv[i] ELSE None]
    /\ pane = [i \in Id |-> IF i \in Old THEN "gone" ELSE "unborn"]
    /\ proc \in {f \in [Proc -> (Conv \ Fresh) \cup {None}] :
                   \A p, q \in Proc : p # q /\ f[p] # None => f[p] # f[q]}
    /\ chain = [c \in Conv |-> <<>>]
    /\ job = [r \in Req |-> Idle]
    /\ mishaps = 0
    /\ early = {} /\ misread = {}

-----------------------------------------------------------------------------
(* Who drives what *)

Up == {i \in Id : pane[i] = "up"}
Listed == {i \in Id : pane[i] \in {"up", "dead"}}
Standing == {i \in Id : row[i] = "standing"}
RowsOf(c) == {i \in Id : conv[i] = c}
Least(S) == CHOOSE i \in S : \A j \in S : i <= j

Mishap == mishaps < MaxMishaps /\ mishaps' = mishaps + 1

(* liveConversationHolders: the first live, standing row of the conversation,
   else a process that drives it -- the process of a pane whose row does not
   stand among them. Each source in `hidden' failed and reads as empty. *)
Holders(c, hidden) ==
    LET managed == IF hidden \cap {"rows", "panes"} # {} THEN {}
                   ELSE Standing \cap Up \cap RowsOf(c)
        process == IF "procs" \in hidden THEN {}
                   ELSE {p \in Proc : proc[p] = c} \cup (Up \cap RowsOf(c))
    IN  IF managed # {} THEN {[kind |-> "managed", who |-> Least(managed)]}
                        ELSE {[kind |-> "process", who |-> p] : p \in process}

(* conversationHeldBy: a row is not held by itself. *)
HeldBy(c, hidden, except) ==
    {h \in Holders(c, hidden) : h # [kind |-> "managed", who |-> except]}

(* A read with failed sources shows the conversation free, and it is not. *)
Hides(c, hidden, except) ==
    HeldBy(c, hidden, except) = {} /\ HeldBy(c, {}, except) # {}

Sources == {"rows", "panes", "procs"}

(* Each source that fails to be read is a mishap. *)
Blind(hidden) ==
    /\ mishaps' = mishaps + Cardinality(hidden)
    /\ mishaps' <= MaxMishaps

(* conversationAlreadyOpen: another standing row of the conversation is up. *)
AlreadyOpen(c, except, hidden) ==
    /\ "rows" \notin hidden
    /\ (Standing \cap Up \cap RowsOf(c)) \ {except} # {}

(* What is on disk: the conversations of the past, and a fresh one once its
   session has come up. *)
Begun(c) == c \in Fresh => \E i \in RowsOf(c) : pane[i] # "unborn"

(* planTaskReopen: rows that fell, not held elsewhere, one per conversation. *)
Reopenable(S, hidden) ==
    LET down == {i \in S \cap Standing :
                   i \notin Up /\ Begun(conv[i]) /\ HeldBy(conv[i], hidden, i) = {}}
    IN  {i \in down : \A j \in down : conv[j] = conv[i] => i <= j}

-----------------------------------------------------------------------------
(* A call's place *)

At(r, place) == job[r].at = place
Goes(r, place) == job' = [job EXCEPT ![r].at = place]

\* Mutation of Inside: withResumeLock only counts the calls.
InsideUnlocked(r) == chain[job[r].conv] # <<>>

(* withResumeLock: a call waits behind every earlier one of its conversation,
   and leaves the chain however it ends. *)
Joins(r, c) == chain' = [chain EXCEPT ![c] = Append(@, r)]
Inside(r) == chain[job[r].conv] # <<>> /\ Head(chain[job[r].conv]) = r
Locks(r) == job[r].kind \in {"resume", "reopen"}

(* The call is over, or the reopen goes on with its next row. *)
Finish(r) ==
    /\ IF job[r].kind = "reopen"
       THEN job' = [job EXCEPT ![r] =
                      [Idle EXCEPT !.at = "next", !.kind = "reopen", !.todo = job[r].todo]]
       ELSE job' = [job EXCEPT ![r] = [Idle EXCEPT !.at = "done"]]
    /\ IF Locks(r) THEN chain' = [chain EXCEPT ![job[r].conv] = Tail(@)]
                   ELSE UNCHANGED chain

(* What a client may name. *)
Offered == {i \in Id : row[i] \in {"standing", "ended"}}

Unborn == {i \in Id : pane[i] = "unborn"}

-----------------------------------------------------------------------------
(* The calls *)

(* resumeSession, of a conversation a row that is down offers, or of one no
   row is named for. *)
AskResume(r) ==
    /\ At(r, "idle")
    /\ \E c \in Conv, i \in (Offered \ Up) \cup {None} :
         /\ Begun(c) /\ (i # None => conv[i] = c)
         /\ job' = [job EXCEPT ![r] =
                      [Idle EXCEPT !.at = "asked", !.kind = "resume", !.conv = c, !.old = i]]
         /\ Joins(r, c)
         /\ early' = early \cup ({i} \cap Unborn)
    /\ UNCHANGED <<row, conv, pane, proc, mishaps, misread>>

(* reopenFell and reopenEntries: the rows chosen from the fallen group. *)
AskReopen(r) ==
    /\ At(r, "idle")
    /\ \E S \in SUBSET (Offered \cap Standing) :
         /\ S # {}
         /\ job' = [job EXCEPT ![r] =
                      [Idle EXCEPT !.at = "plan", !.kind = "reopen", !.todo = S]]
    /\ UNCHANGED <<row, conv, pane, proc, chain, mishaps, history>>

(* spawnSession: a fresh session under a conversation id nobody has. *)
AskStart(r) ==
    /\ At(r, "idle")
    /\ \E c \in Fresh :
         /\ RowsOf(c) = {} /\ \A q \in Req : job[q].conv # c
         /\ job' = [job EXCEPT ![r] =
                      [Idle EXCEPT !.at = "gate", !.kind = "start", !.conv = c]]
    /\ UNCHANGED <<row, conv, pane, proc, chain, mishaps, history>>

(* killSession, up to the pane; a pane that is gone already counts as killed. *)
Kill(r) ==
    /\ At(r, "idle")
    /\ \E i \in Offered :
         /\ pane' = [pane EXCEPT ![i] = IF @ = "unborn" THEN @ ELSE "gone"]
         /\ job' = [job EXCEPT ![r] =
                      [Idle EXCEPT !.at = "retire", !.kind = "end", !.old = i]]
         /\ early' = early \cup ({i} \cap Unborn)
    /\ UNCHANGED <<row, conv, proc, chain, mishaps, misread>>

(* retireSession: the row is marked, never deleted. *)
Retire(r) ==
    /\ At(r, "retire")
    /\ row' = [row EXCEPT ![job[r].old] = IF @ = "standing" THEN "ended" ELSE @]
    /\ Finish(r)
    /\ UNCHANGED <<conv, pane, proc, mishaps, history>>

-----------------------------------------------------------------------------
(* resumeSessionLocked, up to the spawn *)

(* The claims are read once the call's turn has come. A session of the fleet
   refuses it, a process is to be ended, nobody lets it through. *)
ReadClaims(r) ==
    /\ At(r, "asked") /\ job[r].kind = "resume" /\ Inside(r)
    /\ \E hidden \in SUBSET Sources :
         /\ Blind(hidden)
         /\ misread' = misread \cup {c \in {job[r].conv} : Hides(c, hidden, job[r].old)}
         /\ LET held == HeldBy(job[r].conv, hidden, job[r].old)
            IN  \/ held = {} /\ Goes(r, "gate") /\ UNCHANGED chain
                \/ \E h \in held :
                     IF h.kind = "managed" THEN Finish(r)
                     ELSE /\ job' = [job EXCEPT ![r] =
                                       [job[r] EXCEPT !.at = "confirm", !.target = h.who]]
                          /\ UNCHANGED chain
    /\ UNCHANGED <<row, conv, pane, proc, early>>

Runs(t) == IF t \in Proc THEN proc[t] # None ELSE pane[t] = "up"

(* isAssistantPid, asked in the moment before the signal: a process that is
   gone is no assistant, and the call is refused. *)
Confirm(r) ==
    /\ At(r, "confirm")
    /\ IF Runs(job[r].target) THEN Goes(r, "ending") /\ UNCHANGED chain
                              ELSE Finish(r)
    /\ UNCHANGED <<row, conv, pane, proc, mishaps, history>>

(* endProcess: asked to stop, then killed; the spawn waits until the kernel
   says that it is gone. *)
HolderGone(r) ==
    /\ At(r, "ending") /\ ~Runs(job[r].target)
    /\ job' = [job EXCEPT ![r] = [job[r] EXCEPT !.at = "gate", !.target = None]]
    /\ UNCHANGED <<row, conv, pane, proc, chain, mishaps, history>>

WillNotDie(r) ==
    /\ At(r, "ending") /\ Runs(job[r].target)
    /\ Finish(r)
    /\ UNCHANGED <<row, conv, pane, proc, mishaps, history>>

-----------------------------------------------------------------------------
(* reopenEntries and attemptReopenRow, up to the spawn *)

(* The plan of the whole set, and the one admission check for it: a backend
   that cannot be listed, or a refusal, ends the call. *)
Plan(r) ==
    /\ At(r, "plan")
    /\ \/ \E hidden \in SUBSET Sources :
            LET chosen == Reopenable(job[r].todo, hidden) IN
            /\ Blind(hidden)
            /\ job' = [job EXCEPT ![r] = [job[r] EXCEPT !.at = "next", !.todo = chosen]]
            /\ early' = early \cup (chosen \cap Unborn)
            /\ misread' = misread \cup {conv[i] : i \in {j \in chosen : Hides(conv[j], hidden, j)}}
       \/ /\ Mishap
          /\ Goes(r, "done") /\ UNCHANGED history
    /\ UNCHANGED <<row, conv, pane, proc, chain>>

NextRow(r) ==
    /\ At(r, "next") /\ job[r].todo # {}
    /\ LET i == Least(job[r].todo) IN
         /\ job' = [job EXCEPT ![r] =
                      [job[r] EXCEPT !.at = "asked", !.conv = conv[i], !.old = i,
                                     !.todo = job[r].todo \ {i}]]
         /\ Joins(r, conv[i])
    /\ UNCHANGED <<row, conv, pane, proc, mishaps, history>>

LastRow(r) ==
    /\ At(r, "next") /\ job[r].todo = {}
    /\ Goes(r, "done")
    /\ UNCHANGED <<row, conv, pane, proc, chain, mishaps, history>>

(* attemptReopenRow: the rows and the panes are read again under the lock. A
   listing that fails fails the attempt; rows that cannot be read are no rows. *)
Recheck(r) ==
    /\ At(r, "asked") /\ job[r].kind = "reopen" /\ Inside(r)
    /\ \/ \E hidden \in SUBSET {"rows"} :
            /\ Blind(hidden)
            /\ misread' = misread \cup
                 {c \in {job[r].conv} : hidden # {} /\ AlreadyOpen(c, job[r].old, {})}
            /\ IF AlreadyOpen(job[r].conv, job[r].old, hidden) THEN Finish(r)
               ELSE Goes(r, "gate") /\ UNCHANGED chain
       \/ Mishap /\ Finish(r) /\ UNCHANGED misread
    /\ UNCHANGED <<row, conv, pane, proc, early>>

-----------------------------------------------------------------------------
(* spawnManaged *)

\* Mutation of Refuse: a refused call stays in the chain.
RefuseInside(r) ==
    /\ At(r, "gate")
    /\ Mishap
    /\ Goes(r, "done")
    /\ UNCHANGED <<row, conv, pane, proc, chain, history>>

(* No backend, no memory, no plan, no binary: refused before there is a row. *)
Refuse(r) ==
    /\ At(r, "gate")
    /\ Mishap
    /\ Finish(r)
    /\ UNCHANGED <<row, conv, pane, proc, history>>

(* addSession: the row, linked at birth, before the session exists. *)
AddRow(r) ==
    /\ At(r, "gate")
    /\ \E i \in Id :
         /\ row[i] = "free" /\ \A j \in 1..(i - 1) : row[j] # "free"
         /\ row' = [row EXCEPT ![i] = "standing"]
         /\ conv' = [conv EXCEPT ![i] = job[r].conv]
         /\ job' = [job EXCEPT ![r] = [job[r] EXCEPT !.at = "pane", !.new = i]]
    /\ UNCHANGED <<pane, proc, chain, mishaps, history>>

(* A start that will look at the rows against a listing it already has. *)
Looking(q, c) ==
    At(q, "read") /\ (job[q].conv = c \/ DirOf[job[q].conv] = DirOf[c])

(* Rows whose panes come after the listing and before the look. *)
Missed(r) == {job[r].new : q \in {x \in Req : Looking(x, job[r].conv)}}

\* Mutation of SpawnPane: a launch that throws keeps its row.
SpawnPaneKept(r) ==
    /\ At(r, "pane")
    /\ \/ /\ pane' = [pane EXCEPT ![job[r].new] = "up"]
          /\ early' = early \cup Missed(r)
          /\ Goes(r, "settle") /\ UNCHANGED <<chain, mishaps>>
       \/ Mishap /\ Finish(r) /\ UNCHANGED <<pane, early>>
    /\ UNCHANGED <<row, conv, proc, misread>>

SpawnPane(r) ==
    /\ At(r, "pane")
    /\ \/ /\ pane' = [pane EXCEPT ![job[r].new] = "up"]
          /\ early' = early \cup Missed(r)
          /\ Goes(r, "settle") /\ UNCHANGED mishaps
       \/ /\ Mishap
          /\ Goes(r, "abandon") /\ UNCHANGED <<pane, early>>
    /\ UNCHANGED <<row, conv, proc, chain, misread>>

(* spawnDeath: a command that has exited by then takes its pane with it. *)
Settle(r) ==
    /\ At(r, "settle")
    /\ IF pane[job[r].new] = "dead"
       THEN pane' = [pane EXCEPT ![job[r].new] = "gone"] /\ Goes(r, "abandon")
       ELSE Goes(r, "list") /\ UNCHANGED pane
    /\ UNCHANGED <<row, conv, proc, chain, mishaps, history>>

(* A launch that failed takes its row with it. *)
Abandon(r) ==
    /\ At(r, "abandon")
    /\ row' = [row EXCEPT ![job[r].new] = "removed"]
    /\ Finish(r)
    /\ UNCHANGED <<conv, pane, proc, mishaps, history>>

\* Mutation of ListPanes: a listing that fails reads as a backend that hosts nothing.
ListPanesOrNone(r) ==
    /\ At(r, "list")
    /\ \/ /\ job' = [job EXCEPT ![r] = [job[r] EXCEPT !.at = "read", !.ids = Listed]]
          /\ UNCHANGED mishaps
       \/ /\ Mishap
          /\ job' = [job EXCEPT ![r] = [job[r] EXCEPT !.at = "read", !.ids = {}]]
    /\ UNCHANGED <<row, conv, pane, proc, chain, history>>

(* retireFallenSessions: what the backend hosts is listed first and the rows
   are read after it; a backend that cannot be listed retires nothing. *)
ListPanes(r) ==
    /\ At(r, "list")
    /\ \/ /\ job' = [job EXCEPT ![r] = [job[r] EXCEPT !.at = "read", !.ids = Listed]]
          /\ UNCHANGED mishaps
       \/ /\ Mishap
          /\ job' = [job EXCEPT ![r] = [job[r] EXCEPT !.at = "patch", !.doomed = {}]]
    /\ UNCHANGED <<row, conv, pane, proc, chain, history>>

Fallen(r) ==
    {i \in Standing \ (job[r].ids \cup {job[r].new}) :
       \/ conv[i] = job[r].conv
       \/ DirOf[conv[i]] = DirOf[job[r].conv]}

ReadRows(r) ==
    /\ At(r, "read")
    /\ job' = [job EXCEPT ![r] =
                [job[r] EXCEPT !.at = "patch", !.doomed = Fallen(r), !.ids = {}]]
    /\ early' = early \cup (Fallen(r) \cap Unborn)
    /\ UNCHANGED <<row, conv, pane, proc, chain, mishaps, misread>>

(* The rows are patched one write at a time. *)
RetireOne(r) ==
    /\ At(r, "patch") /\ job[r].doomed # {}
    /\ LET i == Least(job[r].doomed) IN
         /\ row' = [row EXCEPT ![i] = IF @ = "standing" THEN "ended" ELSE @]
         /\ job' = [job EXCEPT ![r] = [job[r] EXCEPT !.doomed = job[r].doomed \ {i}]]
    /\ UNCHANGED <<conv, pane, proc, chain, mishaps, history>>

(* The session has been started: the caller still has the row it replaces. *)
Retired(r) ==
    /\ At(r, "patch") /\ job[r].doomed = {}
    /\ IF Locks(r) /\ ~job[r].last THEN Goes(r, "supersede") /\ UNCHANGED chain
                                   ELSE Finish(r)
    /\ UNCHANGED <<row, conv, pane, proc, mishaps, history>>

(* The replaced row is marked ended. A resume then retires fallen rows once
   more, a reopen is done with the row. *)
Supersede(r) ==
    /\ At(r, "supersede")
    /\ row' = IF job[r].old = None \/ row[job[r].old] # "standing" THEN row
              ELSE [row EXCEPT ![job[r].old] = "ended"]
    /\ IF job[r].kind = "resume"
       THEN /\ job' = [job EXCEPT ![r] = [job[r] EXCEPT !.at = "list", !.last = TRUE]]
            /\ UNCHANGED chain
       ELSE Finish(r)
    /\ UNCHANGED <<conv, pane, proc, mishaps, history>>

-----------------------------------------------------------------------------
(* The machine *)

(* A session ends by itself: its command exits, or tmux loses the pane. *)
Fall(i) ==
    /\ pane[i] = "up"
    /\ Mishap
    /\ \E how \in {"dead", "gone"} : pane' = [pane EXCEPT ![i] = how]
    /\ UNCHANGED <<row, conv, proc, chain, job, history>>

(* A process is gone: it ends by itself, or by the signal of a takeover. *)
ProcessEnds(p) ==
    /\ proc[p] # None
    /\ proc' = [proc EXCEPT ![p] = None]
    /\ UNCHANGED <<row, conv, pane, chain, job, mishaps, history>>

(* The signal a takeover sends to the process of a pane. *)
PaneEnds(i) ==
    /\ pane[i] = "up" /\ \E r \in Req : At(r, "ending") /\ job[r].target = i
    /\ pane' = [pane EXCEPT ![i] = "dead"]
    /\ UNCHANGED <<row, conv, proc, chain, job, mishaps, history>>

(* The server is restarted: its calls and its locks are lost, the rows and the
   panes are not. *)
Restart ==
    /\ Mishap
    /\ job' = [r \in Req |-> IF At(r, "idle") \/ At(r, "done") THEN job[r]
                             ELSE [Idle EXCEPT !.at = "lost", !.new = job[r].new]]
    /\ chain' = [c \in Conv |-> <<>>]
    /\ UNCHANGED <<row, conv, pane, proc, history>>

Ask(r) == AskResume(r) \/ AskReopen(r) \/ AskStart(r) \/ Kill(r)

Serve(r) ==
    \/ Retire(r)
    \/ ReadClaims(r) \/ Confirm(r) \/ HolderGone(r) \/ WillNotDie(r)
    \/ Plan(r) \/ NextRow(r) \/ LastRow(r) \/ Recheck(r)
    \/ Refuse(r) \/ AddRow(r) \/ SpawnPane(r) \/ Settle(r) \/ Abandon(r)
    \/ ListPanes(r) \/ ReadRows(r) \/ RetireOne(r) \/ Retired(r) \/ Supersede(r)

Machine ==
    \/ \E i \in Id : Fall(i) \/ PaneEnds(i)
    \/ \E p \in Proc : ProcessEnds(p)
    \/ Restart

Next == (\E r \in Req : Ask(r) \/ Serve(r)) \/ Machine

Spec == Init /\ [][Next]_vars

(* The event loop runs what is ready; nobody has to ask anything, and no
   session or process has to end. *)
FairSpec == Spec /\ \A r \in Req : WF_vars(Serve(r))

-----------------------------------------------------------------------------
(* Properties *)

(* Two assistants are never in one conversation: neither two sessions of the
   fleet, nor a session and a process outside it that a resume should have
   ended first -- whatever calls are in flight, and across a restart that
   forgets the locks. Two things break it: a call that takes a row for fallen
   whose pane is about to come, and a failed read of the claims that shows a
   conversation free. *)
OneAssistant ==
    \A c \in Conv \ (misread \cup {conv[i] : i \in early}) :
        Cardinality(Up \cap RowsOf(c)) + Cardinality({p \in Proc : proc[p] = c}) <= 1

(* A session that runs has a row that stands: no sibling's start in the same
   directory, and no reopen that takes the place of another row, retires it,
   unless it took the row for fallen before the pane came. A row that does not
   stand is invisible to the next reopen. *)
LiveRowsStand == Up \ early \subseteq Standing

(* No row is left for a session that never was: a row whose pane has not come
   is one a call is about to open or to take back, or one whose call a restart
   of the server has cut off. *)
NoRowWithoutPane ==
    \A i \in Id : row[i] \in {"standing", "ended"} /\ pane[i] = "unborn" =>
        \E r \in Req : job[r].new = i /\ job[r].at \in {"pane", "abandon", "lost"}

(* Every call is answered, whatever fails before it in its chain -- a resume
   that fails does not wedge the conversation for the next one -- or is cut off
   by a restart. *)
CallsReturn ==
    \A r \in Req : ~At(r, "idle") ~> At(r, "done") \/ At(r, "lost")
=============================================================================
