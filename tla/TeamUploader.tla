---------------------------- MODULE TeamUploader ----------------------------
(***************************************************************************)
(* One connection of the team uploader                                     *)
(* (src/packages/server/server/team-uploader.ts, team-forget-client.ts,    *)
(* team-rules.ts, uploader-auth-stop.ts): the machine pushes its sessions  *)
(* and their aggregate to a central, and withdraws what its sharing rules  *)
(* no longer allow.                                                        *)
(*                                                                         *)
(* Two activities may push: the connection's cycle, which a timer or a     *)
(* local change starts, and a manual push of the user ("push now").  Each  *)
(* await of theirs is a step boundary.  Files survive a crash ("disk",     *)
(* "prefs"), the module-level maps of the server do not ("mem").           *)
(***************************************************************************)
EXTENDS TeamCentral, FiniteSets

CONSTANTS RuleSets,        \* the sets of denied sessions the user may declare
          MaxBatch,        \* sessions in one request
          MaxStreak,       \* MAX_SUPPRESSED_STREAK
          MaxEvents,       \* changes of data or rules, manual pushes, faults,
                           \*   crashes and replaced centrals, all told
          None

ASSUME TeamAssumption ==
  /\ {} \in RuleSets /\ \A r \in RuleSets : r \subseteq Session
  /\ MaxVersion \in Nat \ {0} /\ {MaxStreak, MaxEvents} \subseteq Nat
  /\ None \notin Nat /\ \A c \in Content : c # NoCache

VARIABLES data,    \* the machine's sessions
          prefs,   \* the connection in preferences.json
          disk,    \* its state files: sent, journal, sync, rules hash
          mem,     \* the uploader's memory of it
          shared,  \* the push context of all connections, and its build
          act,     \* the two activities
          left,    \* how much the environment may still do
          unheard, \* history: sessions about which the central did what this
                   \* machine has no record of
          unsure   \* history: the same of the aggregate

history == <<unheard, unsure>>
vars == <<central, data, prefs, disk, mem, shared, act, left, history>>

Activity == {"cycle", "manual"}
(* Of a request: lost is done and the answer is not heard, partial stored  *)
(* without its aggregate (a write that fails unnoticed).                   *)
Outcome == {"ok", "failed", "refused", "lost", "partial"}

Idle == [pc |-> "idle", rules |-> {}, failed |-> FALSE, instance |-> None,
         ctx |-> None, ids |-> {}, next |-> {}, closing |-> FALSE,
         todo |-> {}, batch |-> {}, first |-> TRUE]

Down == [up |-> FALSE, running |-> FALSE, pending |-> FALSE, timer |-> FALSE,
         asked |-> FALSE, restricted |-> FALSE, memo |-> None, streak |-> 0,
         resume |-> {}, canForget |-> FALSE, authStop |-> "no", errSince |-> FALSE]

\* Mutation of Booted: the journals are not replayed.
BootedForgetting ==
  [Down EXCEPT !.up = TRUE, !.timer = TRUE, !.restricted = prefs.rules # {}]

(* startUploader: the journal of a removal that was cut short is handed to *)
(* the first cycle, which the chain's timer starts.                        *)
Booted == [Down EXCEPT !.up = TRUE, !.timer = TRUE, !.resume = disk.journal,
                       !.restricted = prefs.rules # {}]

(* The connection is a new one, or has met its central before.             *)
Init ==
  /\ CentralInit
  /\ data = [x \in Session |-> 1]
  /\ prefs = [rules |-> {}, authFailed |-> FALSE]
  /\ \E met \in {None, central.instance} :
       disk = [sent |-> Empty, journal |-> {}, hash |-> {}, sync |-> met]
  /\ mem = [Down EXCEPT !.up = TRUE, !.timer = TRUE]
  /\ shared = [cached |-> None, build |-> None]
  /\ act = [a \in Activity |-> Idle]
  /\ left = MaxEvents
  /\ unheard = {} /\ unsure = FALSE

At(a, pc) == act[a].pc = pc
Goto(a, pc) == act' = [act EXCEPT ![a].pc = pc]

(* The central's answer about a session is being recorded.                 *)
Recording(x) == \E a \in Activity : At(a, "stored") /\ x \in act[a].batch

(* Whatever is not "ok" is paid for.                                       *)
Spend(o) ==
  \/ o = "ok" /\ UNCHANGED left
  \/ o # "ok" /\ left > 0 /\ left' = left - 1

-----------------------------------------------------------------------------
(* The start of an activity                                                *)

(* runConnectionCycle: while something runs for the connection the trigger *)
(* is only remembered.                                                     *)
RunCycle(m) ==
  IF m.running
  THEN mem' = [m EXCEPT !.pending = TRUE] /\ UNCHANGED act
  ELSE /\ mem' = [m EXCEPT !.running = TRUE]
       /\ act' = [act EXCEPT !["cycle"] =
                    [Idle EXCEPT !.pc = "policy", !.rules = prefs.rules,
                                 !.failed = prefs.authFailed]]

TimerFires ==
  /\ mem.timer
  /\ RunCycle([mem EXCEPT !.timer = FALSE])
  /\ UNCHANGED <<central, data, prefs, disk, shared, left, history>>

(* The debounced trigger of a local change, or pushNow after a rules       *)
(* change.                                                                 *)
AskedFires ==
  /\ mem.asked
  /\ RunCycle([mem EXCEPT !.asked = FALSE])
  /\ UNCHANGED <<central, data, prefs, disk, shared, left, history>>

(* handlePushNow reads the connection first, and then waits for the        *)
(* context.                                                                *)
PushNow ==
  /\ mem.up /\ At("manual", "idle") /\ left > 0
  /\ act' = [act EXCEPT !["manual"] =
               [Idle EXCEPT !.pc = "context", !.rules = prefs.rules,
                            !.failed = prefs.authFailed]]
  /\ left' = left - 1
  /\ UNCHANGED <<central, data, prefs, disk, mem, shared, history>>

(* guardedManualPush                                                       *)
Guard ==
  /\ At("manual", "guard")
  /\ IF mem.running
     THEN /\ mem' = [mem EXCEPT !.pending = TRUE]
          /\ act' = [act EXCEPT !["manual"] = Idle]
     ELSE /\ mem' = [mem EXCEPT !.running = TRUE]
          /\ Goto("manual", "gate")
  /\ UNCHANGED <<central, data, prefs, disk, shared, left, history>>

(* fetchCentralPolicy: who the central is and whether it can forget.  A    *)
(* failed answer leaves the capability as it was learned.                  *)
Policy(o) ==
  /\ At("cycle", "policy") /\ o \in {"ok", "failed"} /\ Spend(o)
  /\ act' = [act EXCEPT !["cycle"].pc = "context",
               !["cycle"].instance = IF o = "ok" THEN central.instance ELSE None]
  /\ mem' = [mem EXCEPT !.canForget = @ \/ o = "ok"]
  /\ UNCHANGED <<central, data, prefs, disk, shared, history>>

-----------------------------------------------------------------------------
(* The shared context                                                      *)

AfterContext(a) == IF a = "cycle" THEN "plan" ELSE "guard"

(* getPushContext: the cached one, or the build in flight, or a new build. *)
GetContext(a) ==
  /\ At(a, "context")
  /\ IF shared.cached # None
     THEN /\ act' = [act EXCEPT ![a].ctx = shared.cached, ![a].pc = AfterContext(a)]
          /\ UNCHANGED shared
     ELSE /\ shared' = [shared EXCEPT !.build = IF @ = None THEN [data |-> data] ELSE @]
          /\ Goto(a, "waiting")
  /\ UNCHANGED <<central, data, prefs, disk, mem, left, history>>

(* buildPushContext: a store that cannot be read reads as empty, with the  *)
(* live sessions in the aggregate all the same.  The build is cached even  *)
(* when the data changed while it was made.                                *)
FinishBuild(o) ==
  /\ shared.build # None /\ o \in {"ok", "failed"} /\ Spend(o)
  /\ LET ctx == [data |-> shared.build.data, blind |-> o = "failed"]
     IN  /\ shared' = [cached |-> ctx, build |-> None]
         /\ act' = [a \in Activity |->
                      IF At(a, "waiting")
                      THEN [act[a] EXCEPT !.ctx = ctx, !.pc = AfterContext(a)]
                      ELSE act[a]]
  /\ UNCHANGED <<central, data, prefs, disk, mem, history>>

(* The context's lifetime runs out.  (One that would be built again just   *)
(* as it is need not.)                                                     *)
Expire ==
  /\ shared.cached \notin {None, [data |-> data, blind |-> FALSE]}
  /\ shared' = [shared EXCEPT !.cached = None]
  /\ UNCHANGED <<central, data, prefs, disk, mem, act, left, history>>

-----------------------------------------------------------------------------
(* The rules and the removal                                               *)

Denied(a) ==
  {x \in act[a].rules : ~act[a].ctx.blind /\ act[a].ctx.data[x] # 0}

(* planRulesReconcile and the branch it decides.  Denial, never absence:   *)
(* only what was sent and is denied now is withdrawn, with what a journal  *)
(* left open names.  Without a removal the rules count as enforced, unless *)
(* the store could not be read while something was sent.                   *)
Plan ==
  /\ At("cycle", "plan")
  /\ LET c     == act["cycle"]
         sent  == {x \in Session : disk.sent[x] # 0}
         ids   == (sent \cap Denied("cycle")) \cup mem.resume
         next  == IF c.ctx.blind /\ sent # {} THEN disk.hash ELSE c.rules
     IN  /\ act' = [act EXCEPT
                      !["cycle"].ids = ids,
                      !["cycle"].next = next,
                      !["cycle"].pc = CASE ids = {} -> "sync"
                                        [] ids # {} /\ mem.canForget -> "whoami"
                                        [] OTHER -> "gate"]
         /\ disk' = [disk EXCEPT !.hash = IF ids = {} THEN next ELSE @]
  /\ UNCHANGED <<central, data, prefs, mem, shared, left, history>>

(* A 401 or 403 within the removal marks the connection and ends the       *)
(* cycle.                                                                  *)
Rejected ==
  /\ prefs' = [prefs EXCEPT !.authFailed = TRUE]
  /\ Goto("cycle", "finish")

(* runForgetSequence, step 0b                                              *)
Whoami(o) ==
  /\ At("cycle", "whoami") /\ o \in {"ok", "failed", "refused"} /\ Spend(o)
  /\ \/ o = "ok" /\ Goto("cycle", "journal") /\ UNCHANGED prefs
     \/ o = "failed" /\ Goto("cycle", "gate") /\ UNCHANGED prefs
     \/ o = "refused" /\ Rejected
  /\ UNCHANGED <<central, data, disk, mem, shared, history>>

\* Mutation of WriteJournal: the ids leave the sent-state up front.
WriteJournalDropping ==
  /\ At("cycle", "journal")
  /\ disk' = [disk EXCEPT !.journal = act["cycle"].ids,
                          !.sent = [x \in Session |-> IF x \in act["cycle"].ids THEN 0 ELSE @[x]]]
  /\ Goto("cycle", "forget")
  /\ UNCHANGED <<central, data, prefs, mem, shared, left, history>>

(* Step 2: the journal before the first request.                           *)
WriteJournal ==
  /\ At("cycle", "journal")
  /\ disk' = [disk EXCEPT !.journal = act["cycle"].ids]
  /\ Goto("cycle", "forget")
  /\ UNCHANGED <<central, data, prefs, mem, shared, left, history>>

\* Mutation of Forget: any answer but a rejection is an acknowledgement.
ForgetAssumed(o) ==
  /\ At("cycle", "forget") /\ o \in Outcome \ {"partial"} /\ Spend(o)
  /\ IF o = "ok" THEN ForgetSessions(act["cycle"].ids) ELSE UNCHANGED central
  /\ \/ o # "refused" /\ Goto("cycle", "acked") /\ UNCHANGED prefs
     \/ o = "refused" /\ Rejected
  /\ UNCHANGED <<data, disk, mem, shared, history>>

(* Step 3: require an acknowledgement.                                     *)
Forget(o) ==
  /\ At("cycle", "forget") /\ o \in Outcome \ {"partial"} /\ Spend(o)
  /\ IF o \in {"ok", "lost"} THEN ForgetSessions(act["cycle"].ids) ELSE UNCHANGED central
  /\ \/ o = "ok" /\ Goto("cycle", "acked") /\ UNCHANGED prefs
     \/ o \in {"failed", "lost"} /\ Goto("cycle", "gate") /\ UNCHANGED prefs
     \/ o = "refused" /\ Rejected
  /\ unheard' = unheard \cup (IF o = "lost" THEN act["cycle"].ids ELSE {})
  /\ UNCHANGED <<data, disk, mem, shared, unsure>>

(* The acknowledged ids leave the sent-state, and the rebuilt aggregate is *)
(* pushed within the same sequence.                                        *)
Acked ==
  /\ At("cycle", "acked")
  /\ disk' = [disk EXCEPT !.sent = [x \in Session |-> IF x \in act["cycle"].ids THEN 0 ELSE @[x]]]
  /\ act' = [act EXCEPT !["cycle"].closing = TRUE, !["cycle"].pc = "sync"]
  /\ unheard' = unheard \ act["cycle"].ids
  /\ UNCHANGED <<central, data, prefs, mem, shared, left, unsure>>

(* reconcileSyncState: another central than the sent-state was built       *)
(* against is sent everything again.                                       *)
Sync ==
  /\ At("cycle", "sync")
  /\ disk' = IF act["cycle"].instance \in {None, disk.sync} THEN disk
             ELSE [disk EXCEPT !.sent = Empty, !.sync = act["cycle"].instance]
  /\ unheard' = unheard \cup {x \in Session : disk.sent[x] # disk'.sent[x]}
  /\ Goto("cycle", "gate")
  /\ UNCHANGED <<central, data, prefs, mem, shared, left, unsure>>
-----------------------------------------------------------------------------
(* The push (pushOnceDetailed), of a cycle or of the user                  *)

(* Where a push goes that ends without an error: a removal is closed, and  *)
(* otherwise the activity is over.                                         *)
Pushed(a) == IF act[a].closing THEN "close" ELSE "finish"

(* The aggregate a context yields under a connection's rules.              *)
Aggregate(ctx, rules) ==
  [x \in Session |-> IF x \in rules THEN 0 ELSE ctx.data[x]]

Payload(a) == Aggregate(act[a].ctx, act[a].rules)

(* authStopGate: a rejected connection is not pushed to; from time to time *)
(* the central is asked whether it still rejects it.                       *)
Gate(a) ==
  /\ At(a, "gate")
  /\ Goto(a, CASE mem.authStop = "stopped" -> Pushed(a)
               [] mem.authStop = "due" -> "probe"
               [] mem.authStop = "no" -> IF act[a].failed THEN "probe" ELSE "select")
  /\ mem' = [mem EXCEPT !.authStop = IF @ = "due" THEN "stopped" ELSE @]
  /\ UNCHANGED <<central, data, prefs, disk, shared, left, history>>

(* clearAuthFailure                                                        *)
ClearAuthFailure(a) ==
  prefs' = [prefs EXCEPT !.authFailed = @ /\ ~act[a].failed]

(* probeAuthRecovered: first for the stop in memory, then, the gate open,  *)
(* for the durable mark.                                                   *)
Probe(a, o) ==
  /\ At(a, "probe") /\ o \in {"ok", "failed"} /\ Spend(o)
  /\ \/ /\ o = "failed"
        /\ Goto(a, Pushed(a)) /\ UNCHANGED <<mem, prefs>>
     \/ /\ o = "ok" /\ mem.authStop # "no"
        /\ mem' = [mem EXCEPT !.authStop = "no"]
        /\ Goto(a, "gate") /\ UNCHANGED prefs
     \/ /\ o = "ok" /\ mem.authStop = "no"
        /\ mem' = [mem EXCEPT !.errSince = FALSE]
        /\ ClearAuthFailure(a)
        /\ Goto(a, "select")
  /\ UNCHANGED <<central, data, disk, shared, history>>

(* selectDeltas over what the rules share                                  *)
Deltas(a) ==
  {x \in Session \ act[a].rules :
     /\ ~act[a].ctx.blind
     /\ act[a].ctx.data[x] \notin {0, disk.sent[x]}}

(* Nothing new: under a restriction the aggregate the central took last is *)
(* not repeated, but for one time in MaxStreak.                            *)
Suppressed(a) ==
  /\ Deltas(a) = {} /\ act[a].rules # {}
  /\ mem.memo = Payload(a)
  /\ mem.streak < MaxStreak

Select(a) ==
  /\ At(a, "select")
  /\ act' = [act EXCEPT ![a].todo = Deltas(a),
                        ![a].pc = IF Suppressed(a) THEN Pushed(a) ELSE "post"]
  /\ mem' = [mem EXCEPT !.restricted = act[a].rules # {},
                        !.streak = IF Suppressed(a) THEN @ + 1
                                ELSE IF act[a].rules # {} /\ Deltas(a) = {} THEN 0
                                ELSE @]
  /\ UNCHANGED <<central, data, prefs, disk, shared, left, history>>

(* A batch of what is left; the aggregate alone when nothing is.           *)
Batches(a) ==
  IF Cardinality(act[a].todo) <= MaxBatch THEN {act[a].todo}
  ELSE {b \in SUBSET act[a].todo : Cardinality(b) = MaxBatch}

(* A batch that is not accepted is an error of the push; an aggregate sent *)
(* alone is not.                                                           *)
GiveUp(a, b) ==
  Goto(a, IF b = {} THEN Pushed(a) ELSE "finish")

Post(a, o) ==
  /\ At(a, "post") /\ o \in Outcome /\ Spend(o)
  /\ \E b \in Batches(a) :
       /\ \/ /\ o \in {"ok", "lost", "partial"}
             /\ Ingest(b, act[a].ctx.data,
                       IF act[a].first /\ o # "partial" THEN Payload(a) ELSE NoCache)
          \/ o \in {"failed", "refused"} /\ UNCHANGED central
       /\ \/ /\ o \in {"ok", "partial"}
             /\ act' = [act EXCEPT ![a].pc = "stored", ![a].batch = b]
             /\ UNCHANGED <<mem, prefs>>
          \/ /\ o \in {"failed", "lost"}
             /\ GiveUp(a, b) /\ UNCHANGED <<mem, prefs>>
          \/ \* stopOnAuthRejection, handleAuthError: durable once it lasts
             /\ o = "refused" /\ GiveUp(a, b)
             /\ mem' = [mem EXCEPT !.authStop = "stopped", !.errSince = TRUE]
             /\ prefs' \in {prefs, [prefs EXCEPT !.authFailed = @ \/ mem.errSince]}
       /\ unheard' = unheard \cup (IF o = "lost" THEN b ELSE {})
  /\ unsure' = IF act[a].first /\ o \in {"ok", "lost", "partial"} THEN o # "ok" ELSE unsure
  /\ UNCHANGED <<data, disk, shared>>

\* Mutation of Stored: the first answer stands for all the batches.
StoredAhead(a) ==
  /\ At(a, "stored")
  /\ disk' = [disk EXCEPT !.sent =
                [x \in Session |-> IF x \in act[a].todo THEN act[a].ctx.data[x] ELSE @[x]]]
  /\ act' = [act EXCEPT ![a].todo = @ \ act[a].batch, ![a].batch = {}, ![a].first = FALSE,
                        ![a].pc = IF act[a].todo = act[a].batch THEN Pushed(a) ELSE "post"]
  /\ mem' = [mem EXCEPT !.errSince = FALSE,
                        !.memo = IF act[a].first THEN Payload(a) ELSE @]
  /\ unheard' = unheard \ act[a].batch
  /\ ClearAuthFailure(a)
  /\ UNCHANGED <<central, data, shared, left, unsure>>

\* Mutation of Stored: only an aggregate sent alone is remembered.
StoredForgettingBatches(a) ==
  LET b == act[a].batch
  IN  /\ At(a, "stored")
      /\ disk' = [disk EXCEPT !.sent =
                    [x \in Session |-> IF x \in b THEN act[a].ctx.data[x] ELSE @[x]]]
      /\ act' = [act EXCEPT ![a].todo = @ \ b, ![a].batch = {}, ![a].first = FALSE,
                            ![a].pc = IF act[a].todo = b THEN Pushed(a) ELSE "post"]
      /\ mem' = [mem EXCEPT !.errSince = FALSE,
                            !.memo = IF act[a].first /\ b = {} THEN Payload(a) ELSE @]
      /\ unheard' = unheard \ b
      /\ ClearAuthFailure(a)
      /\ UNCHANGED <<central, data, shared, left, unsure>>

(* The central's answer is recorded: the batch in the sent-state, the      *)
(* aggregate in the memo.                                                  *)
Stored(a) ==
  /\ At(a, "stored")
  /\ LET b    == act[a].batch
         rest == act[a].todo \ b
     IN  /\ disk' = [disk EXCEPT !.sent =
                       [x \in Session |-> IF x \in b THEN act[a].ctx.data[x] ELSE @[x]]]
         /\ act' = [act EXCEPT ![a].todo = rest, ![a].batch = {}, ![a].first = FALSE,
                               ![a].pc = IF rest = {} THEN Pushed(a) ELSE "post"]
  /\ mem' = [mem EXCEPT !.errSince = FALSE,
                        !.memo = IF act[a].first THEN Payload(a) ELSE @]
  /\ unheard' = unheard \ act[a].batch
  /\ ClearAuthFailure(a)
  /\ UNCHANGED <<central, data, shared, left, unsure>>

(* Step 5 of the removal: the journal goes, ...                            *)
CloseJournal ==
  /\ At("cycle", "close")
  /\ disk' = [disk EXCEPT !.journal = {}]
  /\ Goto("cycle", "closed")
  /\ UNCHANGED <<central, data, prefs, mem, shared, left, history>>

(* ... and the rules count as enforced.                                    *)
Enforced ==
  /\ At("cycle", "closed")
  /\ disk' = [disk EXCEPT !.hash = act["cycle"].next]
  /\ mem' = [mem EXCEPT !.resume = {}]
  /\ Goto("cycle", "finish")
  /\ UNCHANGED <<central, data, prefs, shared, left, history>>

(* The end of a cycle takes the remembered trigger and arms the timer (a   *)
(* second ahead, or an interval); the end of a manual push does neither.   *)
Finish(a) ==
  /\ At(a, "finish")
  /\ mem' = IF a = "cycle"
            THEN [mem EXCEPT !.running = FALSE, !.pending = FALSE, !.timer = TRUE]
            ELSE [mem EXCEPT !.running = FALSE]
  /\ act' = [act EXCEPT ![a] = Idle]
  /\ UNCHANGED <<central, data, prefs, disk, shared, left, history>>

-----------------------------------------------------------------------------
(* The environment                                                         *)

(* A session starts or goes on.  The watcher invalidates the context and   *)
(* asks for a push, of a connection that has no rules (notifyDataChanged,  *)
(* scheduleOnChangeTrigger).                                               *)
Edit(x) ==
  /\ left > 0 /\ data[x] < MaxVersion
  /\ data' = [data EXCEPT ![x] = @ + 1]
  /\ shared' = [shared EXCEPT !.cached = None]
  /\ mem' = [mem EXCEPT !.asked = @ \/ (mem.up /\ ~mem.restricted)]
  /\ left' = left - 1
  /\ UNCHANGED <<central, prefs, disk, act, history>>

(* The user changes the rules (PATCH /api/team/connections/:id), which     *)
(* asks for a push at once.                                                *)
ChangeRules(r) ==
  /\ mem.up /\ left > 0 /\ r # prefs.rules
  /\ prefs' = [prefs EXCEPT !.rules = r]
  /\ mem' = [mem EXCEPT !.asked = TRUE]
  /\ left' = left - 1
  /\ UNCHANGED <<central, data, disk, shared, act, history>>

(* supervisorTick                                                          *)
Tick ==
  /\ mem.up /\ mem.restricted # (prefs.rules # {})
  /\ mem' = [mem EXCEPT !.restricted = ~@]
  /\ UNCHANGED <<central, data, prefs, disk, shared, act, left, history>>

(* AUTH_STOP_PROBE_MS have passed.                                         *)
ProbeDue ==
  /\ mem.authStop = "stopped"
  /\ mem' = [mem EXCEPT !.authStop = "due"]
  /\ UNCHANGED <<central, data, prefs, disk, shared, act, left, history>>

Replace ==
  /\ left > 0
  /\ \E keeps \in BOOLEAN : Replaced(keeps)
  /\ left' = left - 1
  /\ UNCHANGED <<data, prefs, disk, mem, shared, act, history>>

Crash ==
  /\ mem.up /\ left > 0
  /\ mem' = Down
  /\ shared' = [cached |-> None, build |-> None]
  /\ act' = [a \in Activity |-> Idle]
  /\ left' = left - 1
  /\ unheard' = unheard \cup {x \in Session : Recording(x)}
  /\ UNCHANGED <<central, data, prefs, disk, unsure>>

Boot ==
  /\ ~mem.up
  /\ mem' = Booted
  /\ UNCHANGED <<central, data, prefs, disk, shared, act, left, history>>

-----------------------------------------------------------------------------
PushStep(a) ==
  \/ Gate(a) \/ Select(a) \/ Stored(a) \/ Finish(a)
  \/ \E o \in Outcome : Probe(a, o) \/ Post(a, o)

CycleStep ==
  \/ \E o \in Outcome : Policy(o) \/ Whoami(o) \/ Forget(o)
  \/ Plan \/ WriteJournal \/ Acked \/ Sync \/ CloseJournal \/ Enforced

Environment ==
  \/ PushNow \/ Replace \/ Crash
  \/ \E x \in Session : Edit(x)
  \/ \E r \in RuleSets : ChangeRules(r)

Next ==
  \/ TimerFires \/ AskedFires \/ Guard \/ CycleStep
  \/ \E a \in Activity : GetContext(a) \/ PushStep(a)
  \/ \E o \in Outcome : FinishBuild(o)
  \/ Expire \/ Tick \/ ProbeDue \/ Boot
  \/ Environment

Spec == Init /\ [][Next]_vars

(* Requests end (each has a timeout), timers fire, the service manager     *)
(* starts the server again.  Nothing is assumed of the user or the         *)
(* central.                                                                *)
Fairness ==
  /\ WF_vars(TimerFires) /\ WF_vars(AskedFires)
  /\ WF_vars(CycleStep) /\ WF_vars(Guard)
  /\ \A a \in Activity : WF_vars(GetContext(a) \/ PushStep(a))
  /\ WF_vars(\E o \in Outcome : FinishBuild(o))
  /\ WF_vars(Expire) /\ WF_vars(Tick) /\ WF_vars(ProbeDue) /\ WF_vars(Boot)

FairSpec == Spec /\ Fairness

-----------------------------------------------------------------------------
Context == [data : Content, blind : BOOLEAN]

Step == {"idle", "policy", "context", "waiting", "guard", "plan", "whoami", "journal",
         "forget", "acked", "sync", "gate", "probe", "select", "post", "stored", "close",
         "closed", "finish"}

TypeOK ==
  /\ CentralType
  /\ data \in Content
  /\ prefs \in [rules : RuleSets, authFailed : BOOLEAN]
  /\ disk \in [sent : Content, journal : SUBSET Session, hash : RuleSets,
               sync : {None} \cup Nat]
  /\ mem \in [up : BOOLEAN, running : BOOLEAN, pending : BOOLEAN, timer : BOOLEAN,
              asked : BOOLEAN, restricted : BOOLEAN, memo : {None} \cup Content,
              streak : 0..MaxStreak, resume : SUBSET Session, canForget : BOOLEAN,
              authStop : {"no", "stopped", "due"}, errSince : BOOLEAN]
  /\ shared \in [cached : {None} \cup Context, build : {None} \cup [data : Content]]
  /\ act \in [Activity ->
              [pc : Step, rules : RuleSets, failed : BOOLEAN,
               instance : {None} \cup Nat, ctx : {None} \cup Context,
               ids : SUBSET Session, next : RuleSets, closing : BOOLEAN,
               todo : SUBSET Session, batch : SUBSET Session, first : BOOLEAN]]
  /\ left \in 0..MaxEvents
  /\ unheard \subseteq Session /\ unsure \in BOOLEAN

(* What the sent-state claims, the central holds: once the two agree on    *)
(* which central it is, a session recorded as sent at a version is there   *)
(* at that version or a later one, unless an open removal names it, an     *)
(* answer about it is being recorded, or one was not heard.                *)
SentIsHeld ==
  disk.sync = central.instance =>
    \A x \in Session :
      central.held[x] >= disk.sent[x] \/ x \in disk.journal \/ Recording(x) \/ x \in unheard

(* The central is the one the machine first pushed to.                     *)
SameCentral == central.instance = 1

(* team-rules.ts:138, "ids the central holds and may no longer have": a    *)
(* denied session that the central still holds can be named.  It is in the *)
(* sent-state, or its acceptance is being recorded; not so one whose       *)
(* acceptance was never heard, or was recorded before the machine first    *)
(* learned who the central is.  (What nothing names is never withdrawn.)   *)
DeniedIsNamed ==
  SameCentral =>
    \A x \in prefs.rules :
      central.held[x] # 0 =>
        disk.sent[x] # 0 \/ Recording(x) \/ x \in unheard

(* The payload memo means "what the central last accepted" on either path  *)
(* of a push; a stale one would suppress the aggregate that takes a denied *)
(* session's volume away.  An aggregate whose answer was not heard, or     *)
(* that the central failed to write, leaves it open until the next one.    *)
MemoIsHeld ==
  SameCentral /\ mem.memo # None /\ ~unsure =>
    central.cache = mem.memo \/ \E a \in Activity : At(a, "stored") /\ act[a].first

(* A running server's chain goes on: its timer is armed or its cycle runs. *)
(* team-uploader.ts:1628-1632, "DEFERRED via `_pendingTrigger`, never      *)
(* dropped".                                                               *)
ChainGoesOn == mem.up => mem.timer \/ ~At("cycle", "idle")

(* When the user, the faults and the central leave it alone, and the chain *)
(* has not ended, everything the rules share reaches the central: the      *)
(* sessions and the aggregate.  (A session whose removal was not heard of  *)
(* stays recorded as sent.)                                                *)
EventuallyShared ==
  <>[](ChainGoesOn =>
         \A x \in Session \ prefs.rules :
           /\ \/ central.held[x] = data[x]
              \/ x \in unheard /\ disk.sent[x] = data[x]
           /\ central.cache[x] = data[x])

(* And what they deny leaves it, from the aggregate too.  (A session that  *)
(* was stored unheard of is not named.)                                    *)
EventuallyGone ==
  <>[](SameCentral /\ ChainGoesOn =>
         \A x \in prefs.rules :
           /\ central.held[x] = 0 \/ (x \in unheard /\ disk.sent[x] = 0)
           /\ central.cache[x] = 0)

(* The status shown to the user (pendingRules, the rules hash): between    *)
(* cycles, rules that count as enforced are enforced, the aggregate        *)
(* included.                                                               *)
SuccessMeansGone ==
  ~mem.running /\ disk.hash = prefs.rules =>
    \A x \in prefs.rules : central.held[x] = 0 /\ central.cache[x] = 0
=============================================================================
