-------------------------- MODULE TeamUploader_proofs --------------------------
(***************************************************************************)
(* Proofs about TeamUploader, for every set of sessions and of rules, any  *)
(* number of changes, faults, crashes and replaced centrals, and any size  *)
(* of a batch.                                                             *)
(*                                                                         *)
(* All of it holds whatever fails and whenever the server dies.  What the  *)
(* sent-state and the memo say of the central is said of the sessions and  *)
(* of the aggregate whose answers were heard: the history variables        *)
(* unheard and unsure hold the others.                                     *)
(***************************************************************************)
EXTENDS TeamUploader, TLAPS

-----------------------------------------------------------------------------
(***************************************************************************)
(* The inductive invariant, part by part.                                  *)
(***************************************************************************)

\* Where an activity is that pushes, and where it has its context.
Pushing == {"gate", "probe", "select", "post", "stored", "finish"}
Placed  == Step \ {"idle", "policy", "context", "waiting"}

\* One activity pushes at a time, and none while the server is down.
TurnInv ==
  /\ act["manual"].pc \in {"idle", "context", "waiting", "guard"} \cup Pushing
  /\ ~act["manual"].closing
  /\ act["cycle"].pc # "guard"
  /\ act["cycle"].pc # "idle" => mem.running /\ act["manual"].pc \notin Pushing
  /\ act["manual"].pc \in Pushing => mem.running
  /\ mem.timer \/ mem.asked => mem.up
  /\ \A a \in Activity : act[a].pc # "idle" => mem.up

\* Nobody has met a central that is not there yet.
InstanceInv ==
  /\ disk.sync # None => disk.sync \in 1..central.instance
  /\ \A a \in Activity :
       act[a].instance # None => act[a].instance \in 1..central.instance

\* An activity that is past its context has one.
ContextInv ==
  \A a \in Activity : act[a].pc \in Placed => act[a].ctx \in Context

\* A push carries what it has not sent, and nothing that is not there.
BatchInv ==
  \A a \in Activity :
    act[a].pc \in {"post", "stored"} =>
      /\ \A x \in act[a].todo : act[a].ctx.data[x] # 0
      /\ act[a].pc = "stored" => act[a].batch \subseteq act[a].todo

\* The removal.  It works on what the journals name, its own journal is
\* written before its request, and it is closed after its acknowledgement.
RemovalInv ==
  LET c == act["cycle"] IN
  /\ c.pc \in {"whoami", "journal", "forget", "acked"} => mem.resume \subseteq c.ids
  /\ c.pc \in {"forget", "acked"} => c.ids \subseteq disk.journal
  /\ c.closing => c.pc \in Pushing \cup {"sync", "close", "closed"}
  /\ c.pc \in {"close", "closed"} => c.closing

\* A session that the central may hold less of than the sent-state says: the
\* journal names it, and whoever is up knows.
Owed(x) ==
  /\ x \in disk.journal /\ ~act["cycle"].closing
  /\ IF At("cycle", "acked") THEN x \in act["cycle"].ids ELSE mem.up => x \in mem.resume

SentInv ==
  disk.sync = central.instance =>
    /\ \A x \in Session : central.held[x] >= disk.sent[x] \/ Recording(x) \/ Owed(x)
                         \/ x \in unheard
    /\ \A a \in Activity :
         At(a, "stored") =>
           \A x \in act[a].batch : central.held[x] >= act[a].ctx.data[x]

NamedInv ==
  SameCentral =>
    /\ \A x \in Session : central.held[x] # 0 =>
                         disk.sent[x] # 0 \/ Recording(x) \/ x \in unheard
    /\ At("cycle", "acked") => \A x \in act["cycle"].ids : central.held[x] = 0

MemoInv ==
  SameCentral /\ ~unsure =>
    /\ \A a \in Activity :
         At(a, "stored") /\ act[a].first => central.cache = Payload(a)
    /\ mem.memo # None =>
         central.cache = mem.memo \/ \E a \in Activity : At(a, "stored") /\ act[a].first

-----------------------------------------------------------------------------
(***************************************************************************)
(* Types.                                                                  *)
(***************************************************************************)

Central == [held : Content, cache : Content, instance : Nat \ {0}]
Prefs == [rules : RuleSets, authFailed : BOOLEAN]
Disk == [sent : Content, journal : SUBSET Session, hash : RuleSets, sync : {None} \cup Nat]
Mem == [up : BOOLEAN, running : BOOLEAN, pending : BOOLEAN, timer : BOOLEAN, asked : BOOLEAN,
        restricted : BOOLEAN, memo : {None} \cup Content, streak : 0..MaxStreak,
        resume : SUBSET Session, canForget : BOOLEAN,
        authStop : {"no", "stopped", "due"}, errSince : BOOLEAN]
Shared == [cached : {None} \cup Context, build : {None} \cup [data : Content]]
Job == [pc : Step, rules : RuleSets, failed : BOOLEAN, instance : {None} \cup Nat,
        ctx : {None} \cup Context, ids : SUBSET Session, next : RuleSets, closing : BOOLEAN,
        todo : SUBSET Session, batch : SUBSET Session, first : BOOLEAN]

\* The types of all but the history.
BaseTypes ==
  /\ central \in Central /\ data \in Content /\ prefs \in Prefs /\ disk \in Disk
  /\ mem \in Mem /\ shared \in Shared /\ act \in [Activity -> Job]
  /\ left \in 0..MaxEvents

HistoryType == unheard \subseteq Session /\ unsure \in BOOLEAN

\* The type invariant, by the names of its records.
LEMMA AllTypes == BaseTypes /\ HistoryType => TypeOK
BY DEF BaseTypes, HistoryType, TypeOK, CentralType, Central, Prefs, Disk, Mem, Shared, Job

LEMMA Types ==
  BaseTypes <=> /\ central \in Central /\ data \in Content /\ prefs \in Prefs /\ disk \in Disk
             /\ mem \in Mem /\ shared \in Shared /\ act \in [Activity -> Job]
             /\ left \in 0..MaxEvents
BY DEF BaseTypes

\* The same of the state after a step.
LEMMA NewTypes ==
  ASSUME central' \in Central, data' \in Content, prefs' \in Prefs, disk' \in Disk,
         mem' \in Mem, shared' \in Shared, act' \in [Activity -> Job], left' \in 0..MaxEvents
  PROVE  BaseTypes'
BY DEF BaseTypes

\* Activity a goes to a step, and nothing else of the activities changes.
Moves(a, at) ==
  /\ act'[a].pc = at /\ act'[a].ctx = act[a].ctx /\ act'[a].rules = act[a].rules
  /\ act'[a].failed = act[a].failed /\ act'[a].instance = act[a].instance
  /\ act'[a].ids = act[a].ids /\ act'[a].next = act[a].next
  /\ act'[a].closing = act[a].closing /\ act'[a].todo = act[a].todo
  /\ act'[a].batch = act[a].batch /\ act'[a].first = act[a].first
  /\ \A b \in Activity : b # a => act'[b] = act[b]

\* That is what an EXCEPT of the step does.
LEMMA MoveFacts ==
  ASSUME act \in [Activity -> Job], NEW a \in Activity, NEW at \in Step,
         act' = [act EXCEPT ![a].pc = at]
  PROVE  act' \in [Activity -> Job] /\ Moves(a, at)
<1>1. act[a] \in Job
  OBVIOUS
<1>2. [act[a] EXCEPT !.pc = at] \in Job
  BY <1>1 DEF Job
<1>3. act' = [act EXCEPT ![a] = [act[a] EXCEPT !.pc = at]]
  BY Zenon
<1>4. act'[a] = [act[a] EXCEPT !.pc = at] /\ \A b \in Activity : b # a => act'[b] = act[b]
  BY <1>3
<1>5. act' \in [Activity -> Job]
  BY <1>2, <1>3
<1>6. Moves(a, at)
  BY <1>1, <1>4 DEF Moves, Job
<1>7. QED
  BY <1>5, <1>6

\* The same of an activity that is given another record.
LEMMA ReplaceFacts ==
  ASSUME act \in [Activity -> Job], NEW a \in Activity, NEW r \in Job,
         act' = [act EXCEPT ![a] = r]
  PROVE  /\ act' \in [Activity -> Job] /\ act'[a] = r
         /\ \A b \in Activity : b # a => act'[b] = act[b]
OBVIOUS

\* An activity is past its context only if it was, or has been given one.
LEMMA ContextKept ==
  ASSUME ContextInv, NEW a \in Activity,
         \A b \in Activity : b # a => act'[b] = act[b],
         act'[a].pc \in Placed =>
           act'[a].ctx \in Context \/ (act[a].pc \in Placed /\ act'[a].ctx = act[a].ctx)
  PROVE  ContextInv'
BY DEF ContextInv

\* What an activity, the memory and the sent-state start as.
LEMMA StartTypes == Idle \in Job /\ Down \in Mem /\ Empty \in Content
<1>1. {} \in RuleSets /\ MaxStreak \in Nat /\ MaxVersion \in Nat
  BY TeamAssumption
<1>2. QED
  BY <1>1 DEF Idle, Job, Step, Down, Mem, Empty, Content, Version

\* The activities are two.
LEMMA TwoActivities == "cycle" \in Activity /\ "manual" \in Activity
BY DEF Activity

\* An aggregate is a content.
LEMMA AggregateType ==
  ASSUME NEW ctx \in Context, NEW rules
  PROVE  Aggregate(ctx, rules) \in Content
BY TeamAssumption DEF Aggregate, Context, Content, Version

\* Whatever is paid for, the budget stays one.
LEMMA SpendType ==
  ASSUME left \in 0..MaxEvents, NEW o, Spend(o)
  PROVE  left' \in 0..MaxEvents
BY TeamAssumption DEF Spend

\* Init is typed.
LEMMA TypeInit == Init => BaseTypes /\ ContextInv
<1> SUFFICES ASSUME Init PROVE BaseTypes /\ ContextInv
  OBVIOUS
<1>1. MaxVersion \in Nat \ {0} /\ MaxEvents \in Nat /\ {} \in RuleSets
  BY TeamAssumption
<1>2. central \in Central /\ central.instance = 1
  BY StartTypes DEF Init, CentralInit, Central
<1>3. data \in Content
  BY <1>1 DEF Init, Content, Version
<1>4. prefs \in Prefs
  BY <1>1 DEF Init, Prefs
<1>5. disk \in Disk
  BY <1>1, <1>2, StartTypes DEF Init, Disk
<1>6. mem \in Mem
  BY StartTypes DEF Init, Mem
<1>7. shared \in Shared
  BY DEF Init, Shared
<1>8. act \in [Activity -> Job] /\ \A a \in Activity : act[a].pc = "idle"
  BY StartTypes DEF Init, Idle
<1>9. QED
  BY <1>1, <1>2, <1>3, <1>4, <1>5, <1>6, <1>7, <1>8, Types DEF Init, ContextInv, Placed

\* A cycle is started, or its trigger remembered.
LEMMA RunCycleType ==
  ASSUME BaseTypes, ContextInv, NEW m \in Mem, RunCycle(m)
  PROVE  mem' \in Mem /\ act' \in [Activity -> Job] /\ ContextInv'
<1> USE Types
<1>1. mem' \in Mem
  BY DEF RunCycle, Mem
<1>2. [Idle EXCEPT !.pc = "policy", !.rules = prefs.rules, !.failed = prefs.authFailed] \in Job
  BY StartTypes DEF Job, Step, Prefs
<1>3. act' \in [Activity -> Job]
  BY <1>2 DEF RunCycle
<1>4. ContextInv'
  <2>1. ASSUME NEW a \in Activity PROVE act'[a] = act[a] \/ act'[a].pc = "policy"
    BY StartTypes DEF RunCycle, Job
  <2>2. QED
    BY <2>1 DEF ContextInv, Placed
<1>5. QED
  BY <1>1, <1>3, <1>4

\* Every step keeps the types, and gives a context to whoever goes past it.
LEMMA TypeStep ==
  ASSUME BaseTypes, ContextInv, [Next]_vars
  PROVE  BaseTypes' /\ ContextInv'
<1> DEFINE Goal == BaseTypes' /\ ContextInv'
<1>0. /\ central \in Central /\ data \in Content /\ prefs \in Prefs /\ disk \in Disk
      /\ mem \in Mem /\ shared \in Shared /\ act \in [Activity -> Job]
      /\ left \in 0..MaxEvents
  BY Types
<1>1. CASE UNCHANGED vars
  BY <1>1 DEF vars, BaseTypes, ContextInv
<1>2. CASE TimerFires \/ AskedFires
  <2>1. PICK m \in Mem : RunCycle(m)
    BY <1>0, <1>2 DEF TimerFires, AskedFires, Mem
  <2>2. mem' \in Mem /\ act' \in [Activity -> Job] /\ ContextInv'
    BY <2>1, RunCycleType
  <2>3. UNCHANGED <<central, data, prefs, disk, shared, left>>
    BY <1>2 DEF TimerFires, AskedFires
  <2>4. QED
    BY <1>0, <2>2, <2>3, NewTypes
<1>3. CASE PushNow
  <2> DEFINE r == [Idle EXCEPT !.pc = "context", !.rules = prefs.rules,
                               !.failed = prefs.authFailed]
  <2>1. r \in Job /\ r.pc = "context"
    BY <1>0, StartTypes DEF Job, Step, Prefs
  <2>2. act' = [act EXCEPT !["manual"] = r]
    BY <1>3 DEF PushNow
  <2> HIDE DEF r
  <2>3. /\ act' \in [Activity -> Job] /\ act'["manual"] = r
        /\ \A b \in Activity : b # "manual" => act'[b] = act[b]
    BY <1>0, <2>1, <2>2, TwoActivities, ReplaceFacts
  <2>4. ContextInv'
    BY <2>1, <2>3, TwoActivities, ContextKept DEF Placed
  <2>5. left' \in 0..MaxEvents /\ UNCHANGED <<central, data, prefs, disk, mem, shared>>
    BY <1>0, <1>3, TeamAssumption DEF PushNow
  <2>6. QED
    BY <1>0, <2>3, <2>4, <2>5, NewTypes
<1>4. CASE Guard
  <2>1. mem' \in Mem
    BY <1>0, <1>4 DEF Guard, Mem
  <2>2. act' \in [Activity -> Job] /\ ContextInv'
    <3>1. CASE act' = [act EXCEPT !["manual"] = Idle]
      <4>1. /\ act' \in [Activity -> Job] /\ act'["manual"] = Idle
            /\ \A b \in Activity : b # "manual" => act'[b] = act[b]
        BY <1>0, <3>1, TwoActivities, ReplaceFacts, StartTypes
      <4>2. QED
        BY <4>1, TwoActivities, ContextKept DEF Placed, Idle
    <3>2. CASE act' = [act EXCEPT !["manual"].pc = "gate"]
      <4>1. act' \in [Activity -> Job] /\ Moves("manual", "gate")
        BY <1>0, <3>2, TwoActivities, MoveFacts DEF Step
      <4>2. QED
        BY <1>4, <4>1, TwoActivities, ContextKept DEF Moves, Guard, At, Placed, Step
    <3>3. QED
      BY <1>4, <3>1, <3>2 DEF Guard, Goto
  <2>3. UNCHANGED <<central, data, prefs, disk, shared, left>>
    BY <1>4 DEF Guard
  <2>4. QED
    BY <1>0, <2>1, <2>2, <2>3, NewTypes
<1>5. ASSUME NEW o, Policy(o) PROVE Goal
  <2>1. mem' \in Mem
    <3>1. (mem.canForget \/ o = "ok") \in BOOLEAN
      BY Zenon
    <3>2. mem' = [mem EXCEPT !.canForget = mem.canForget \/ o = "ok"]
      BY <1>5 DEF Policy
    <3>3. QED
      BY <1>0, <3>1, <3>2 DEF Mem
  <2> DEFINE r == [act["cycle"] EXCEPT
                     !.pc = "context",
                     !.instance = IF o = "ok" THEN central.instance ELSE None]
  <2>2. r \in Job /\ r.pc = "context"
    <3>1. (IF o = "ok" THEN central.instance ELSE None) \in {None} \cup Nat
      BY <1>0 DEF Central
    <3>2. act["cycle"] \in Job /\ "context" \in Step
      BY <1>0, TwoActivities DEF Step
    <3>3. QED
      BY <3>1, <3>2 DEF Job
  <2>3. act' = [act EXCEPT !["cycle"] = r]
    BY <1>5 DEF Policy
  <2> HIDE DEF r
  <2>4. /\ act' \in [Activity -> Job] /\ act'["cycle"] = r
        /\ \A b \in Activity : b # "cycle" => act'[b] = act[b]
    BY <1>0, <2>2, <2>3, TwoActivities, ReplaceFacts
  <2>5. ContextInv'
    BY <2>2, <2>4, TwoActivities, ContextKept DEF Placed
  <2>6. left' \in 0..MaxEvents /\ UNCHANGED <<central, data, prefs, disk, shared>>
    BY <1>0, <1>5, SpendType DEF Policy
  <2>7. QED
    BY <1>0, <2>1, <2>4, <2>5, <2>6, NewTypes
<1>6. ASSUME NEW a \in Activity, GetContext(a) PROVE Goal
  <2>1. CASE shared.cached # None
    <3> DEFINE r == [act[a] EXCEPT !.ctx = shared.cached, !.pc = AfterContext(a)]
    <3>1. r \in Job /\ r.ctx \in Context
      <4>1. shared.cached \in Context
        BY <1>0, <2>1 DEF Shared
      <4>2. act[a] \in Job /\ AfterContext(a) \in Step
        BY <1>0 DEF AfterContext, Step
      <4>3. QED
        BY <4>1, <4>2 DEF Job
    <3>2. act' = [act EXCEPT ![a] = r] /\ UNCHANGED shared
      BY <1>6, <2>1 DEF GetContext
    <3> HIDE DEF r
    <3>3. /\ act' \in [Activity -> Job] /\ act'[a] = r
          /\ \A b \in Activity : b # a => act'[b] = act[b]
      BY <1>0, <3>1, <3>2, ReplaceFacts
    <3>4. ContextInv'
      BY <3>1, <3>3, ContextKept
    <3>5. UNCHANGED <<central, data, prefs, disk, mem, left>>
      BY <1>6 DEF GetContext
    <3>6. QED
      BY <1>0, <3>2, <3>3, <3>4, <3>5, NewTypes
  <2>2. CASE shared.cached = None
    <3>1. act' = [act EXCEPT ![a].pc = "waiting"]
      BY <1>6, <2>2 DEF GetContext, Goto
    <3>2. act' \in [Activity -> Job] /\ Moves(a, "waiting")
      BY <1>0, <3>1, MoveFacts DEF Step
    <3>3. ContextInv'
      BY <3>2, ContextKept DEF Moves, Placed
    <3>4. shared' \in Shared
      BY <1>0, <1>6, <2>2 DEF GetContext, Shared
    <3>5. UNCHANGED <<central, data, prefs, disk, mem, left>>
      BY <1>6 DEF GetContext
    <3>6. QED
      BY <1>0, <3>2, <3>3, <3>4, <3>5, NewTypes
  <2>3. QED
    BY <2>1, <2>2
<1>7. ASSUME NEW o, FinishBuild(o) PROVE Goal
  <2> DEFINE ctx == [data |-> shared.build.data, blind |-> o = "failed"]
  <2>1. ctx \in Context
    <3>1. (o = "failed") \in BOOLEAN
      BY Zenon
    <3>2. shared.build.data \in Content
      BY <1>0, <1>7 DEF FinishBuild, Shared
    <3>3. QED
      BY <3>1, <3>2 DEF Context
  <2>2. /\ shared' = [cached |-> ctx, build |-> None]
        /\ act' = [a \in Activity |->
                     IF At(a, "waiting")
                     THEN [act[a] EXCEPT !.ctx = ctx, !.pc = AfterContext(a)]
                     ELSE act[a]]
    BY <1>7 DEF FinishBuild
  <2> HIDE DEF ctx
  <2>3. shared' \in Shared
    BY <2>1, <2>2 DEF Shared
  <2>4. \A a \in Activity :
          /\ [act[a] EXCEPT !.ctx = ctx, !.pc = AfterContext(a)] \in Job
          /\ [act[a] EXCEPT !.ctx = ctx, !.pc = AfterContext(a)].ctx = ctx
    <3>1. \A a \in Activity : act[a] \in Job /\ AfterContext(a) \in Step
      BY <1>0 DEF AfterContext, Step
    <3>2. QED
      BY <2>1, <3>1 DEF Job
  <2>5. act' \in [Activity -> Job]
    BY <1>0, <2>2, <2>4
  <2>6. ContextInv'
    BY <2>1, <2>2, <2>4 DEF ContextInv
  <2>7. left' \in 0..MaxEvents /\ UNCHANGED <<central, data, prefs, disk, mem>>
    BY <1>0, <1>7, SpendType DEF FinishBuild
  <2>8. QED
    BY <1>0, <2>3, <2>5, <2>6, <2>7, NewTypes
<1>8. CASE Expire
  <2>1. shared' \in Shared
    BY <1>0, <1>8 DEF Expire, Shared
  <2>2. UNCHANGED <<central, data, prefs, disk, mem, act, left>>
    BY <1>8 DEF Expire
  <2>3. ContextInv'
    BY <2>2 DEF ContextInv
  <2>4. QED
    BY <1>0, <2>1, <2>2, <2>3, NewTypes
<1>9. CASE Plan
  <2>1. PICK ids \in SUBSET Session, next \in RuleSets, at \in Step :
          /\ act' = [act EXCEPT !["cycle"].ids = ids, !["cycle"].next = next,
                               !["cycle"].pc = at]
          /\ disk' = [disk EXCEPT !.hash = IF ids = {} THEN next ELSE @]
    <3> DEFINE ids == ({x \in Session : disk.sent[x] # 0} \cap Denied("cycle")) \cup mem.resume
               next == IF act["cycle"].ctx.blind /\ {x \in Session : disk.sent[x] # 0} # {}
                       THEN disk.hash ELSE act["cycle"].rules
               at == CASE ids = {} -> "sync"
                       [] ids # {} /\ mem.canForget -> "whoami"
                       [] OTHER -> "gate"
    <3>1. ids \in SUBSET Session
      BY <1>0 DEF Mem
    <3>2. next \in RuleSets
      BY <1>0, TwoActivities DEF Disk, Job
    <3>3. at \in Step
      BY DEF Step
    <3>4. /\ act' = [act EXCEPT !["cycle"].ids = ids, !["cycle"].next = next,
                               !["cycle"].pc = at]
          /\ disk' = [disk EXCEPT !.hash = IF ids = {} THEN next ELSE @]
      BY <1>9, Zenon DEF Plan
    <3> HIDE DEF ids, next, at
    <3>5. QED
      BY <3>1, <3>2, <3>3, <3>4
  <2> DEFINE r == [act["cycle"] EXCEPT !.ids = ids, !.next = next, !.pc = at]
  <2>2. r \in Job /\ r.ctx = act["cycle"].ctx
    <3>1. act["cycle"] \in Job
      BY <1>0, TwoActivities
    <3>2. QED
      BY <3>1 DEF Job
  <2>3. act' = [act EXCEPT !["cycle"] = r]
    BY <2>1
  <2> HIDE DEF r
  <2>4. /\ act' \in [Activity -> Job] /\ act'["cycle"] = r
        /\ \A b \in Activity : b # "cycle" => act'[b] = act[b]
    BY <1>0, <2>2, <2>3, TwoActivities, ReplaceFacts
  <2>5. ContextInv'
    BY <1>9, <2>2, <2>4, TwoActivities, ContextKept DEF Plan, At, Placed, Step
  <2>6. disk' \in Disk
    BY <1>0, <2>1 DEF Disk
  <2>7. UNCHANGED <<central, data, prefs, mem, shared, left>>
    BY <1>9 DEF Plan
  <2>8. QED
    BY <1>0, <2>4, <2>5, <2>6, <2>7, NewTypes
<1>10. ASSUME NEW o, Whoami(o) PROVE Goal
  <2>1. prefs' \in Prefs
    BY <1>0, <1>10 DEF Whoami, Rejected, Prefs
  <2>2. PICK at \in Step : act' = [act EXCEPT !["cycle"].pc = at]
    BY <1>10 DEF Whoami, Rejected, Goto, Step
  <2>3. act' \in [Activity -> Job] /\ Moves("cycle", at)
    BY <1>0, <2>2, TwoActivities, MoveFacts
  <2>4. ContextInv'
    BY <1>10, <2>3, TwoActivities, ContextKept DEF Moves, Whoami, At, Placed, Step
  <2>5. left' \in 0..MaxEvents /\ UNCHANGED <<central, data, disk, mem, shared>>
    BY <1>0, <1>10, SpendType DEF Whoami
  <2>6. QED
    BY <1>0, <2>1, <2>3, <2>4, <2>5, NewTypes
<1>11. CASE WriteJournal \/ Sync \/ CloseJournal
  <2>1. disk' \in Disk
    <3>1. act["cycle"].ids \subseteq Session /\ act["cycle"].instance \in {None} \cup Nat
      BY <1>0, TwoActivities DEF Job
    <3>2. QED
      BY <1>0, <1>11, <3>1, StartTypes DEF WriteJournal, Sync, CloseJournal, Disk
  <2>2. PICK at \in Step : act' = [act EXCEPT !["cycle"].pc = at]
    BY <1>11 DEF WriteJournal, Sync, CloseJournal, Goto, Step
  <2>3. act' \in [Activity -> Job] /\ Moves("cycle", at)
    BY <1>0, <2>2, TwoActivities, MoveFacts
  <2>4. ContextInv'
    BY <1>11, <2>3, TwoActivities, ContextKept
       DEF Moves, WriteJournal, Sync, CloseJournal, At, Placed, Step
  <2>5. UNCHANGED <<central, data, prefs, mem, shared, left>>
    BY <1>11 DEF WriteJournal, Sync, CloseJournal
  <2>6. QED
    BY <1>0, <2>1, <2>3, <2>4, <2>5, NewTypes
<1>12. CASE Acked
  <2>1. disk' \in Disk
    <3>1. [x \in Session |-> IF x \in act["cycle"].ids THEN 0 ELSE disk.sent[x]] \in Content
      BY <1>0, TeamAssumption DEF Disk, Content, Version
    <3>2. QED
      BY <1>0, <1>12, <3>1 DEF Acked, Disk
  <2> DEFINE r == [act["cycle"] EXCEPT !.closing = TRUE, !.pc = "sync"]
  <2>2. r \in Job /\ r.ctx = act["cycle"].ctx
    <3>1. act["cycle"] \in Job /\ "sync" \in Step
      BY <1>0, TwoActivities DEF Step
    <3>2. QED
      BY <3>1 DEF Job
  <2>3. act' = [act EXCEPT !["cycle"] = r]
    BY <1>12 DEF Acked
  <2> HIDE DEF r
  <2>4. /\ act' \in [Activity -> Job] /\ act'["cycle"] = r
        /\ \A b \in Activity : b # "cycle" => act'[b] = act[b]
    BY <1>0, <2>2, <2>3, TwoActivities, ReplaceFacts
  <2>5. ContextInv'
    BY <1>12, <2>2, <2>4, TwoActivities, ContextKept DEF Acked, At, Placed, Step
  <2>6. UNCHANGED <<central, data, prefs, mem, shared, left>>
    BY <1>12 DEF Acked
  <2>7. QED
    BY <1>0, <2>1, <2>4, <2>5, <2>6, NewTypes
<1>13. ASSUME NEW o, Forget(o) PROVE Goal
  <2>1. prefs' \in Prefs
    BY <1>0, <1>13 DEF Forget, Rejected, Prefs
  <2>2. PICK at \in Step : act' = [act EXCEPT !["cycle"].pc = at]
    BY <1>13 DEF Forget, Rejected, Goto, Step
  <2>3. act' \in [Activity -> Job] /\ Moves("cycle", at)
    BY <1>0, <2>2, TwoActivities, MoveFacts
  <2>4. ContextInv'
    BY <1>13, <2>3, TwoActivities, ContextKept DEF Moves, Forget, At, Placed, Step
  <2>5. central' \in Central
    <3>1. [x \in Session |-> IF x \in act["cycle"].ids THEN 0 ELSE central.held[x]] \in Content
      BY <1>0, TeamAssumption DEF Central, Content, Version
    <3>2. ForgetSessions(act["cycle"].ids) \/ UNCHANGED central
      BY <1>13 DEF Forget
    <3>3. QED
      BY <1>0, <3>1, <3>2 DEF ForgetSessions, Central
  <2>6. left' \in 0..MaxEvents /\ UNCHANGED <<data, disk, mem, shared>>
    BY <1>0, <1>13, SpendType DEF Forget
  <2>7. QED
    BY <1>0, <2>1, <2>3, <2>4, <2>5, <2>6, NewTypes
<1>14. CASE Enforced
  <2>1. act["cycle"].next \in RuleSets
    BY <1>0, TwoActivities DEF Job
  <2>2. disk' \in Disk
    BY <1>0, <1>14, <2>1 DEF Enforced, Disk
  <2>3. mem' \in Mem
    BY <1>0, <1>14 DEF Enforced, Mem
  <2>4. act' \in [Activity -> Job] /\ Moves("cycle", "finish")
    BY <1>0, <1>14, TwoActivities, MoveFacts DEF Enforced, Goto, Step
  <2>5. ContextInv'
    BY <1>14, <2>4, TwoActivities, ContextKept DEF Moves, Enforced, At, Placed, Step
  <2>6. UNCHANGED <<central, data, prefs, shared, left>>
    BY <1>14 DEF Enforced
  <2>7. QED
    BY <1>0, <2>2, <2>3, <2>4, <2>5, <2>6, NewTypes
<1>15. ASSUME NEW a \in Activity, Gate(a) PROVE Goal
  <2>1. mem' \in Mem
    BY <1>0, <1>15 DEF Gate, Mem
  <2>2. PICK at \in Step : act' = [act EXCEPT ![a].pc = at]
    BY <1>0, <1>15 DEF Gate, Goto, Pushed, Step, Mem
  <2>3. act' \in [Activity -> Job] /\ Moves(a, at)
    BY <1>0, <2>2, MoveFacts
  <2>4. ContextInv'
    BY <1>15, <2>3, ContextKept DEF Moves, Gate, At, Placed, Step
  <2>5. UNCHANGED <<central, data, prefs, disk, shared, left>>
    BY <1>15 DEF Gate
  <2>6. QED
    BY <1>0, <2>1, <2>3, <2>4, <2>5, NewTypes
<1>16. ASSUME NEW a \in Activity, NEW o, Probe(a, o) PROVE Goal
  <2>1. mem' \in Mem
    BY <1>0, <1>16 DEF Probe, Mem
  <2>2. prefs' \in Prefs
    <3>1. (prefs.authFailed /\ ~act[a].failed) \in BOOLEAN
      BY Zenon
    <3>2. QED
      BY <1>0, <1>16, <3>1 DEF Probe, ClearAuthFailure, Prefs
  <2>3. PICK at \in Step : act' = [act EXCEPT ![a].pc = at]
    BY <1>0, <1>16 DEF Probe, Goto, Pushed, Step
  <2>4. act' \in [Activity -> Job] /\ Moves(a, at)
    BY <1>0, <2>3, MoveFacts
  <2>5. ContextInv'
    BY <1>16, <2>4, ContextKept DEF Moves, Probe, At, Placed, Step
  <2>6. left' \in 0..MaxEvents /\ UNCHANGED <<central, data, disk, shared>>
    BY <1>0, <1>16, SpendType DEF Probe
  <2>7. QED
    BY <1>0, <2>1, <2>2, <2>4, <2>5, <2>6, NewTypes
<1>17. ASSUME NEW a \in Activity, Select(a) PROVE Goal
  <2>1. mem' \in Mem
    <3>1. (act[a].rules # {}) \in BOOLEAN
      BY Zenon
    <3> DEFINE n == IF Suppressed(a) THEN mem.streak + 1
                    ELSE IF act[a].rules # {} /\ Deltas(a) = {} THEN 0 ELSE mem.streak
    <3>2. n \in 0..MaxStreak
      <4>1. mem.streak \in 0..MaxStreak /\ MaxStreak \in Nat
        BY <1>0, TeamAssumption DEF Mem
      <4>2. Suppressed(a) => mem.streak + 1 \in 0..MaxStreak
        BY <4>1 DEF Suppressed
      <4>3. QED
        BY <4>1, <4>2
    <3>3. mem' = [mem EXCEPT !.restricted = act[a].rules # {}, !.streak = n]
      BY <1>17 DEF Select
    <3> HIDE DEF n
    <3>4. QED
      BY <1>0, <3>1, <3>2, <3>3 DEF Mem
  <2>2. PICK at \in Step : act' = [act EXCEPT ![a].todo = Deltas(a), ![a].pc = at]
    BY <1>17 DEF Select, Pushed, Step
  <2> DEFINE r == [act[a] EXCEPT !.todo = Deltas(a), !.pc = at]
  <2>3. r \in Job /\ r.ctx = act[a].ctx
    <3>1. act[a] \in Job /\ Deltas(a) \in SUBSET Session
      BY <1>0 DEF Deltas
    <3>2. QED
      BY <3>1 DEF Job
  <2>4. act' = [act EXCEPT ![a] = r]
    BY <2>2
  <2> HIDE DEF r
  <2>5. /\ act' \in [Activity -> Job] /\ act'[a] = r
        /\ \A b \in Activity : b # a => act'[b] = act[b]
    BY <1>0, <2>3, <2>4, ReplaceFacts
  <2>6. ContextInv'
    BY <1>17, <2>3, <2>5, ContextKept DEF Select, At, Placed, Step
  <2>7. UNCHANGED <<central, data, prefs, disk, shared, left>>
    BY <1>17 DEF Select
  <2>8. QED
    BY <1>0, <2>1, <2>5, <2>6, <2>7, NewTypes
<1>18. ASSUME NEW a \in Activity, NEW o, Post(a, o) PROVE Goal
  <2>1. act[a] \in Job /\ act[a].ctx \in Context
    BY <1>0, <1>18 DEF Post, At, ContextInv, Placed, Step
  <2>2. PICK b \in Batches(a) :
          /\ \/ Ingest(b, act[a].ctx.data,
                       IF act[a].first /\ o # "partial" THEN Payload(a) ELSE NoCache)
             \/ UNCHANGED central
          /\ \/ act' = [act EXCEPT ![a].pc = "stored", ![a].batch = b]
             \/ GiveUp(a, b)
    BY <1>18 DEF Post
  <2>3. b \in SUBSET Session
    BY <2>1, <2>2 DEF Batches, Job
  <2>4. central' \in Central
    <3>1. Payload(a) \in Content /\ act[a].ctx.data \in Content
      BY <2>1, AggregateType DEF Payload, Context
    <3>2. [x \in Session |-> IF x \in b THEN act[a].ctx.data[x] ELSE central.held[x]] \in Content
      BY <1>0, <3>1 DEF Central, Content
    <3>3. QED
      BY <1>0, <2>2, <3>1, <3>2 DEF Ingest, Central
  <2>5. act' \in [Activity -> Job] /\ ContextInv'
    <3>1. CASE act' = [act EXCEPT ![a].pc = "stored", ![a].batch = b]
      <4> DEFINE r == [act[a] EXCEPT !.pc = "stored", !.batch = b]
      <4>1. r \in Job /\ r.ctx = act[a].ctx
        <5>1. "stored" \in Step
          BY DEF Step
        <5>2. QED
          BY <2>1, <2>3, <5>1 DEF Job
      <4>2. act' = [act EXCEPT ![a] = r]
        BY <3>1
      <4> HIDE DEF r
      <4>3. /\ act' \in [Activity -> Job] /\ act'[a] = r
            /\ \A c \in Activity : c # a => act'[c] = act[c]
        BY <1>0, <4>1, <4>2, ReplaceFacts
      <4>4. QED
        BY <2>1, <4>1, <4>3, ContextKept
    <3>2. CASE GiveUp(a, b)
      <4>1. PICK at \in Step : act' = [act EXCEPT ![a].pc = at]
        BY <3>2 DEF GiveUp, Goto, Pushed, Step
      <4>2. act' \in [Activity -> Job] /\ Moves(a, at)
        BY <1>0, <4>1, MoveFacts
      <4>3. QED
        BY <2>1, <4>2, ContextKept DEF Moves
    <3>3. QED
      BY <2>2, <3>1, <3>2
  <2>6. mem' \in Mem
    <3>1. mem' \in {mem, [mem EXCEPT !.authStop = "stopped", !.errSince = TRUE]}
      BY <1>18 DEF Post
    <3>2. QED
      BY <1>0, <3>1 DEF Mem
  <2>7. prefs' \in Prefs
    <3>1. (prefs.authFailed \/ mem.errSince) \in BOOLEAN
      BY Zenon
    <3>2. prefs' \in {prefs, [prefs EXCEPT !.authFailed = prefs.authFailed \/ mem.errSince]}
      BY <1>18 DEF Post
    <3>3. QED
      BY <1>0, <3>1, <3>2 DEF Prefs
  <2>8. left' \in 0..MaxEvents /\ UNCHANGED <<data, disk, shared>>
    BY <1>0, <1>18, SpendType DEF Post
  <2>9. QED
    BY <1>0, <2>4, <2>5, <2>6, <2>7, <2>8, NewTypes
<1>19. ASSUME NEW a \in Activity, Stored(a) PROVE Goal
  <2>1. act[a] \in Job /\ act[a].ctx \in Context
    BY <1>0, <1>19 DEF Stored, At, ContextInv, Placed, Step
  <2>2. disk' \in Disk
    <3>1. [x \in Session |-> IF x \in act[a].batch THEN act[a].ctx.data[x] ELSE disk.sent[x]]
            \in Content
      BY <1>0, <2>1 DEF Disk, Content, Context
    <3>2. disk' = [disk EXCEPT !.sent = [x \in Session |->
                     IF x \in act[a].batch THEN act[a].ctx.data[x] ELSE disk.sent[x]]]
      BY <1>19 DEF Stored
    <3>3. QED
      BY <1>0, <3>1, <3>2 DEF Disk
  <2>3. PICK rest \in SUBSET Session, at \in Step :
          act' = [act EXCEPT ![a].todo = rest, ![a].batch = {}, ![a].first = FALSE,
                             ![a].pc = at]
    <3>1. act[a].todo \ act[a].batch \in SUBSET Session
      BY <2>1 DEF Job
    <3>2. QED
      BY <1>19, <3>1 DEF Stored, Pushed, Step
  <2> DEFINE r == [act[a] EXCEPT !.todo = rest, !.batch = {}, !.first = FALSE, !.pc = at]
  <2>4. r \in Job /\ r.ctx = act[a].ctx
    BY <2>1 DEF Job
  <2>5. act' = [act EXCEPT ![a] = r]
    BY <2>3
  <2> HIDE DEF r
  <2>6. /\ act' \in [Activity -> Job] /\ act'[a] = r
        /\ \A c \in Activity : c # a => act'[c] = act[c]
    BY <1>0, <2>4, <2>5, ReplaceFacts
  <2>7. ContextInv'
    BY <2>1, <2>4, <2>6, ContextKept
  <2>8. mem' \in Mem
    <3>1. Payload(a) \in Content
      BY <2>1, AggregateType DEF Payload
    <3>2. mem' = [mem EXCEPT !.errSince = FALSE,
                             !.memo = IF act[a].first THEN Payload(a) ELSE mem.memo]
      BY <1>19 DEF Stored
    <3>3. QED
      BY <1>0, <3>1, <3>2 DEF Mem
  <2>9. prefs' \in Prefs
    <3>1. (prefs.authFailed /\ ~act[a].failed) \in BOOLEAN
      BY Zenon
    <3>2. QED
      BY <1>0, <1>19, <3>1 DEF Stored, ClearAuthFailure, Prefs
  <2>10. UNCHANGED <<central, data, shared, left>>
    BY <1>19 DEF Stored
  <2>11. QED
    BY <1>0, <2>2, <2>6, <2>7, <2>8, <2>9, <2>10, NewTypes
<1>20. ASSUME NEW a \in Activity, Finish(a) PROVE Goal
  <2>1. mem' \in Mem
    BY <1>0, <1>20 DEF Finish, Mem
  <2>2. /\ act' \in [Activity -> Job] /\ act'[a] = Idle
        /\ \A b \in Activity : b # a => act'[b] = act[b]
    BY <1>0, <1>20, StartTypes, ReplaceFacts DEF Finish
  <2>3. ContextInv'
    BY <2>2, ContextKept DEF Placed, Idle
  <2>4. UNCHANGED <<central, data, prefs, disk, shared, left>>
    BY <1>20 DEF Finish
  <2>5. QED
    BY <1>0, <2>1, <2>2, <2>3, <2>4, NewTypes
<1>21. ASSUME NEW x \in Session, Edit(x) PROVE Goal
  <2>1. data' \in Content
    BY <1>0, <1>21, TeamAssumption DEF Edit, Content, Version
  <2>2. mem' \in Mem
    <3>1. (mem.asked \/ (mem.up /\ ~mem.restricted)) \in BOOLEAN
      BY Zenon
    <3>2. mem' = [mem EXCEPT !.asked = mem.asked \/ (mem.up /\ ~mem.restricted)]
      BY <1>21 DEF Edit
    <3>3. QED
      BY <1>0, <3>1, <3>2 DEF Mem
  <2>3. shared' \in Shared
    BY <1>0, <1>21 DEF Edit, Shared
  <2>4. left' \in 0..MaxEvents /\ UNCHANGED <<central, prefs, disk, act>>
    BY <1>0, <1>21, TeamAssumption DEF Edit
  <2>5. ContextInv'
    BY <2>4 DEF ContextInv
  <2>6. QED
    BY <1>0, <2>1, <2>2, <2>3, <2>4, <2>5, NewTypes
<1>22. ASSUME NEW r \in RuleSets, ChangeRules(r) PROVE Goal
  <2>1. prefs' \in Prefs /\ mem' \in Mem
    BY <1>0, <1>22 DEF ChangeRules, Prefs, Mem
  <2>2. left' \in 0..MaxEvents /\ UNCHANGED <<central, data, disk, shared, act>>
    BY <1>0, <1>22, TeamAssumption DEF ChangeRules
  <2>3. ContextInv'
    BY <2>2 DEF ContextInv
  <2>4. QED
    BY <1>0, <2>1, <2>2, <2>3, NewTypes
<1>23. CASE Tick \/ ProbeDue \/ Boot
  <2>1. mem' \in Mem
    <3>1. (prefs.rules # {}) \in BOOLEAN /\ (~mem.restricted) \in BOOLEAN
      BY Zenon
    <3>2. CASE Boot
      BY <1>0, <3>1, <3>2, StartTypes DEF Boot, Booted, Mem, Disk
    <3>3. CASE Tick \/ ProbeDue
      BY <1>0, <3>1, <3>3 DEF Tick, ProbeDue, Mem
    <3>4. QED
      BY <1>23, <3>2, <3>3
  <2>2. UNCHANGED <<central, data, prefs, disk, shared, act, left>>
    BY <1>23 DEF Tick, ProbeDue, Boot
  <2>3. ContextInv'
    BY <2>2 DEF ContextInv
  <2>4. QED
    BY <1>0, <2>1, <2>2, <2>3, NewTypes
<1>24. CASE Replace
  <2>1. central' \in Central
    <3>1. PICK keeps \in BOOLEAN : Replaced(keeps)
      BY <1>24 DEF Replace
    <3>2. QED
      BY <1>0, <3>1, StartTypes DEF Replaced, Central
  <2>2. left' \in 0..MaxEvents /\ UNCHANGED <<data, prefs, disk, mem, shared, act>>
    BY <1>0, <1>24, TeamAssumption DEF Replace
  <2>3. ContextInv'
    BY <2>2 DEF ContextInv
  <2>4. QED
    BY <1>0, <2>1, <2>2, <2>3, NewTypes
<1>25. CASE Crash
  <2>1. mem' \in Mem /\ shared' \in Shared
    BY <1>25, StartTypes DEF Crash, Shared
  <2>2. act' \in [Activity -> Job] /\ ContextInv'
    BY <1>25, StartTypes DEF Crash, ContextInv, Placed, Idle
  <2>3. left' \in 0..MaxEvents /\ UNCHANGED <<central, data, prefs, disk>>
    BY <1>0, <1>25, TeamAssumption DEF Crash
  <2>4. QED
    BY <1>0, <2>1, <2>2, <2>3, NewTypes
<1>26. QED
  BY <1>1, <1>2, <1>3, <1>4, <1>5, <1>6, <1>7, <1>8, <1>9, <1>10, <1>11, <1>12, <1>13, <1>14,
     <1>15, <1>16, <1>17, <1>18, <1>19, <1>20, <1>21, <1>22, <1>23, <1>24, <1>25
     DEF Next, CycleStep, PushStep, Environment

-----------------------------------------------------------------------------
(***************************************************************************)
(* What each action does to the state the invariants speak of.             *)
(***************************************************************************)

\* The other activities stay where they are.
Rest(a) == \A b \in Activity : b # a => act'[b] = act[b]

\* The memory but for the marks of a rejected connection and of the rules.
MemKept ==
  /\ mem'.up = mem.up /\ mem'.running = mem.running /\ mem'.timer = mem.timer
  /\ mem'.asked = mem.asked /\ mem'.resume = mem.resume /\ mem'.memo = mem.memo

\* The state files but for the hash of the rules.
DiskKept ==
  disk'.sent = disk.sent /\ disk'.journal = disk.journal /\ disk'.sync = disk.sync

\* A trigger starts a cycle where none runs.
LEMMA StartEffect ==
  ASSUME BaseTypes, TimerFires \/ AskedFires
  PROVE  /\ UNCHANGED <<central, disk>> /\ Rest("cycle")
         /\ mem'.up = mem.up /\ mem'.resume = mem.resume /\ mem'.memo = mem.memo
         /\ mem'.running /\ (mem.timer \/ mem.asked) /\ (TimerFires \/ mem'.timer = mem.timer)
         /\ \/ mem.running /\ act'["cycle"] = act["cycle"]
            \/ /\ ~mem.running /\ act'["cycle"].pc = "policy"
               /\ ~act'["cycle"].closing /\ act'["cycle"].instance = None
<1>0. mem \in Mem /\ act \in [Activity -> Job]
  BY Types
<1>1. UNCHANGED <<central, disk>> /\ (mem.timer \/ mem.asked)
  BY DEF TimerFires, AskedFires
<1>2. PICK m \in Mem :
        /\ RunCycle(m) /\ m.up = mem.up /\ m.resume = mem.resume /\ m.memo = mem.memo
        /\ m.running = mem.running /\ (TimerFires \/ m.timer = mem.timer)
  <2>1. CASE TimerFires
    <3> DEFINE m == [mem EXCEPT !.timer = FALSE]
    <3>1. /\ m \in Mem /\ m.up = mem.up /\ m.resume = mem.resume /\ m.memo = mem.memo
          /\ m.running = mem.running
      BY <1>0 DEF Mem
    <3>2. RunCycle(m)
      BY <2>1 DEF TimerFires
    <3> HIDE DEF m
    <3>3. QED
      BY <2>1, <3>1, <3>2
  <2>2. CASE AskedFires
    <3> DEFINE m == [mem EXCEPT !.asked = FALSE]
    <3>1. /\ m \in Mem /\ m.up = mem.up /\ m.resume = mem.resume /\ m.memo = mem.memo
          /\ m.running = mem.running /\ m.timer = mem.timer
      BY <1>0 DEF Mem
    <3>2. RunCycle(m)
      BY <2>2 DEF AskedFires
    <3> HIDE DEF m
    <3>3. QED
      BY <3>1, <3>2
  <2>3. QED
    BY <2>1, <2>2
<1>3. /\ mem'.up = m.up /\ mem'.resume = m.resume /\ mem'.memo = m.memo
      /\ mem'.running /\ mem'.timer = m.timer
  BY <1>2 DEF RunCycle, Mem
<1> DEFINE r == [Idle EXCEPT !.pc = "policy", !.rules = prefs.rules,
                             !.failed = prefs.authFailed]
<1>4. r.pc = "policy" /\ ~r.closing /\ r.instance = None
  BY DEF Idle
<1>5. \/ m.running /\ act' = act
      \/ ~m.running /\ act' = [act EXCEPT !["cycle"] = r]
  BY <1>2 DEF RunCycle
<1> HIDE DEF r
<1>6. Rest("cycle")
  BY <1>0, <1>5 DEF Rest
<1>7. QED
  BY <1>0, <1>1, <1>2, <1>3, <1>4, <1>5, <1>6, TwoActivities

\* A manual push starts.
LEMMA PushNowEffect ==
  ASSUME BaseTypes, PushNow
  PROVE  /\ UNCHANGED <<central, disk, mem>> /\ Rest("manual")
         /\ mem.up /\ act["manual"].pc = "idle" /\ act'["manual"].pc = "context"
         /\ ~act'["manual"].closing /\ act'["manual"].instance = None
<1>0. act \in [Activity -> Job]
  BY Types
<1> DEFINE r == [Idle EXCEPT !.pc = "context", !.rules = prefs.rules,
                             !.failed = prefs.authFailed]
<1>1. r.pc = "context" /\ ~r.closing /\ r.instance = None
  BY DEF Idle
<1>2. act' = [act EXCEPT !["manual"] = r]
  BY DEF PushNow
<1> HIDE DEF r
<1>3. QED
  BY <1>0, <1>1, <1>2, TwoActivities DEF PushNow, At, Rest

\* A manual push has its turn, or gives up.
LEMMA GuardEffect ==
  ASSUME BaseTypes, Guard
  PROVE  /\ UNCHANGED <<central, disk>> /\ Rest("manual") /\ act["manual"].pc = "guard"
         /\ mem'.up = mem.up /\ mem'.timer = mem.timer /\ mem'.asked = mem.asked
         /\ mem'.resume = mem.resume /\ mem'.memo = mem.memo /\ mem'.running
         /\ \/ /\ mem.running /\ act'["manual"].pc = "idle"
               /\ ~act'["manual"].closing /\ act'["manual"].instance = None
            \/ ~mem.running /\ Moves("manual", "gate")
<1>0. mem \in Mem /\ act \in [Activity -> Job]
  BY Types
<1>1. UNCHANGED <<central, disk>> /\ act["manual"].pc = "guard"
  BY DEF Guard, At
<1>2. /\ mem'.up = mem.up /\ mem'.timer = mem.timer /\ mem'.asked = mem.asked
      /\ mem'.resume = mem.resume /\ mem'.memo = mem.memo /\ mem'.running
  BY <1>0 DEF Guard, Mem
<1>3. CASE mem.running
  BY <1>0, <1>1, <1>2, <1>3, TwoActivities DEF Guard, Idle, Rest
<1>4. CASE ~mem.running
  <2>1. Moves("manual", "gate")
    BY <1>0, <1>4, TwoActivities, MoveFacts DEF Guard, Goto, Step
  <2>2. QED
    BY <1>1, <1>2, <1>4, <2>1 DEF Moves, Rest
<1>5. QED
  BY <1>3, <1>4

\* The cycle learns who the central is.
LEMMA PolicyEffect ==
  ASSUME BaseTypes, NEW o, Policy(o)
  PROVE  /\ UNCHANGED <<central, disk>> /\ MemKept /\ Rest("cycle")
         /\ act["cycle"].pc = "policy" /\ act'["cycle"].pc = "context"
         /\ act'["cycle"].closing = act["cycle"].closing
         /\ act'["cycle"].instance \in {None, central.instance}
<1>0. mem \in Mem /\ act \in [Activity -> Job]
  BY Types
<1>1. UNCHANGED <<central, disk>> /\ act["cycle"].pc = "policy"
  BY DEF Policy, At
<1>2. MemKept
  BY <1>0 DEF Policy, Mem, MemKept
<1> DEFINE r == [act["cycle"] EXCEPT
                   !.pc = "context",
                   !.instance = IF o = "ok" THEN central.instance ELSE None]
<1>3. /\ r.pc = "context" /\ r.closing = act["cycle"].closing
      /\ r.instance \in {None, central.instance}
  <2>1. act["cycle"] \in Job
    BY <1>0, TwoActivities
  <2>2. QED
    BY <2>1 DEF Job
<1>4. act' = [act EXCEPT !["cycle"] = r]
  BY DEF Policy
<1> HIDE DEF r
<1>5. QED
  BY <1>0, <1>1, <1>2, <1>3, <1>4, TwoActivities DEF Rest

\* An activity asks for the context, and is given it or waits.
LEMMA ContextEffect ==
  ASSUME BaseTypes, NEW a \in Activity, GetContext(a)
  PROVE  /\ UNCHANGED <<central, disk, mem>> /\ Rest(a)
         /\ act[a].pc = "context" /\ act'[a].pc \in {AfterContext(a), "waiting"}
         /\ act'[a].closing = act[a].closing /\ act'[a].instance = act[a].instance
<1>0. act[a] \in Job /\ act \in [Activity -> Job]
  BY Types
<1>1. UNCHANGED <<central, disk, mem>> /\ act[a].pc = "context"
  BY DEF GetContext, At
<1>2. CASE shared.cached # None
  <2> DEFINE r == [act[a] EXCEPT !.ctx = shared.cached, !.pc = AfterContext(a)]
  <2>1. r.pc = AfterContext(a) /\ r.closing = act[a].closing /\ r.instance = act[a].instance
    BY <1>0 DEF Job
  <2>2. act' = [act EXCEPT ![a] = r]
    BY <1>2 DEF GetContext
  <2> HIDE DEF r
  <2>3. QED
    BY <1>0, <1>1, <2>1, <2>2 DEF Rest
<1>3. CASE shared.cached = None
  <2>1. Moves(a, "waiting")
    BY <1>0, <1>3, MoveFacts DEF GetContext, Goto, Step
  <2>2. QED
    BY <1>1, <2>1 DEF Moves, Rest
<1>4. QED
  BY <1>2, <1>3

\* A build ends, and those who wait for it go on.
LEMMA BuildEffect ==
  ASSUME BaseTypes, NEW o, FinishBuild(o)
  PROVE  /\ UNCHANGED <<central, disk, mem>>
         /\ \A a \in Activity :
              \/ act'[a] = act[a]
              \/ /\ act[a].pc = "waiting" /\ act'[a].pc = AfterContext(a)
                 /\ act'[a].closing = act[a].closing /\ act'[a].instance = act[a].instance
<1>0. act \in [Activity -> Job]
  BY Types
<1> DEFINE ctx == [data |-> shared.build.data, blind |-> o = "failed"]
<1>1. act' = [a \in Activity |->
                IF At(a, "waiting")
                THEN [act[a] EXCEPT !.ctx = ctx, !.pc = AfterContext(a)]
                ELSE act[a]]
  BY DEF FinishBuild
<1> HIDE DEF ctx
<1>2. ASSUME NEW a \in Activity
      PROVE  \/ act'[a] = act[a]
             \/ /\ act[a].pc = "waiting" /\ act'[a].pc = AfterContext(a)
                /\ act'[a].closing = act[a].closing /\ act'[a].instance = act[a].instance
  <2>1. act[a] \in Job
    BY <1>0
  <2>2. QED
    BY <1>1, <2>1 DEF At, Job
<1>3. QED
  BY <1>2 DEF FinishBuild

\* The plan decides what is withdrawn: what a journal named is.
LEMMA PlanEffect ==
  ASSUME BaseTypes, Plan
  PROVE  /\ UNCHANGED <<central, mem>> /\ DiskKept /\ Rest("cycle")
         /\ act["cycle"].pc = "plan" /\ act'["cycle"].pc \in {"sync", "whoami", "gate"}
         /\ act'["cycle"].closing = act["cycle"].closing
         /\ act'["cycle"].instance = act["cycle"].instance
         /\ mem.resume \subseteq act'["cycle"].ids
<1>0. act \in [Activity -> Job] /\ act["cycle"] \in Job /\ disk \in Disk
  BY Types, TwoActivities
<1> DEFINE ids == ({x \in Session : disk.sent[x] # 0} \cap Denied("cycle")) \cup mem.resume
           next == IF act["cycle"].ctx.blind /\ {x \in Session : disk.sent[x] # 0} # {}
                   THEN disk.hash ELSE act["cycle"].rules
           at == CASE ids = {} -> "sync"
                   [] ids # {} /\ mem.canForget -> "whoami"
                   [] OTHER -> "gate"
           r == [act["cycle"] EXCEPT !.ids = ids, !.next = next, !.pc = at]
<1>1. mem.resume \subseteq ids /\ at \in {"sync", "whoami", "gate"}
  OBVIOUS
<1>2. /\ act' = [act EXCEPT !["cycle"].ids = ids, !["cycle"].next = next, !["cycle"].pc = at]
      /\ disk' = [disk EXCEPT !.hash = IF ids = {} THEN next ELSE @]
  BY Zenon DEF Plan
<1> HIDE DEF ids, next, at
<1>3. /\ r.pc = at /\ r.closing = act["cycle"].closing /\ r.instance = act["cycle"].instance
      /\ r.ids = ids
  BY <1>0 DEF Job
<1>4. act' = [act EXCEPT !["cycle"] = r]
  BY <1>2
<1> HIDE DEF r
<1>5. act'["cycle"] = r /\ Rest("cycle")
  BY <1>0, <1>4, TwoActivities DEF Rest
<1>6. DiskKept
  BY <1>0, <1>2 DEF Disk, DiskKept
<1>7. UNCHANGED <<central, mem>> /\ act["cycle"].pc = "plan"
  BY DEF Plan, At
<1>8. QED
  BY <1>1, <1>3, <1>5, <1>6, <1>7

\* The central is asked who this is.
LEMMA WhoamiEffect ==
  ASSUME BaseTypes, NEW o, Whoami(o)
  PROVE  /\ UNCHANGED <<central, disk, mem>> /\ act["cycle"].pc = "whoami"
         /\ \E at \in {"journal", "gate", "finish"} : Moves("cycle", at)
<1>0. act \in [Activity -> Job]
  BY Types
<1>1. PICK at \in {"journal", "gate", "finish"} : act' = [act EXCEPT !["cycle"].pc = at]
  BY DEF Whoami, Rejected, Goto
<1>2. Moves("cycle", at)
  BY <1>0, <1>1, TwoActivities, MoveFacts DEF Step
<1>3. QED
  BY <1>1, <1>2 DEF Whoami, At

\* The journal is written.
LEMMA JournalEffect ==
  ASSUME BaseTypes, WriteJournal
  PROVE  /\ UNCHANGED <<central, mem>> /\ act["cycle"].pc = "journal" /\ Moves("cycle", "forget")
         /\ disk'.journal = act["cycle"].ids
         /\ disk'.sent = disk.sent /\ disk'.sync = disk.sync
<1>0. act \in [Activity -> Job] /\ disk \in Disk
  BY Types
<1>1. Moves("cycle", "forget")
  BY <1>0, TwoActivities, MoveFacts DEF WriteJournal, Goto, Step
<1>2. QED
  BY <1>0, <1>1 DEF WriteJournal, At, Disk

\* A removal is asked for.
LEMMA ForgetEffect ==
  ASSUME BaseTypes, NEW o, Forget(o)
  PROVE  /\ UNCHANGED <<disk, mem>> /\ act["cycle"].pc = "forget"
         /\ central'.instance = central.instance /\ central'.cache = central.cache
         /\ \/ o = "ok" /\ Moves("cycle", "acked")
            \/ /\ o \in {"failed", "lost", "refused"}
               /\ \E at \in {"gate", "finish"} : Moves("cycle", at)
         /\ \/ /\ o \in {"ok", "lost"}
               /\ \A x \in Session :
                    central'.held[x] = IF x \in act["cycle"].ids THEN 0 ELSE central.held[x]
            \/ o \notin {"ok", "lost"} /\ central' = central
<1>0. act \in [Activity -> Job] /\ central \in Central
  BY Types
<1>1. UNCHANGED <<disk, mem>> /\ act["cycle"].pc = "forget"
  BY DEF Forget, At
<1>2. \/ o = "ok" /\ Moves("cycle", "acked")
      \/ /\ o \in {"failed", "lost", "refused"}
         /\ \E at \in {"gate", "finish"} : Moves("cycle", at)
  <2>1. \/ o = "ok" /\ act' = [act EXCEPT !["cycle"].pc = "acked"]
        \/ o \in {"failed", "lost"} /\ act' = [act EXCEPT !["cycle"].pc = "gate"]
        \/ o = "refused" /\ act' = [act EXCEPT !["cycle"].pc = "finish"]
    BY DEF Forget, Rejected, Goto
  <2>2. \A at \in {"acked", "gate", "finish"} :
          act' = [act EXCEPT !["cycle"].pc = at] => Moves("cycle", at)
    BY <1>0, TwoActivities, MoveFacts DEF Step
  <2>3. QED
    BY <2>1, <2>2
<1>3. CASE o \in {"ok", "lost"}
  <2>1. central' = [central EXCEPT
                      !.held = [x \in Session |->
                                  IF x \in act["cycle"].ids THEN 0 ELSE central.held[x]]]
    BY <1>3 DEF Forget, ForgetSessions
  <2>2. QED
    BY <1>0, <1>1, <1>2, <1>3, <2>1 DEF Central
<1>4. CASE o \notin {"ok", "lost"}
  BY <1>1, <1>2, <1>4 DEF Forget
<1>5. QED
  BY <1>3, <1>4

\* An acknowledged removal leaves the sent-state.
LEMMA AckedEffect ==
  ASSUME BaseTypes, Acked
  PROVE  /\ UNCHANGED <<central, mem>> /\ Rest("cycle")
         /\ act["cycle"].pc = "acked" /\ act'["cycle"].pc = "sync"
         /\ act'["cycle"].closing /\ act'["cycle"].instance = act["cycle"].instance
         /\ disk'.journal = disk.journal /\ disk'.sync = disk.sync
         /\ \A x \in Session :
              disk'.sent[x] = IF x \in act["cycle"].ids THEN 0 ELSE disk.sent[x]
<1>0. act \in [Activity -> Job] /\ act["cycle"] \in Job /\ disk \in Disk
  BY Types, TwoActivities
<1> DEFINE r == [act["cycle"] EXCEPT !.closing = TRUE, !.pc = "sync"]
<1>1. r.pc = "sync" /\ r.closing /\ r.instance = act["cycle"].instance
  BY <1>0 DEF Job
<1>2. act' = [act EXCEPT !["cycle"] = r]
  BY DEF Acked
<1> HIDE DEF r
<1>3. act'["cycle"] = r /\ Rest("cycle")
  BY <1>0, <1>2, TwoActivities DEF Rest
<1>4. disk' = [disk EXCEPT !.sent = [x \in Session |->
                              IF x \in act["cycle"].ids THEN 0 ELSE disk.sent[x]]]
  BY DEF Acked
<1>5. /\ disk'.journal = disk.journal /\ disk'.sync = disk.sync
      /\ \A x \in Session :
           disk'.sent[x] = IF x \in act["cycle"].ids THEN 0 ELSE disk.sent[x]
  BY <1>0, <1>4 DEF Disk
<1>6. QED
  BY <1>1, <1>3, <1>5 DEF Acked, At

\* The sent-state follows the central it was built against.
LEMMA SyncEffect ==
  ASSUME BaseTypes, Sync
  PROVE  /\ UNCHANGED <<central, mem>> /\ act["cycle"].pc = "sync" /\ Moves("cycle", "gate")
         /\ disk'.journal = disk.journal
         /\ \/ disk' = disk
            \/ /\ act["cycle"].instance \notin {None, disk.sync}
               /\ disk'.sent = Empty /\ disk'.sync = act["cycle"].instance
<1>0. act \in [Activity -> Job] /\ disk \in Disk
  BY Types
<1>1. Moves("cycle", "gate")
  BY <1>0, TwoActivities, MoveFacts DEF Sync, Goto, Step
<1>2. QED
  BY <1>0, <1>1 DEF Sync, At, Disk

\* The push is let through, stopped, or asks the central first.
LEMMA GateEffect ==
  ASSUME BaseTypes, NEW a \in Activity, NEW o, Gate(a) \/ Probe(a, o)
  PROVE  /\ UNCHANGED <<central, disk>> /\ MemKept /\ act[a].pc \in {"gate", "probe"}
         /\ \E at \in {"gate", "probe", "select", Pushed(a)} : Moves(a, at)
<1>0. act \in [Activity -> Job] /\ mem \in Mem
  BY Types
<1>1. UNCHANGED <<central, disk>> /\ act[a].pc \in {"gate", "probe"}
  BY DEF Gate, Probe, At
<1>2. MemKept
  <2>1. \E s, e : mem' = mem \/ mem' = [mem EXCEPT !.authStop = s]
                  \/ mem' = [mem EXCEPT !.errSince = e]
    BY DEF Gate, Probe
  <2>2. QED
    BY <1>0, <2>1 DEF MemKept, Mem
<1>3. PICK at \in {"gate", "probe", "select", Pushed(a)} : act' = [act EXCEPT ![a].pc = at]
  BY <1>0 DEF Gate, Probe, Goto, Mem
<1>4. Moves(a, at)
  BY <1>0, <1>3, MoveFacts DEF Pushed, Step
<1>5. QED
  BY <1>1, <1>2, <1>3, <1>4

\* What is not sent yet is selected.
LEMMA SelectEffect ==
  ASSUME BaseTypes, NEW a \in Activity, Select(a)
  PROVE  /\ UNCHANGED <<central, disk>> /\ MemKept /\ Rest(a)
         /\ act[a].pc = "select" /\ act'[a].pc \in {"post", Pushed(a)}
         /\ act'[a].closing = act[a].closing /\ act'[a].instance = act[a].instance
         /\ act'[a].ctx = act[a].ctx /\ act'[a].todo = Deltas(a)
<1>0. act \in [Activity -> Job] /\ act[a] \in Job /\ mem \in Mem
  BY Types
<1>1. UNCHANGED <<central, disk>> /\ act[a].pc = "select"
  BY DEF Select, At
<1>2. MemKept
  <2>1. \E s, n : mem' = [mem EXCEPT !.restricted = s, !.streak = n]
    BY DEF Select
  <2>2. QED
    BY <1>0, <2>1 DEF MemKept, Mem
<1>3. PICK at \in {"post", Pushed(a)} :
        act' = [act EXCEPT ![a].todo = Deltas(a), ![a].pc = at]
  BY DEF Select
<1> DEFINE r == [act[a] EXCEPT !.todo = Deltas(a), !.pc = at]
<1>4. /\ r.pc = at /\ r.closing = act[a].closing /\ r.instance = act[a].instance
      /\ r.ctx = act[a].ctx /\ r.todo = Deltas(a)
  BY <1>0 DEF Job
<1>5. act' = [act EXCEPT ![a] = r]
  BY <1>3
<1> HIDE DEF r
<1>6. act'[a] = r /\ Rest(a)
  BY <1>0, <1>5 DEF Rest
<1>7. QED
  BY <1>1, <1>2, <1>3, <1>4, <1>6

\* A batch is asked to be stored.
LEMMA PostEffect ==
  ASSUME BaseTypes, NEW a \in Activity, NEW o, Post(a, o)
  PROVE  /\ UNCHANGED disk /\ MemKept /\ act[a].pc = "post"
         /\ central'.instance = central.instance
         /\ \/ /\ o \in {"failed", "refused"} /\ central' = central
               /\ \E at \in {"finish", Pushed(a)} : Moves(a, at)
            \/ /\ o = "lost" /\ \E at \in {"finish", Pushed(a)} : Moves(a, at)
            \/ /\ o \in {"ok", "partial"} /\ Rest(a) /\ act'[a].pc = "stored"
               /\ act'[a].closing = act[a].closing /\ act'[a].instance = act[a].instance
               /\ act'[a].ctx = act[a].ctx /\ act'[a].rules = act[a].rules
               /\ act'[a].todo = act[a].todo /\ act'[a].first = act[a].first
               /\ act'[a].batch \subseteq act[a].todo
               /\ \A x \in Session :
                    central'.held[x] = IF x \in act'[a].batch THEN act[a].ctx.data[x]
                                       ELSE central.held[x]
               /\ central'.cache = IF act[a].first /\ o = "ok" /\ Payload(a) # NoCache
                                   THEN Payload(a) ELSE central.cache
<1>0. act \in [Activity -> Job] /\ act[a] \in Job /\ mem \in Mem /\ central \in Central
  BY Types
<1>1. UNCHANGED disk /\ act[a].pc = "post"
  BY DEF Post, At
<1>2. MemKept
  <2>1. mem' = mem \/ mem' = [mem EXCEPT !.authStop = "stopped", !.errSince = TRUE]
    BY DEF Post
  <2>2. QED
    BY <1>0, <2>1 DEF MemKept, Mem
<1>3. PICK b \in Batches(a) :
        /\ \/ /\ o \in {"ok", "lost", "partial"}
              /\ Ingest(b, act[a].ctx.data,
                        IF act[a].first /\ o # "partial" THEN Payload(a) ELSE NoCache)
           \/ o \in {"failed", "refused"} /\ UNCHANGED central
        /\ \/ o \in {"ok", "partial"} /\ act' = [act EXCEPT ![a].pc = "stored", ![a].batch = b]
           \/ o \in {"failed", "lost", "refused"} /\ GiveUp(a, b)
  BY DEF Post
<1> DEFINE cache == IF act[a].first /\ o # "partial" THEN Payload(a) ELSE NoCache
<1>4. Ingest(b, act[a].ctx.data, cache) =>
        /\ central'.instance = central.instance
        /\ \A x \in Session :
             central'.held[x] = IF x \in b THEN act[a].ctx.data[x] ELSE central.held[x]
        /\ central'.cache = IF cache = NoCache THEN central.cache ELSE cache
  BY <1>0 DEF Ingest, Central
<1>5. central'.instance = central.instance
  BY <1>3, <1>4
<1>6. CASE o \in {"failed", "lost", "refused"}
  <2>1. PICK at \in {"finish", Pushed(a)} : act' = [act EXCEPT ![a].pc = at]
    BY <1>3, <1>6 DEF GiveUp, Goto
  <2>2. Moves(a, at)
    BY <1>0, <2>1, MoveFacts DEF Pushed, Step
  <2>3. QED
    BY <1>1, <1>2, <1>3, <1>5, <1>6, <2>1, <2>2
<1>7. CASE o \in {"ok", "partial"}
  <2> DEFINE r == [act[a] EXCEPT !.pc = "stored", !.batch = b]
  <2>1. /\ r.pc = "stored" /\ r.closing = act[a].closing /\ r.instance = act[a].instance
        /\ r.ctx = act[a].ctx /\ r.rules = act[a].rules /\ r.todo = act[a].todo
        /\ r.first = act[a].first /\ r.batch = b
    BY <1>0 DEF Job
  <2>2. act' = [act EXCEPT ![a] = r]
    BY <1>3, <1>7
  <2> HIDE DEF r
  <2>3. act'[a] = r /\ Rest(a)
    BY <1>0, <2>2 DEF Rest
  <2>4. b \subseteq act[a].todo
    BY <1>3 DEF Batches
  <2>5. Ingest(b, act[a].ctx.data, cache)
    BY <1>3, <1>7
  <2>6. central'.cache = IF act[a].first /\ o = "ok" /\ Payload(a) # NoCache
                         THEN Payload(a) ELSE central.cache
    BY <1>4, <1>7, <2>5
  <2>7. QED
    BY <1>1, <1>2, <1>4, <1>5, <1>7, <2>1, <2>3, <2>4, <2>5, <2>6
<1>8. o \in {"ok", "lost", "partial", "failed", "refused"}
  BY <1>3
<1>9. QED
  BY <1>6, <1>7, <1>8

\* A batch whose answer is not heard.
LEMMA LostBatch ==
  ASSUME BaseTypes, NEW a \in Activity, Post(a, "lost")
  PROVE  \E b \in Batches(a) :
           /\ unheard' = unheard \cup b
           /\ \A x \in Session : x \notin b => central'.held[x] = central.held[x]
           /\ ~act[a].first => central'.cache = central.cache
<1>0. central \in Central
  BY Types
<1>1. PICK b \in Batches(a) :
        /\ Ingest(b, act[a].ctx.data, IF act[a].first THEN Payload(a) ELSE NoCache)
        /\ unheard' = unheard \cup b
  BY DEF Post
<1>2. QED
  BY <1>0, <1>1 DEF Ingest, Central

\* An answer is recorded.
LEMMA StoredEffect ==
  ASSUME BaseTypes, NEW a \in Activity, Stored(a)
  PROVE  /\ UNCHANGED central /\ Rest(a)
         /\ act[a].pc = "stored" /\ act'[a].pc \in {"post", Pushed(a)}
         /\ act'[a].closing = act[a].closing /\ act'[a].instance = act[a].instance
         /\ act'[a].ctx = act[a].ctx /\ act'[a].todo \subseteq act[a].todo
         /\ disk'.journal = disk.journal /\ disk'.sync = disk.sync
         /\ \A x \in Session :
              disk'.sent[x] = IF x \in act[a].batch THEN act[a].ctx.data[x] ELSE disk.sent[x]
         /\ mem'.up = mem.up /\ mem'.running = mem.running /\ mem'.timer = mem.timer
         /\ mem'.asked = mem.asked /\ mem'.resume = mem.resume
         /\ mem'.memo = IF act[a].first THEN Payload(a) ELSE mem.memo
         /\ unheard' = unheard \ act[a].batch /\ unsure' = unsure
<1>0. act \in [Activity -> Job] /\ act[a] \in Job /\ mem \in Mem /\ disk \in Disk
  BY Types
<1>1. /\ UNCHANGED central /\ act[a].pc = "stored"
      /\ unheard' = unheard \ act[a].batch /\ unsure' = unsure
  BY DEF Stored, At
<1>2. /\ mem'.up = mem.up /\ mem'.running = mem.running /\ mem'.timer = mem.timer
      /\ mem'.asked = mem.asked /\ mem'.resume = mem.resume
      /\ mem'.memo = IF act[a].first THEN Payload(a) ELSE mem.memo
  <2> DEFINE memo == IF act[a].first THEN Payload(a) ELSE mem.memo
  <2>1. mem' = [mem EXCEPT !.errSince = FALSE, !.memo = memo]
    BY DEF Stored
  <2> HIDE DEF memo
  <2>2. /\ mem'.up = mem.up /\ mem'.running = mem.running /\ mem'.timer = mem.timer
        /\ mem'.asked = mem.asked /\ mem'.resume = mem.resume /\ mem'.memo = memo
    BY <1>0, <2>1 DEF Mem
  <2>3. QED
    BY <2>2 DEF memo
<1>3. /\ disk'.journal = disk.journal /\ disk'.sync = disk.sync
      /\ \A x \in Session :
           disk'.sent[x] = IF x \in act[a].batch THEN act[a].ctx.data[x] ELSE disk.sent[x]
  <2>1. disk' = [disk EXCEPT !.sent = [x \in Session |->
                   IF x \in act[a].batch THEN act[a].ctx.data[x] ELSE disk.sent[x]]]
    BY DEF Stored
  <2>2. QED
    BY <1>0, <2>1 DEF Disk
<1> DEFINE rest == act[a].todo \ act[a].batch
<1>4. PICK at \in {"post", Pushed(a)} :
        act' = [act EXCEPT ![a].todo = rest, ![a].batch = {}, ![a].first = FALSE, ![a].pc = at]
  BY DEF Stored
<1>5. rest \subseteq act[a].todo
  OBVIOUS
<1> HIDE DEF rest
<1> DEFINE r == [act[a] EXCEPT !.todo = rest, !.batch = {}, !.first = FALSE, !.pc = at]
<1>6. /\ r.pc = at /\ r.closing = act[a].closing /\ r.instance = act[a].instance
      /\ r.ctx = act[a].ctx /\ r.todo = rest
  BY <1>0 DEF Job
<1>7. act' = [act EXCEPT ![a] = r]
  BY <1>4
<1> HIDE DEF r
<1>8. act'[a] = r /\ Rest(a)
  BY <1>0, <1>7 DEF Rest
<1>9. QED
  BY <1>1, <1>2, <1>3, <1>4, <1>5, <1>6, <1>8

\* The journal goes.
LEMMA CloseEffect ==
  ASSUME BaseTypes, CloseJournal
  PROVE  /\ UNCHANGED <<central, mem>> /\ act["cycle"].pc = "close" /\ Moves("cycle", "closed")
         /\ disk'.sent = disk.sent /\ disk'.sync = disk.sync
<1>0. act \in [Activity -> Job] /\ disk \in Disk
  BY Types
<1>1. Moves("cycle", "closed")
  BY <1>0, TwoActivities, MoveFacts DEF CloseJournal, Goto, Step
<1>2. QED
  BY <1>0, <1>1 DEF CloseJournal, At, Disk

\* The rules count as enforced.
LEMMA EnforcedEffect ==
  ASSUME BaseTypes, Enforced
  PROVE  /\ UNCHANGED central /\ DiskKept /\ act["cycle"].pc = "closed" /\ Moves("cycle", "finish")
         /\ mem'.up = mem.up /\ mem'.running = mem.running /\ mem'.timer = mem.timer
         /\ mem'.asked = mem.asked /\ mem'.memo = mem.memo
<1>0. act \in [Activity -> Job] /\ disk \in Disk /\ mem \in Mem
  BY Types
<1>1. Moves("cycle", "finish")
  BY <1>0, TwoActivities, MoveFacts DEF Enforced, Goto, Step
<1>2. DiskKept
  BY <1>0 DEF Enforced, Disk, DiskKept
<1>3. /\ mem'.up = mem.up /\ mem'.running = mem.running /\ mem'.timer = mem.timer
      /\ mem'.asked = mem.asked /\ mem'.memo = mem.memo
  BY <1>0 DEF Enforced, Mem
<1>4. QED
  BY <1>1, <1>2, <1>3 DEF Enforced, At

\* An activity ends.
LEMMA FinishEffect ==
  ASSUME BaseTypes, NEW a \in Activity, Finish(a)
  PROVE  /\ UNCHANGED <<central, disk>> /\ Rest(a)
         /\ act[a].pc = "finish" /\ act'[a].pc = "idle"
         /\ ~act'[a].closing /\ act'[a].instance = None
         /\ mem'.up = mem.up /\ mem'.asked = mem.asked /\ ~mem'.running
         /\ mem'.resume = mem.resume /\ mem'.memo = mem.memo
         /\ mem'.timer \/ (a # "cycle" /\ mem'.timer = mem.timer)
<1>0. act \in [Activity -> Job] /\ mem \in Mem
  BY Types
<1>1. /\ mem'.up = mem.up /\ mem'.asked = mem.asked /\ ~mem'.running
      /\ mem'.resume = mem.resume /\ mem'.memo = mem.memo
      /\ mem'.timer \/ (a # "cycle" /\ mem'.timer = mem.timer)
  BY <1>0 DEF Finish, Mem
<1>2. act'[a] = Idle /\ Rest(a)
  BY <1>0 DEF Finish, Rest
<1>3. act[a].pc = "finish" /\ UNCHANGED <<central, disk>>
  BY DEF Finish, At
<1>4. Idle.pc = "idle" /\ ~Idle.closing /\ Idle.instance = None
  BY DEF Idle
<1>5. QED
  BY <1>1, <1>2, <1>3, <1>4

\* What does not touch the central, the files or the activities.
Quiet ==
  \/ Expire \/ Tick \/ ProbeDue
  \/ \E x \in Session : Edit(x)
  \/ \E r \in RuleSets : ChangeRules(r)

\* A quiet step may only ask for a push of a server that runs.
LEMMA QuietEffect ==
  ASSUME BaseTypes, Quiet
  PROVE  /\ UNCHANGED <<central, disk, act>>
         /\ mem'.up = mem.up /\ mem'.running = mem.running /\ mem'.timer = mem.timer
         /\ mem'.asked => mem.asked \/ mem.up
         /\ mem'.resume = mem.resume /\ mem'.memo = mem.memo
<1>0. mem \in Mem
  BY Types
<1>1. UNCHANGED <<central, disk, act>>
  BY DEF Quiet, Expire, Tick, ProbeDue, Edit, ChangeRules
<1>2. \E s, t, k : \/ mem' = mem \/ mem' = [mem EXCEPT !.restricted = s]
                   \/ mem' = [mem EXCEPT !.authStop = t]
                   \/ mem' = [mem EXCEPT !.asked = k] /\ (k => mem.asked \/ mem.up)
  BY <1>0 DEF Quiet, Expire, Tick, ProbeDue, Edit, ChangeRules
<1>3. QED
  BY <1>0, <1>1, <1>2 DEF Mem

\* Another central takes the place of this one.
LEMMA ReplaceEffect ==
  ASSUME BaseTypes, Replace
  PROVE  UNCHANGED <<disk, mem, act>> /\ central'.instance = central.instance + 1
BY DEF Replace, Replaced

\* The server dies.
LEMMA CrashEffect ==
  ASSUME BaseTypes, Crash
  PROVE  /\ UNCHANGED <<central, disk>> /\ mem' = Down
         /\ \A a \in Activity : act'[a] = Idle
BY DEF Crash, At

\* It starts again.
LEMMA BootEffect ==
  ASSUME BaseTypes, Boot
  PROVE  /\ UNCHANGED <<central, disk, act>> /\ ~mem.up
         /\ mem'.up /\ mem'.running = FALSE /\ mem'.timer
         /\ mem'.resume = disk.journal /\ mem'.memo = None
BY StartTypes DEF Boot, Booted, Down, Mem

\* Those are all the steps.
LEMMA AllSteps ==
  ASSUME [Next]_vars
  PROVE  \/ UNCHANGED vars
         \/ TimerFires \/ AskedFires \/ PushNow \/ Guard
         \/ \E o \in Outcome : Policy(o) \/ Whoami(o) \/ Forget(o) \/ FinishBuild(o)
         \/ \E a \in Activity : GetContext(a) \/ Select(a) \/ Stored(a) \/ Finish(a)
         \/ \E a \in Activity, o \in Outcome : Gate(a) \/ Probe(a, o)
         \/ \E a \in Activity, o \in Outcome : Post(a, o)
         \/ Plan \/ WriteJournal \/ Acked \/ Sync \/ CloseJournal \/ Enforced
         \/ Quiet \/ Replace \/ Crash \/ Boot
<1>1. "ok" \in Outcome
  BY DEF Outcome
<1>2. QED
  BY <1>1 DEF Next, CycleStep, PushStep, Environment, Quiet
-----------------------------------------------------------------------------
(***************************************************************************)
(* The turn, the instances, the batches and the order of a removal.        *)
(***************************************************************************)
\* No step gives the push to two.
LEMMA TurnStep ==
  ASSUME BaseTypes, TurnInv, [Next]_vars
  PROVE  TurnInv'
<1>1. CASE UNCHANGED vars
  BY <1>1 DEF vars, TurnInv
<1>2. CASE TimerFires \/ AskedFires
  BY <1>2, StartEffect DEF TurnInv, Activity, Rest
<1>3. CASE PushNow
  BY <1>3, PushNowEffect DEF TurnInv, Pushing, Activity, Rest
<1>4. CASE Guard
  BY <1>4, GuardEffect DEF TurnInv, Pushing, Activity, Moves, Rest
<1>5. ASSUME NEW o, Policy(o) PROVE TurnInv'
  BY <1>5, PolicyEffect DEF TurnInv, Activity, MemKept, Rest
<1>6. ASSUME NEW a \in Activity, GetContext(a) PROVE TurnInv'
  BY <1>6, ContextEffect DEF TurnInv, Pushing, Activity, AfterContext, Rest
<1>7. ASSUME NEW o, FinishBuild(o) PROVE TurnInv'
  BY <1>7, BuildEffect DEF TurnInv, Pushing, Activity, AfterContext
<1>8. CASE Plan
  BY <1>8, PlanEffect DEF TurnInv, Activity, Rest
<1>9. ASSUME NEW o, Whoami(o) PROVE TurnInv'
  BY <1>9, WhoamiEffect DEF TurnInv, Activity, Moves
<1>10. CASE WriteJournal
  BY <1>10, JournalEffect DEF TurnInv, Activity, Moves
<1>11. ASSUME NEW o, Forget(o) PROVE TurnInv'
  BY <1>11, ForgetEffect DEF TurnInv, Activity, Moves
<1>12. CASE Acked
  BY <1>12, AckedEffect DEF TurnInv, Activity, Rest
<1>13. CASE Sync
  BY <1>13, SyncEffect DEF TurnInv, Activity, Moves
<1>14. ASSUME NEW a \in Activity, NEW o, Gate(a) \/ Probe(a, o) PROVE TurnInv'
  BY <1>14, GateEffect DEF TurnInv, Pushing, Activity, Moves, MemKept, Pushed
<1>15. ASSUME NEW a \in Activity, Select(a) PROVE TurnInv'
  BY <1>15, SelectEffect DEF TurnInv, Pushing, Activity, MemKept, Pushed, Rest
<1>16. ASSUME NEW a \in Activity, NEW o, Post(a, o) PROVE TurnInv'
  BY <1>16, PostEffect DEF TurnInv, Pushing, Activity, Moves, MemKept, Pushed, Rest
<1>17. ASSUME NEW a \in Activity, Stored(a) PROVE TurnInv'
  BY <1>17, StoredEffect DEF TurnInv, Pushing, Activity, Pushed, Rest
<1>18. CASE CloseJournal
  BY <1>18, CloseEffect DEF TurnInv, Activity, Moves
<1>19. CASE Enforced
  BY <1>19, EnforcedEffect DEF TurnInv, Activity, Moves
<1>20. ASSUME NEW a \in Activity, Finish(a) PROVE TurnInv'
  BY <1>20, FinishEffect DEF TurnInv, Pushing, Activity, Rest
<1>21. CASE Quiet
  BY <1>21, QuietEffect DEF TurnInv
<1>22. CASE Replace
  BY <1>22, ReplaceEffect DEF TurnInv
<1>23. CASE Crash
  BY <1>23, CrashEffect DEF TurnInv, Pushing, Activity, Idle, Down
<1>24. CASE Boot
  BY <1>24, BootEffect DEF TurnInv, Pushing, Activity
<1>25. QED
  BY AllSteps, <1>1, <1>2, <1>3, <1>4, <1>5, <1>6, <1>7, <1>8, <1>9, <1>10, <1>11, <1>12,
     <1>13, <1>14, <1>15, <1>16, <1>17, <1>18, <1>19, <1>20, <1>21, <1>22, <1>23, <1>24

\* No step names a central that is not there yet.
LEMMA InstanceStep ==
  ASSUME BaseTypes, InstanceInv, [Next]_vars
  PROVE  InstanceInv'
<1>0. central.instance \in Nat \ {0}
  BY Types DEF Central
<1>1. CASE UNCHANGED vars
  BY <1>1 DEF vars, InstanceInv
<1>2. CASE TimerFires \/ AskedFires
  BY <1>2, StartEffect DEF InstanceInv, Rest
<1>3. CASE PushNow
  BY <1>3, PushNowEffect DEF InstanceInv, Rest
<1>4. CASE Guard
  BY <1>4, GuardEffect DEF InstanceInv, Moves, Rest
<1>5. ASSUME NEW o, Policy(o) PROVE InstanceInv'
  BY <1>5, PolicyEffect, <1>0 DEF InstanceInv, Rest
<1>6. ASSUME NEW a \in Activity, GetContext(a) PROVE InstanceInv'
  BY <1>6, ContextEffect DEF InstanceInv, Rest
<1>7. ASSUME NEW o, FinishBuild(o) PROVE InstanceInv'
  BY <1>7, BuildEffect DEF InstanceInv
<1>8. CASE Plan
  BY <1>8, PlanEffect DEF InstanceInv, DiskKept, Rest
<1>9. ASSUME NEW o, Whoami(o) PROVE InstanceInv'
  BY <1>9, WhoamiEffect DEF InstanceInv, Moves
<1>10. CASE WriteJournal
  BY <1>10, JournalEffect DEF InstanceInv, Moves
<1>11. ASSUME NEW o, Forget(o) PROVE InstanceInv'
  BY <1>11, ForgetEffect DEF InstanceInv, Moves
<1>12. CASE Acked
  BY <1>12, AckedEffect DEF InstanceInv, Rest
<1>13. CASE Sync
  BY <1>13, SyncEffect, TwoActivities DEF InstanceInv, Moves
<1>14. ASSUME NEW a \in Activity, NEW o, Gate(a) \/ Probe(a, o) PROVE InstanceInv'
  BY <1>14, GateEffect DEF InstanceInv, Moves
<1>15. ASSUME NEW a \in Activity, Select(a) PROVE InstanceInv'
  BY <1>15, SelectEffect DEF InstanceInv, Rest
<1>16. ASSUME NEW a \in Activity, NEW o, Post(a, o) PROVE InstanceInv'
  BY <1>16, PostEffect DEF InstanceInv, Moves, Rest
<1>17. ASSUME NEW a \in Activity, Stored(a) PROVE InstanceInv'
  BY <1>17, StoredEffect DEF InstanceInv, Rest
<1>18. CASE CloseJournal
  BY <1>18, CloseEffect DEF InstanceInv, Moves
<1>19. CASE Enforced
  BY <1>19, EnforcedEffect DEF InstanceInv, Moves, DiskKept
<1>20. ASSUME NEW a \in Activity, Finish(a) PROVE InstanceInv'
  BY <1>20, FinishEffect DEF InstanceInv, Rest
<1>21. CASE Quiet
  BY <1>21, QuietEffect DEF InstanceInv
<1>22. CASE Replace
  BY <1>22, ReplaceEffect, <1>0 DEF InstanceInv
<1>23. CASE Crash
  BY <1>23, CrashEffect DEF InstanceInv, Idle
<1>24. CASE Boot
  BY <1>24, BootEffect DEF InstanceInv
<1>25. QED
  BY AllSteps, <1>1, <1>2, <1>3, <1>4, <1>5, <1>6, <1>7, <1>8, <1>9, <1>10, <1>11, <1>12,
     <1>13, <1>14, <1>15, <1>16, <1>17, <1>18, <1>19, <1>20, <1>21, <1>22, <1>23, <1>24

\* No step makes a push carry what it has not.
LEMMA BatchStep ==
  ASSUME BaseTypes, TurnInv, BatchInv, [Next]_vars
  PROVE  BatchInv'
<1>1. CASE UNCHANGED vars
  BY <1>1 DEF vars, BatchInv
<1>2. CASE TimerFires \/ AskedFires
  BY <1>2, StartEffect DEF BatchInv, Rest
<1>3. CASE PushNow
  BY <1>3, PushNowEffect DEF BatchInv, Rest
<1>4. CASE Guard
  BY <1>4, GuardEffect DEF BatchInv, Moves, Rest
<1>5. ASSUME NEW o, Policy(o) PROVE BatchInv'
  BY <1>5, PolicyEffect DEF BatchInv, Rest
<1>6. ASSUME NEW a \in Activity, GetContext(a) PROVE BatchInv'
  BY <1>6, ContextEffect DEF BatchInv, AfterContext, Rest
<1>7. ASSUME NEW o, FinishBuild(o) PROVE BatchInv'
  BY <1>7, BuildEffect DEF BatchInv, AfterContext
<1>8. CASE Plan
  BY <1>8, PlanEffect DEF BatchInv, Rest
<1>9. ASSUME NEW o, Whoami(o) PROVE BatchInv'
  BY <1>9, WhoamiEffect DEF BatchInv, Moves
<1>10. CASE WriteJournal
  BY <1>10, JournalEffect DEF BatchInv, Moves
<1>11. ASSUME NEW o, Forget(o) PROVE BatchInv'
  BY <1>11, ForgetEffect DEF BatchInv, Moves
<1>12. CASE Acked
  BY <1>12, AckedEffect DEF BatchInv, Rest
<1>13. CASE Sync
  BY <1>13, SyncEffect DEF BatchInv, Moves
<1>14. ASSUME NEW a \in Activity, NEW o, Gate(a) \/ Probe(a, o) PROVE BatchInv'
  BY <1>14, GateEffect DEF BatchInv, Moves, Pushed
<1>15. ASSUME NEW a \in Activity, Select(a) PROVE BatchInv'
  BY <1>15, SelectEffect DEF BatchInv, Pushed, Rest, Deltas
<1>16. ASSUME NEW a \in Activity, NEW o, Post(a, o) PROVE BatchInv'
  BY <1>16, PostEffect DEF BatchInv, Moves, Pushed, Rest
<1>17. ASSUME NEW a \in Activity, Stored(a) PROVE BatchInv'
  BY <1>17, StoredEffect DEF BatchInv, Pushed, Rest
<1>18. CASE CloseJournal
  BY <1>18, CloseEffect DEF BatchInv, Moves
<1>19. CASE Enforced
  BY <1>19, EnforcedEffect DEF BatchInv, Moves
<1>20. ASSUME NEW a \in Activity, Finish(a) PROVE BatchInv'
  BY <1>20, FinishEffect DEF BatchInv, Rest
<1>21. CASE Quiet
  BY <1>21, QuietEffect DEF BatchInv
<1>22. CASE Replace
  BY <1>22, ReplaceEffect DEF BatchInv
<1>23. CASE Crash
  BY <1>23, CrashEffect DEF BatchInv, Idle
<1>24. CASE Boot
  BY <1>24, BootEffect DEF BatchInv
<1>25. QED
  BY AllSteps, <1>1, <1>2, <1>3, <1>4, <1>5, <1>6, <1>7, <1>8, <1>9, <1>10, <1>11, <1>12,
     <1>13, <1>14, <1>15, <1>16, <1>17, <1>18, <1>19, <1>20, <1>21, <1>22, <1>23, <1>24

\* No step of a removal is out of its order.
LEMMA RemovalStep ==
  ASSUME BaseTypes, TurnInv, RemovalInv, [Next]_vars
  PROVE  RemovalInv'
<1>1. CASE UNCHANGED vars
  BY <1>1 DEF vars, RemovalInv
<1>2. CASE TimerFires \/ AskedFires
  BY <1>2, StartEffect DEF RemovalInv
<1>3. CASE PushNow
  BY <1>3, PushNowEffect DEF RemovalInv, Activity, Rest
<1>4. CASE Guard
  BY <1>4, GuardEffect DEF RemovalInv, Activity, Rest
<1>5. ASSUME NEW o, Policy(o) PROVE RemovalInv'
  BY <1>5, PolicyEffect DEF RemovalInv, Pushing
<1>6. ASSUME NEW a \in Activity, GetContext(a) PROVE RemovalInv'
  BY <1>6, ContextEffect DEF RemovalInv, Pushing, Activity, AfterContext, Rest
<1>7. ASSUME NEW o, FinishBuild(o) PROVE RemovalInv'
  BY <1>7, BuildEffect DEF RemovalInv, Pushing, Activity, AfterContext
<1>8. CASE Plan
  BY <1>8, PlanEffect DEF RemovalInv, Pushing
<1>9. ASSUME NEW o, Whoami(o) PROVE RemovalInv'
  BY <1>9, WhoamiEffect DEF RemovalInv, Pushing, Moves
<1>10. CASE WriteJournal
  BY <1>10, JournalEffect DEF RemovalInv, Pushing, Moves
<1>11. ASSUME NEW o, Forget(o) PROVE RemovalInv'
  BY <1>11, ForgetEffect DEF RemovalInv, Pushing, Moves
<1>12. CASE Acked
  BY <1>12, AckedEffect DEF RemovalInv
<1>13. CASE Sync
  BY <1>13, SyncEffect DEF RemovalInv, Pushing, Moves
<1>14. ASSUME NEW a \in Activity, NEW o, Gate(a) \/ Probe(a, o) PROVE RemovalInv'
  BY <1>14, GateEffect DEF RemovalInv, Pushing, Activity, Moves, MemKept, Pushed
<1>15. ASSUME NEW a \in Activity, Select(a) PROVE RemovalInv'
  BY <1>15, SelectEffect DEF RemovalInv, Pushing, Activity, MemKept, Pushed, Rest
<1>16. ASSUME NEW a \in Activity, NEW o, Post(a, o) PROVE RemovalInv'
  BY <1>16, PostEffect DEF RemovalInv, Pushing, Activity, Moves, MemKept, Pushed, Rest
<1>17. ASSUME NEW a \in Activity, Stored(a) PROVE RemovalInv'
  BY <1>17, StoredEffect DEF RemovalInv, Pushing, Activity, Pushed, Rest
<1>18. CASE CloseJournal
  BY <1>18, CloseEffect DEF RemovalInv, Moves
<1>19. CASE Enforced
  BY <1>19, EnforcedEffect DEF RemovalInv, Pushing, Moves
<1>20. ASSUME NEW a \in Activity, Finish(a) PROVE RemovalInv'
  BY <1>20, FinishEffect DEF RemovalInv, Activity, Rest
<1>21. CASE Quiet
  BY <1>21, QuietEffect DEF RemovalInv
<1>22. CASE Replace
  BY <1>22, ReplaceEffect DEF RemovalInv
<1>23. CASE Crash
  BY <1>23, CrashEffect, TwoActivities DEF RemovalInv, Idle
<1>24. CASE Boot
  BY <1>24, BootEffect DEF RemovalInv, TurnInv, Activity
<1>25. QED
  BY AllSteps, <1>1, <1>2, <1>3, <1>4, <1>5, <1>6, <1>7, <1>8, <1>9, <1>10, <1>11, <1>12,
     <1>13, <1>14, <1>15, <1>16, <1>17, <1>18, <1>19, <1>20, <1>21, <1>22, <1>23, <1>24

-----------------------------------------------------------------------------
(***************************************************************************)
(* Which steps tell the central something, or learn something of it.       *)
(***************************************************************************)

\* The others leave the central alone, and what is known of it.
Plain ==
  \/ UNCHANGED vars
  \/ TimerFires \/ AskedFires \/ PushNow \/ Guard
  \/ \E o \in Outcome : Policy(o) \/ Whoami(o) \/ FinishBuild(o)
  \/ \E a \in Activity : GetContext(a) \/ Select(a) \/ Finish(a)
  \/ \E a \in Activity, o \in Outcome : Gate(a) \/ Probe(a, o)
  \/ Plan \/ WriteJournal \/ CloseJournal \/ Enforced \/ Quiet \/ Boot

\* Nobody records an answer, or whoever does goes on doing so.
StoredKept ==
  \A a \in Activity : act[a].pc = "stored" \/ act'[a].pc = "stored" => act'[a] = act[a]

\* Those and the seven that tell or learn something are all the steps.
LEMMA PlainSteps ==
  ASSUME [Next]_vars
  PROVE  \/ Plain \/ Acked \/ Sync \/ Replace \/ Crash
         \/ \E o \in Outcome : Forget(o)
         \/ \E a \in Activity, o \in Outcome : Post(a, o)
         \/ \E a \in Activity : Stored(a)
BY AllSteps DEF Plain

\* Whoever pushes, the other does not.
LEMMA Alone ==
  ASSUME TurnInv, NEW a \in Activity, act[a].pc \in Pushing, NEW b \in Activity, b # a
  PROVE  act[b].pc \notin Pushing
BY DEF TurnInv, Activity, Pushing

\* A plain step leaves the sent-state and the answers too; a start forgets the
\* memo.
LEMMA PlainEffect ==
  ASSUME BaseTypes, TurnInv, Plain
  PROVE  /\ UNCHANGED central /\ disk'.sent = disk.sent /\ disk'.sync = disk.sync
         /\ mem'.memo \in {mem.memo, None}
         /\ StoredKept
         /\ act'["cycle"].pc = "acked" => act'["cycle"] = act["cycle"]
<1> DEFINE Goal == /\ UNCHANGED central /\ disk'.sent = disk.sent /\ disk'.sync = disk.sync
                   /\ mem'.memo \in {mem.memo, None}
                   /\ StoredKept
                   /\ act'["cycle"].pc = "acked" => act'["cycle"] = act["cycle"]
<1> SUFFICES Goal
  OBVIOUS
<1>1. CASE UNCHANGED vars
  BY <1>1 DEF vars, StoredKept
<1>2. CASE TimerFires \/ AskedFires
  BY <1>2, StartEffect DEF Rest, StoredKept, TurnInv
<1>3. CASE PushNow
  BY <1>3, PushNowEffect, TwoActivities DEF Rest, StoredKept
<1>4. CASE Guard
  BY <1>4, GuardEffect, TwoActivities DEF Rest, Moves, StoredKept
<1>5. ASSUME NEW o, Policy(o) PROVE Goal
  BY <1>5, PolicyEffect DEF Rest, MemKept, StoredKept
<1>6. ASSUME NEW o, Whoami(o) PROVE Goal
  BY <1>6, WhoamiEffect DEF Moves, StoredKept
<1>7. ASSUME NEW o, FinishBuild(o) PROVE Goal
  BY <1>7, BuildEffect, TwoActivities DEF AfterContext, StoredKept
<1>8. ASSUME NEW a \in Activity, GetContext(a) PROVE Goal
  BY <1>8, ContextEffect, TwoActivities DEF AfterContext, Rest, StoredKept
<1>9. ASSUME NEW a \in Activity, Select(a) PROVE Goal
  BY <1>9, SelectEffect, TwoActivities DEF Pushed, Rest, MemKept, StoredKept
<1>10. ASSUME NEW a \in Activity, Finish(a) PROVE Goal
  BY <1>10, FinishEffect, TwoActivities DEF Rest, StoredKept
<1>11. ASSUME NEW a \in Activity, NEW o, Gate(a) \/ Probe(a, o) PROVE Goal
  BY <1>11, GateEffect, TwoActivities DEF Moves, Pushed, MemKept, StoredKept
<1>12. CASE Plan
  BY <1>12, PlanEffect DEF Rest, DiskKept, StoredKept
<1>13. CASE WriteJournal
  BY <1>13, JournalEffect DEF Moves, StoredKept
<1>14. CASE CloseJournal
  BY <1>14, CloseEffect DEF Moves, StoredKept
<1>15. CASE Enforced
  BY <1>15, EnforcedEffect DEF Moves, DiskKept, StoredKept
<1>16. CASE Quiet
  BY <1>16, QuietEffect DEF StoredKept
<1>17. CASE Boot
  BY <1>17, BootEffect DEF StoredKept
<1>18. QED
  BY <1>1, <1>2, <1>3, <1>4, <1>5, <1>6, <1>7, <1>8, <1>9, <1>10, <1>11, <1>12, <1>13, <1>14,
     <1>15, <1>16, <1>17 DEF Plain

\* A plain step tells the central nothing, so that no answer is missed.
LEMMA PlainHistory ==
  ASSUME Plain
  PROVE  UNCHANGED history
<1>1. CASE UNCHANGED vars
  BY <1>1, Zenon DEF vars, history
<1>2. CASE TimerFires \/ AskedFires \/ PushNow \/ Guard
  BY <1>2, Zenon DEF TimerFires, AskedFires, PushNow, Guard
<1>3. CASE \E o \in Outcome : Policy(o) \/ Whoami(o) \/ FinishBuild(o)
  BY <1>3, Zenon DEF Policy, Whoami, FinishBuild
<1>4. CASE \E a \in Activity : GetContext(a) \/ Select(a) \/ Finish(a)
  BY <1>4, Zenon DEF GetContext, Select, Finish
<1>5. CASE \E a \in Activity, o \in Outcome : Gate(a) \/ Probe(a, o)
  BY <1>5, Zenon DEF Gate, Probe
<1>6. CASE Plan \/ WriteJournal \/ CloseJournal \/ Enforced \/ Boot
  BY <1>6, Zenon DEF Plan, WriteJournal, CloseJournal, Enforced, Boot
<1>7. CASE Quiet
  BY <1>7, Zenon DEF Quiet, Expire, Tick, ProbeDue, Edit, ChangeRules
<1>8. QED
  BY <1>1, <1>2, <1>3, <1>4, <1>5, <1>6, <1>7, Zenon DEF Plain

\* Whatever changes the history names sessions.
LEMMA HistoryStep ==
  ASSUME BaseTypes, HistoryType, [Next]_vars
  PROVE  HistoryType'
<1>0. act \in [Activity -> Job]
  BY Types
<1>1. /\ \A a \in Activity : act[a].ids \subseteq Session /\ act[a].todo \subseteq Session
      /\ "cycle" \in Activity
  BY <1>0, TwoActivities DEF Job
<1>2. CASE Plain
  BY <1>2, PlainHistory, Zenon DEF history, HistoryType
<1>3. ASSUME NEW o, Forget(o) PROVE HistoryType'
  <2>1. unheard' = unheard \cup (IF o = "lost" THEN act["cycle"].ids ELSE {}) /\ unsure' = unsure
    BY <1>3 DEF Forget
  <2>2. QED
    BY <1>1, <2>1 DEF HistoryType
<1>4. CASE Acked
  BY <1>4 DEF Acked, HistoryType
<1>5. CASE Sync
  BY <1>5 DEF Sync, HistoryType
<1>6. ASSUME NEW a \in Activity, NEW o, Post(a, o) PROVE HistoryType'
  <2>1. \E b \in Batches(a) : unheard' = unheard \cup (IF o = "lost" THEN b ELSE {})
    BY <1>6, Zenon DEF Post
  <2>2. \A b \in Batches(a) : b \subseteq Session
    BY <1>1 DEF Batches
  <2>3. unheard' \subseteq Session
    BY <2>1, <2>2 DEF HistoryType
  <2>4. unsure' = (o # "ok") \/ unsure' = unsure
    BY <1>6, Zenon DEF Post
  <2>5. unsure' \in BOOLEAN
    BY <2>4, Zenon DEF HistoryType
  <2>6. QED
    BY <2>3, <2>5, Zenon DEF HistoryType
<1>7. ASSUME NEW a \in Activity, Stored(a) PROVE HistoryType'
  BY <1>7 DEF Stored, HistoryType
<1>8. CASE Crash
  BY <1>8 DEF Crash, HistoryType
<1>9. CASE Replace
  BY <1>9, Zenon DEF Replace, history, HistoryType
<1>10. QED
  BY PlainSteps, <1>2, <1>3, <1>4, <1>5, <1>6, <1>7, <1>8, <1>9

-----------------------------------------------------------------------------
(***************************************************************************)
(* The sent-state.                                                         *)
(***************************************************************************)

\* What is owed stays owed where nobody learns of the central.
LEMMA PlainOwed ==
  ASSUME BaseTypes, TurnInv, RemovalInv, Plain, NEW x \in Session, Owed(x)
  PROVE  Owed(x)'
<1>1. CASE UNCHANGED vars
  BY <1>1 DEF vars, Owed, At
<1>2. CASE TimerFires \/ AskedFires
  BY <1>2, StartEffect DEF Owed, At, TurnInv
<1>3. CASE PushNow
  BY <1>3, PushNowEffect, TwoActivities DEF Rest, Owed, At
<1>4. CASE Guard
  BY <1>4, GuardEffect, TwoActivities DEF Rest, Owed, At
<1>5. ASSUME NEW o, Policy(o) PROVE Owed(x)'
  BY <1>5, PolicyEffect DEF MemKept, Owed, At
<1>6. ASSUME NEW o, Whoami(o) PROVE Owed(x)'
  BY <1>6, WhoamiEffect DEF Moves, Owed, At
<1>7. ASSUME NEW o, FinishBuild(o) PROVE Owed(x)'
  BY <1>7, BuildEffect, TwoActivities DEF AfterContext, Owed, At
<1>8. ASSUME NEW a \in Activity, GetContext(a) PROVE Owed(x)'
  BY <1>8, ContextEffect, TwoActivities DEF AfterContext, Rest, Owed, At
<1>9. ASSUME NEW a \in Activity, Select(a) PROVE Owed(x)'
  BY <1>9, SelectEffect, TwoActivities DEF Pushed, Rest, MemKept, Owed, At
<1>10. ASSUME NEW a \in Activity, Finish(a) PROVE Owed(x)'
  BY <1>10, FinishEffect, TwoActivities DEF Rest, Owed, At
<1>11. ASSUME NEW a \in Activity, NEW o, Gate(a) \/ Probe(a, o) PROVE Owed(x)'
  BY <1>11, GateEffect, TwoActivities DEF Moves, Pushed, MemKept, Owed, At
<1>12. CASE Plan
  BY <1>12, PlanEffect DEF DiskKept, Owed, At
<1>13. CASE WriteJournal
  BY <1>13, JournalEffect DEF Moves, Owed, At, TurnInv, RemovalInv, Activity
<1>14. CASE CloseJournal
  BY <1>14, CloseEffect DEF RemovalInv, Owed
<1>15. CASE Enforced
  BY <1>15, EnforcedEffect DEF RemovalInv, Owed
<1>16. CASE Quiet
  BY <1>16, QuietEffect DEF Owed, At
<1>17. CASE Boot
  BY <1>17, BootEffect DEF Owed, At, TurnInv, Activity
<1>18. QED
  BY <1>1, <1>2, <1>3, <1>4, <1>5, <1>6, <1>7, <1>8, <1>9, <1>10, <1>11, <1>12, <1>13, <1>14,
     <1>15, <1>16, <1>17 DEF Plain

\* The sent-state stays true while it, the central and the answers stay.
LEMMA SentKept ==
  ASSUME SentInv, StoredKept, central'.held = central.held,
         central'.instance = central.instance, disk'.sent = disk.sent,
         disk'.sync = disk.sync, \A x \in Session : Owed(x) => Owed(x)',
         unheard \subseteq unheard'
  PROVE  SentInv'
BY DEF SentInv, StoredKept, Recording, At

\* No step makes the sent-state say more than is held, or loses what is owed.
LEMMA SentStep ==
  ASSUME BaseTypes, ContextInv, TurnInv, InstanceInv, RemovalInv, SentInv, [Next]_vars
  PROVE  SentInv'
<1>0. /\ \A x \in Session : central.held[x] \in Nat /\ disk.sent[x] \in Nat
      /\ central.instance \in Nat /\ None \notin Nat
  BY Types, TeamAssumption DEF Central, Disk, Content, Version
<1>1. CASE Plain
  BY <1>1, PlainEffect, PlainOwed, PlainHistory, SentKept DEF history
<1>2. ASSUME NEW o, Forget(o) PROVE SentInv'
  <2>1. /\ \A a \in Activity : act[a].pc # "stored" /\ act'[a].pc # "stored"
        /\ disk'.sent = disk.sent /\ disk'.sync = disk.sync
        /\ central'.instance = central.instance
    BY <1>2, ForgetEffect, TwoActivities DEF Moves, TurnInv, Pushing, Activity
  <2>0. unheard' = unheard \cup (IF o = "lost" THEN act["cycle"].ids ELSE {})
    BY <1>2 DEF Forget
  <2>2. CASE o = "ok"
    <3>1. ASSUME NEW x \in Session
          PROVE  IF x \in act["cycle"].ids THEN Owed(x)'
                 ELSE central'.held[x] = central.held[x] /\ ~Owed(x)
      BY <1>2, <2>2, ForgetEffect, TwoActivities
         DEF Moves, Owed, At, RemovalInv, TurnInv, Pushing
    <3>2. QED
      BY <1>0, <2>0, <2>1, <3>1 DEF SentInv, Recording, At
  <2>3. CASE o = "lost"
    <3>1. \A x \in Session :
            \/ x \in act["cycle"].ids
            \/ central'.held[x] = central.held[x] /\ ~Owed(x)
      BY <1>2, <2>3, ForgetEffect, TwoActivities DEF Owed, RemovalInv, TurnInv
    <3>2. QED
      BY <1>0, <2>0, <2>1, <2>3, <3>1 DEF SentInv, Recording, At
  <2>4. CASE o \notin {"ok", "lost"}
    <3>1. central' = central /\ \A x \in Session : Owed(x) => Owed(x)'
      BY <1>2, <2>4, ForgetEffect DEF Moves, Owed, At
    <3>2. QED
      BY <2>0, <2>1, <3>1, SentKept DEF StoredKept
  <2>5. QED
    BY <2>2, <2>3, <2>4
<1>3. CASE Acked
  <2>1. /\ \A a \in Activity : act[a].pc # "stored" /\ act'[a].pc # "stored"
        /\ UNCHANGED central /\ disk'.sync = disk.sync
        /\ unheard' = unheard \ act["cycle"].ids
    BY <1>3, AckedEffect, TwoActivities DEF Acked, Rest, TurnInv, Pushing, Activity
  <2>2. ASSUME NEW x \in Session
        PROVE  IF x \in act["cycle"].ids THEN disk'.sent[x] = 0
               ELSE disk'.sent[x] = disk.sent[x] /\ ~Owed(x)
    BY <1>3, AckedEffect DEF Owed, At
  <2>3. QED
    BY <1>0, <2>1, <2>2 DEF SentInv, Recording, At
<1>4. CASE Sync
  <2>1. /\ \A a \in Activity : act[a].pc # "stored" /\ act'[a].pc # "stored"
        /\ UNCHANGED central /\ \A x \in Session : Owed(x) => Owed(x)'
        /\ unheard \subseteq unheard'
    BY <1>4, SyncEffect, TwoActivities DEF Sync, Moves, TurnInv, Pushing, Activity, Owed, At
  <2>2. CASE disk' = disk
    BY <2>1, <2>2, SentKept DEF StoredKept
  <2>3. CASE disk'.sent = Empty
    BY <1>0, <2>1, <2>3 DEF SentInv, Empty, At
  <2>4. QED
    BY <1>4, <2>2, <2>3, SyncEffect
<1>5. ASSUME NEW a \in Activity, NEW o, Post(a, o) PROVE SentInv'
  <2>1. \A b \in Activity : act[b].pc # "stored"
    BY <1>5, PostEffect, Alone DEF Pushing
  <2>2. /\ disk'.sent = disk.sent /\ disk'.sync = disk.sync
        /\ central'.instance = central.instance /\ \A b \in Activity : b # a => act'[b] = act[b]
    BY <1>5, PostEffect DEF Moves, Rest
  <2>3. \A x \in Session : Owed(x) => Owed(x)'
    BY <1>5, PostEffect, TwoActivities DEF Moves, MemKept, Rest, Pushed, Owed, At
  <2>0. unheard \subseteq unheard'
    BY <1>5, Zenon DEF Post
  <2>4. CASE act'[a].pc = "stored"
    <3>1. \A x \in Session :
            central'.held[x] = IF x \in act'[a].batch THEN act'[a].ctx.data[x]
                               ELSE central.held[x]
      BY <1>5, <2>4, PostEffect DEF Moves, Pushed
    <3>2. \A x \in Session : act'[a].ctx.data[x] \in Nat
      <4>1. act'[a].ctx = act[a].ctx /\ act[a].ctx \in Context
        BY <1>5, <2>4, PostEffect DEF Moves, Pushed, ContextInv, Placed, Step
      <4>2. QED
        BY <4>1, TeamAssumption DEF Context, Content, Version
    <3>3. ASSUME disk'.sync = central'.instance, NEW x \in Session
          PROVE  \/ central'.held[x] >= disk'.sent[x] \/ Recording(x)' \/ Owed(x)'
                 \/ x \in unheard'
      <4>1. CASE x \in act'[a].batch
        BY <2>4, <4>1 DEF Recording, At
      <4>2. CASE x \notin act'[a].batch
        <5>1. central.held[x] >= disk.sent[x] \/ Owed(x) \/ x \in unheard
          BY <2>1, <2>2, <3>3 DEF SentInv, Recording, At
        <5>2. QED
          BY <2>0, <2>2, <2>3, <3>1, <4>2, <5>1
      <4>3. QED
        BY <4>1, <4>2
    <3>4. ASSUME NEW b \in Activity, act'[b].pc = "stored", NEW x \in act'[b].batch, x \in Session
          PROVE  central'.held[x] >= act'[b].ctx.data[x]
      BY <2>1, <2>2, <3>1, <3>2, <3>4
    <3>5. \A b \in Activity : act'[b].batch \subseteq Session
      BY TypeStep DEF BaseTypes, Job
    <3>6. QED
      BY <3>3, <3>4, <3>5 DEF SentInv, At
  <2>5. CASE o = "lost"
    <3>1. PICK b \in Batches(a) :
            /\ unheard' = unheard \cup b
            /\ \A x \in Session : x \notin b => central'.held[x] = central.held[x]
      BY <1>5, <2>5, LostBatch
    <3>2. \A b1 \in Activity : act'[b1].pc # "stored"
      BY <1>5, <2>1, <2>2, <2>5, PostEffect DEF Moves, Pushed
    <3>3. QED
      BY <2>1, <2>2, <2>3, <3>1, <3>2 DEF SentInv, Recording, At
  <2>6. CASE act'[a].pc # "stored" /\ o # "lost"
    <3>1. central' = central
      BY <1>5, <2>6, PostEffect
    <3>2. QED
      BY <2>0, <2>1, <2>2, <2>3, <2>6, <3>1, SentKept DEF StoredKept
  <2>7. QED
    BY <2>4, <2>5, <2>6
<1>6. ASSUME NEW a \in Activity, Stored(a) PROVE SentInv'
  <2>1. \A b \in Activity : b # a => act[b].pc # "stored" /\ act'[b] = act[b]
    BY <1>6, StoredEffect, Alone DEF Pushing, Rest
  <2>2. /\ act[a].pc = "stored" /\ act'[a].pc # "stored"
        /\ UNCHANGED central /\ disk'.sync = disk.sync
        /\ \A x \in Session :
             disk'.sent[x] = IF x \in act[a].batch THEN act[a].ctx.data[x] ELSE disk.sent[x]
        /\ unheard' = unheard \ act[a].batch
    BY <1>6, StoredEffect DEF Pushed
  <2>3. \A x \in Session : Owed(x) => Owed(x)'
    BY <1>6, StoredEffect, TwoActivities DEF Rest, Pushed, Owed, At
  <2>4. QED
    BY <1>0, <2>1, <2>2, <2>3 DEF SentInv, Recording, At
<1>7. CASE Replace
  BY <1>0, <1>7, ReplaceEffect DEF InstanceInv, SentInv
<1>8. CASE Crash
  <2>1. \A x \in Session : Owed(x) => Owed(x)'
    BY <1>8, CrashEffect, TwoActivities DEF Down, Idle, Owed, At
  <2>2. /\ UNCHANGED <<central, disk>> /\ unheard' = unheard \cup {x \in Session : Recording(x)}
        /\ \A a \in Activity : act'[a].pc # "stored"
    BY <1>8, CrashEffect DEF Crash, Idle
  <2>3. QED
    BY <2>1, <2>2 DEF SentInv, At
<1>9. QED
  BY PlainSteps, <1>1, <1>2, <1>3, <1>4, <1>5, <1>6, <1>7, <1>8

-----------------------------------------------------------------------------
(***************************************************************************)
(* The denied sessions.                                                    *)
(***************************************************************************)

\* Nothing the central holds goes unnamed while it, the sent-state and the
\* answers stay.
LEMMA NamedKept ==
  ASSUME NamedInv, StoredKept, UNCHANGED central, disk'.sent = disk.sent,
         unheard \subseteq unheard',
         act'["cycle"].pc = "acked" => act'["cycle"] = act["cycle"]
  PROVE  NamedInv'
BY DEF NamedInv, SameCentral, StoredKept, Recording, At

\* No step leaves a session at the central that nothing names.
LEMMA NamedStep ==
  ASSUME BaseTypes, TurnInv, InstanceInv, BatchInv, RemovalInv, NamedInv, [Next]_vars
  PROVE  NamedInv'
<1>0. central.instance \in Nat \ {0}
  BY Types DEF Central
<1>1. CASE Plain
  BY <1>1, PlainEffect, PlainHistory, NamedKept DEF history
<1>2. ASSUME NEW o, Forget(o) PROVE NamedInv'
  <2>1. /\ \A a \in Activity : act[a].pc # "stored" /\ act'[a].pc # "stored"
        /\ disk'.sent = disk.sent /\ central'.instance = central.instance
        /\ unheard \subseteq unheard'
    BY <1>2, ForgetEffect, TwoActivities DEF Forget, Moves, TurnInv, Pushing, Activity
  <2>2. CASE o \in {"ok", "lost"}
    <3>1. \A x \in Session :
            central'.held[x] = IF x \in act'["cycle"].ids THEN 0 ELSE central.held[x]
      BY <1>2, <2>2, ForgetEffect DEF Moves
    <3>2. act'["cycle"].ids \subseteq Session
      BY <1>2, ForgetEffect, Types, TwoActivities DEF Moves, Job
    <3>3. QED
      BY <2>1, <3>1, <3>2 DEF NamedInv, SameCentral, Recording, At
  <2>3. CASE o \notin {"ok", "lost"}
    <3>1. central' = central /\ act'["cycle"].pc # "acked"
      BY <1>2, <2>3, ForgetEffect DEF Moves
    <3>2. QED
      BY <2>1, <3>1, NamedKept DEF StoredKept
  <2>4. QED
    BY <2>2, <2>3
<1>3. CASE Acked
  <2>1. /\ \A a \in Activity : act[a].pc # "stored" /\ act'[a].pc # "stored"
        /\ UNCHANGED central /\ act["cycle"].pc = "acked" /\ act'["cycle"].pc # "acked"
        /\ unheard' = unheard \ act["cycle"].ids
    BY <1>3, AckedEffect, TwoActivities DEF Acked, Rest, TurnInv, Pushing, Activity
  <2>2. \A x \in Session : x \notin act["cycle"].ids => disk'.sent[x] = disk.sent[x]
    BY <1>3, AckedEffect
  <2>3. QED
    BY <2>1, <2>2 DEF NamedInv, SameCentral, Recording, At
<1>4. CASE Sync
  <2>1. /\ \A a \in Activity : act[a].pc # "stored" /\ act'[a].pc # "stored"
        /\ UNCHANGED central /\ act'["cycle"].pc # "acked"
        /\ unheard' = unheard \cup {x \in Session : disk.sent[x] # disk'.sent[x]}
    BY <1>4, SyncEffect, TwoActivities DEF Sync, Moves, TurnInv, Pushing, Activity
  <2>2. QED
    BY <2>1 DEF NamedInv, SameCentral, Recording, At
<1>5. ASSUME NEW a \in Activity, NEW o, Post(a, o) PROVE NamedInv'
  <2>1. \A b \in Activity : act[b].pc # "stored"
    BY <1>5, PostEffect, Alone DEF Pushing
  <2>2. /\ disk'.sent = disk.sent /\ central'.instance = central.instance
        /\ \A b \in Activity : b # a => act'[b] = act[b]
    BY <1>5, PostEffect DEF Moves, Rest
  <2>3. act'["cycle"].pc # "acked"
    BY <1>5, PostEffect, TwoActivities DEF Moves, Rest, Pushed, TurnInv, Pushing, Activity
  <2>0. unheard \subseteq unheard'
    BY <1>5, Zenon DEF Post
  <2>4. CASE act'[a].pc = "stored"
    <3>1. \A x \in Session : x \notin act'[a].batch => central'.held[x] = central.held[x]
      BY <1>5, <2>4, PostEffect DEF Moves, Pushed
    <3>2. QED
      BY <2>0, <2>1, <2>2, <2>3, <2>4, <3>1 DEF NamedInv, SameCentral, Recording, At
  <2>5. CASE o = "lost"
    <3>1. PICK b \in Batches(a) :
            /\ unheard' = unheard \cup b
            /\ \A x \in Session : x \notin b => central'.held[x] = central.held[x]
      BY <1>5, <2>5, LostBatch
    <3>2. QED
      BY <2>1, <2>2, <2>3, <3>1 DEF NamedInv, SameCentral, Recording, At
  <2>6. CASE act'[a].pc # "stored" /\ o # "lost"
    <3>1. central' = central
      BY <1>5, <2>6, PostEffect
    <3>2. QED
      BY <2>0, <2>1, <2>2, <2>3, <2>6, <3>1, NamedKept DEF StoredKept
  <2>7. QED
    BY <2>4, <2>5, <2>6
<1>6. ASSUME NEW a \in Activity, Stored(a) PROVE NamedInv'
  <2>1. \A b \in Activity : b # a => act[b].pc # "stored" /\ act'[b] = act[b]
    BY <1>6, StoredEffect, Alone DEF Pushing, Rest
  <2>2. /\ act[a].pc = "stored" /\ act'[a].pc # "stored" /\ UNCHANGED central
        /\ \A x \in Session :
             disk'.sent[x] = IF x \in act[a].batch THEN act[a].ctx.data[x] ELSE disk.sent[x]
        /\ unheard' = unheard \ act[a].batch
    BY <1>6, StoredEffect DEF Pushed
  <2>3. act'["cycle"].pc # "acked"
    BY <1>6, StoredEffect, TwoActivities DEF Rest, Pushed, TurnInv, Pushing, Activity
  <2>4. \A x \in act[a].batch : act[a].ctx.data[x] # 0
    BY <2>2 DEF BatchInv
  <2>5. QED
    BY <2>1, <2>2, <2>3, <2>4 DEF NamedInv, SameCentral, Recording, At
<1>7. CASE Replace
  BY <1>0, <1>7, ReplaceEffect DEF NamedInv, SameCentral
<1>8. CASE Crash
  <2>1. /\ UNCHANGED <<central, disk>> /\ unheard' = unheard \cup {x \in Session : Recording(x)}
        /\ \A a \in Activity : act'[a].pc = "idle"
    BY <1>8, CrashEffect DEF Crash, Idle
  <2>2. QED
    BY <2>1, TwoActivities DEF NamedInv, SameCentral, At
<1>9. QED
  BY PlainSteps, <1>1, <1>2, <1>3, <1>4, <1>5, <1>6, <1>7, <1>8

-----------------------------------------------------------------------------
(***************************************************************************)
(* The memo.                                                               *)
(***************************************************************************)

\* The memo stays true while it, the aggregate and the answers stay.
LEMMA MemoKept ==
  ASSUME MemoInv, StoredKept, central'.cache = central.cache, UNCHANGED unsure,
         central'.instance = central.instance, mem'.memo \in {mem.memo, None}
  PROVE  MemoInv'
BY DEF MemoInv, SameCentral, StoredKept, Payload, At

\* No step leaves a memo of an aggregate the central has not.
LEMMA MemoStep ==
  ASSUME BaseTypes, ContextInv, TurnInv, MemoInv, [Next]_vars
  PROVE  MemoInv'
<1>0. central.instance \in Nat \ {0}
  BY Types DEF Central
<1>1. CASE Plain
  BY <1>1, PlainEffect, PlainHistory, MemoKept DEF history
<1>2. ASSUME NEW o, Forget(o) PROVE MemoInv'
  BY <1>2, ForgetEffect, MemoKept DEF Forget, Moves, StoredKept
<1>3. CASE Acked
  BY <1>3, AckedEffect, MemoKept DEF Acked, Rest, StoredKept
<1>4. CASE Sync
  BY <1>4, SyncEffect, MemoKept DEF Sync, Moves, StoredKept
<1>5. ASSUME NEW a \in Activity, NEW o, Post(a, o) PROVE MemoInv'
  <2>1. \A b \in Activity : act[b].pc # "stored"
    BY <1>5, PostEffect, Alone DEF Pushing
  <2>2. /\ mem'.memo = mem.memo /\ central'.instance = central.instance
        /\ \A b \in Activity : b # a => act'[b] = act[b]
    BY <1>5, PostEffect DEF Moves, Rest, MemKept
  <2>3. unsure' = IF act[a].first /\ o \in {"ok", "lost", "partial"} THEN o # "ok" ELSE unsure
    BY <1>5, Zenon DEF Post
  <2>4. CASE act[a].first /\ o \in {"lost", "partial"}
    <3>1. unsure'
      BY <2>3, <2>4
    <3>2. QED
      BY <3>1 DEF MemoInv
  <2>5. CASE act[a].first /\ o = "ok"
    <3>1. Payload(a) # NoCache
      <4>1. act[a].ctx \in Context
        BY <1>5, PostEffect DEF ContextInv, Placed, Step
      <4>2. Payload(a) \in Content
        BY <4>1, AggregateType DEF Payload
      <4>3. QED
        BY <4>2, TeamAssumption
    <3>2. act'[a].pc = "stored" /\ act'[a].first /\ Payload(a)' = Payload(a)
      BY <1>5, <2>5, PostEffect DEF Payload
    <3>3. central'.cache = Payload(a)
      BY <1>5, <2>5, <3>1, PostEffect
    <3>4. QED
      BY <2>1, <2>2, <3>2, <3>3 DEF MemoInv, At
  <2>6. CASE ~(act[a].first /\ o \in {"ok", "lost", "partial"})
    <3>1. central'.cache = central.cache
      <4>1. CASE o = "lost"
        BY <1>5, <2>6, <4>1, LostBatch
      <4>2. CASE o # "lost"
        BY <1>5, <2>6, <4>2, PostEffect
      <4>3. QED
        BY <4>1, <4>2
    <3>2. unsure' = unsure
      BY <2>3, <2>6, Zenon
    <3>3. act'[a].pc = "stored" => ~act'[a].first
      BY <1>5, <2>6, PostEffect DEF Moves, Pushed
    <3>4. QED
      BY <2>1, <2>2, <3>1, <3>2, <3>3 DEF MemoInv, SameCentral, At
  <2>7. QED
    BY <2>4, <2>5, <2>6
<1>6. ASSUME NEW a \in Activity, Stored(a) PROVE MemoInv'
  <2>1. \A b \in Activity : b # a => act[b].pc # "stored" /\ act'[b] = act[b]
    BY <1>6, StoredEffect, Alone DEF Pushing, Rest
  <2>2. /\ act[a].pc = "stored" /\ act'[a].pc # "stored" /\ UNCHANGED central
        /\ mem'.memo = IF act[a].first THEN Payload(a) ELSE mem.memo
        /\ unsure' = unsure
    BY <1>6, StoredEffect DEF Pushed
  <2>3. QED
    BY <2>1, <2>2 DEF MemoInv, SameCentral, At
<1>7. CASE Replace
  BY <1>0, <1>7, ReplaceEffect DEF MemoInv, SameCentral
<1>8. CASE Crash
  BY <1>8, CrashEffect DEF MemoInv, SameCentral, Down, Idle, At
<1>9. QED
  BY PlainSteps, <1>1, <1>2, <1>3, <1>4, <1>5, <1>6, <1>7, <1>8

-----------------------------------------------------------------------------
(***************************************************************************)
(* The theorems.                                                           *)
(***************************************************************************)

\* What holds whatever fails.
FrameInv ==
  BaseTypes /\ ContextInv /\ TurnInv /\ InstanceInv /\ BatchInv /\ RemovalInv

\* It holds of the first state, ...
LEMMA FrameInit == Init => FrameInv
<1> SUFFICES ASSUME Init PROVE FrameInv
  OBVIOUS
<1>1. BaseTypes /\ ContextInv
  BY TypeInit
<1>2. /\ \A a \in Activity : act[a] = Idle
      /\ mem.up /\ central.instance = 1 /\ disk.sync \in {1, None}
  BY DEF Init, CentralInit, Down
<1>3. TurnInv /\ RemovalInv
  BY <1>2, TwoActivities DEF Idle, TurnInv, RemovalInv, Pushing
<1>4. InstanceInv /\ BatchInv
  BY <1>2 DEF Idle, InstanceInv, BatchInv
<1>5. QED
  BY <1>1, <1>3, <1>4 DEF FrameInv

\* ... and of every one after it.
LEMMA FrameStep == FrameInv /\ [Next]_vars => FrameInv'
BY TypeStep, TurnStep, InstanceStep, BatchStep, RemovalStep DEF FrameInv

\* The connection, its files, the memory of it and the two activities keep
\* their shape.
THEOREM UploaderTypes == Spec => []TypeOK
<1>1. Init => HistoryType
  BY DEF Init, HistoryType
<1>2. FrameInv /\ HistoryType /\ [Next]_vars => HistoryType'
  BY HistoryStep DEF FrameInv
<1>3. FrameInv /\ HistoryType => TypeOK
  BY AllTypes DEF FrameInv
<1>4. QED
  BY FrameInit, FrameStep, <1>1, <1>2, <1>3, PTL DEF Spec

\* One activity pushes at a time (the running flag of guardedManualPush and
\* runConnectionCycle), whatever fails and whenever the server dies.
OnePushAtATime ==
  \A a, b \in Activity : act[a].pc \in Pushing /\ act[b].pc \in Pushing => a = b

\* The two activities never push at once.
THEOREM PushesTakeTurns == Spec => []OnePushAtATime
<1>1. FrameInv => OnePushAtATime
  BY Alone DEF FrameInv, OnePushAtATime
<1>2. QED
  BY FrameInit, FrameStep, <1>1, PTL DEF Spec

\* A removal's journal is on disk before the central is asked to forget, and
\* what the journal of an earlier one named is asked for again.
RemovalIsJournalled ==
  act["cycle"].pc \in {"forget", "acked"} =>
    mem.resume \subseteq act["cycle"].ids /\ act["cycle"].ids \subseteq disk.journal

\* No removal is asked for that a restart would not take up again.
THEOREM RemovalsAreJournalled == Spec => []RemovalIsJournalled
<1>1. FrameInv => RemovalIsJournalled
  BY DEF FrameInv, RemovalInv, RemovalIsJournalled
<1>2. QED
  BY FrameInit, FrameStep, <1>1, PTL DEF Spec

\* What the sent-state says of the central it was built against, that central
\* holds, unless an open removal names it, its answer is being recorded or one
\* about it was not heard: whatever fails and wherever the server dies.
THEOREM TheSentStateIsTrue == Spec => []SentIsHeld
<1>1. Init => SentInv
  BY StartTypes, TeamAssumption DEF Init, CentralInit, SentInv, Idle, Empty, At
<1>2. FrameInv /\ SentInv /\ [Next]_vars => SentInv'
  BY SentStep DEF FrameInv
<1>3. SentInv => SentIsHeld
  BY DEF SentInv, SentIsHeld, Owed
<1>4. QED
  BY FrameInit, FrameStep, <1>1, <1>2, <1>3, PTL DEF Spec

\* A denied session the central still holds is in the sent-state, so that the
\* next removal names it, or it is one whose acceptance was never heard or was
\* forgotten with another central: whatever fails and wherever the server dies.
THEOREM WhatIsDeniedCanBeNamed == Spec => []DeniedIsNamed
<1>1. Init => NamedInv
  BY TwoActivities DEF Init, CentralInit, NamedInv, Idle, Empty, At
<1>2. FrameInv /\ NamedInv /\ [Next]_vars => NamedInv'
  BY NamedStep DEF FrameInv
<1>3. FrameInv /\ NamedInv => DeniedIsNamed
  <2>1. FrameInv => prefs.rules \subseteq Session
    BY Types, TeamAssumption DEF FrameInv, Prefs
  <2>2. QED
    BY <2>1 DEF NamedInv, DeniedIsNamed
<1>4. QED
  BY FrameInit, FrameStep, <1>1, <1>2, <1>3, PTL DEF Spec

\* The memo is the aggregate the central took last, but while what became of
\* the last one is not known: whatever fails and wherever the server dies.
THEOREM TheMemoIsTrue == Spec => []MemoIsHeld
<1>1. Init => MemoInv
  BY DEF Init, CentralInit, MemoInv, Idle, Down, At
<1>2. FrameInv /\ MemoInv /\ [Next]_vars => MemoInv'
  BY MemoStep DEF FrameInv
<1>3. MemoInv => MemoIsHeld
  BY DEF MemoInv, MemoIsHeld
<1>4. QED
  BY FrameInit, FrameStep, <1>1, <1>2, <1>3, PTL DEF Spec
=============================================================================
