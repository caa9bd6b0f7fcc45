----------------------------- MODULE TerminalHub -----------------------------
(***************************************************************************)
(* The capture loop one watched session has, shared by every page that     *)
(* reads its screen, and the streams of those pages.                       *)
(* Translated from packages/server/server/sessions/terminal-hub.ts and     *)
(* terminal-web.ts.  The hub keeps an entry per session and the entries    *)
(* share nothing: one session is modelled.                                 *)
(*                                                                         *)
(* A read of the screen takes three steps: `tick` asks for it, tmux        *)
(* captures, and `tick` goes on after its await.  The entry it finds then  *)
(* is whatever entry the session has by that time.                         *)
(***************************************************************************)
EXTENDS Pane

CONSTANTS
  Reader,     \* streams, each of one page that opens it once
  Read,       \* reads that can be under way at a time
  MaxThrows   \* captures that throw

ASSUME HubAssumption == MaxThrows \in Nat

VARIABLES
  entry,   \* the session's entry: its readers, whether a read is under way, the last frame
  reads,   \* the reads under way and what they captured
  reader,  \* where each stream is
  shows,   \* what each page shows
  throws   \* captures that may still throw

hubVars == <<entry, reads, reader, shows, throws>>

\* Screens are triples; these are not.
Blank == <<>>
Free  == <<"free">>
Asked == <<"asked">>
Gone  == <<"gone">>
Threw == <<"threw">>

NoEntry == [sinks |-> {}, busy |-> FALSE, frame |-> Blank]
Looping == entry.sinks # {}

HubInit ==
  /\ entry = NoEntry
  /\ reads = [s \in Read |-> Free]
  /\ reader = [r \in Reader |-> "away"]
  /\ shows = [r \in Reader |-> Blank]
  /\ throws = MaxThrows

-----------------------------------------------------------------------------
CanRead == \E s \in Read : reads[s] = Free
Reading == [reads EXCEPT ![CHOOSE s \in Read : reads[s] = Free] = Asked]

\* tick, up to its await.  A read under way is not overlapped.
TickNow ==
  IF Looping /\ ~entry.busy /\ CanRead
  THEN entry' = [entry EXCEPT !.busy = TRUE] /\ reads' = Reading
  ELSE UNCHANGED <<entry, reads>>

\* The interval of the loop.
Tick ==
  /\ Looping /\ ~entry.busy /\ CanRead /\ TickNow
  /\ UNCHANGED <<pane, reader, shows, throws>>

\* A key has landed: capture now, if somebody is watching.
Nudge == TickNow /\ UNCHANGED <<reader, shows, throws>>

\* tmux captures the pane, or has it no more; or the capture throws.
Capture(s) ==
  /\ reads[s] = Asked
  /\ \/ /\ reads' = [reads EXCEPT ![s] = IF pane.alive THEN Screen ELSE Gone]
        /\ UNCHANGED throws
     \/ /\ throws > 0 /\ throws' = throws - 1
        /\ reads' = [reads EXCEPT ![s] = Threw]
  /\ UNCHANGED <<pane, entry, reader, shows>>

Idle(e) == [e EXCEPT !.busy = FALSE]

\* Mutation of Received: a capture that threw leaves the read under way.
ReceivedStuck(got) ==
  IF got = Gone THEN NoEntry
  ELSE IF got = Threw THEN entry
  ELSE IF got = entry.frame THEN Idle(entry)
  ELSE [Idle(entry) EXCEPT !.frame = got]

\* What becomes of the entry there is when a read comes back: the end of the
\* session is the end of it, a screen that is not the last one is its frame.
Received(got) ==
  IF ~Looping \/ got = Gone THEN NoEntry
  ELSE IF got \in {Threw, entry.frame} THEN Idle(entry)
  ELSE [Idle(entry) EXCEPT !.frame = got]

\* tick, after its await.  Every reader is sent the new frame, or the end.
Deliver(s) ==
  LET got == reads[s] IN
  /\ got \notin {Free, Asked}
  /\ reads' = [reads EXCEPT ![s] = Free]
  /\ entry' = Received(got)
  /\ shows' = [r \in Reader |->
       IF r \notin entry.sinks \/ got = Threw THEN shows[r]
       ELSE IF got = Gone THEN Blank ELSE got]
  /\ reader' = [r \in Reader |->
       IF got = Gone /\ r \in entry.sinks THEN "ended" ELSE reader[r]]
  /\ UNCHANGED <<pane, throws>>

\* A page opens its stream; the hub asks the registry whether it may.
Open(r) ==
  /\ reader[r] = "away" /\ pane.managed
  /\ reader' = [reader EXCEPT ![r] = "asking"]
  /\ UNCHANGED <<pane, entry, reads, shows, throws>>

\* A newcomer to a running loop is shown its last frame.
Joined(r) ==
  /\ entry' = [entry EXCEPT !.sinks = @ \cup {r}]
  /\ shows' = [shows EXCEPT ![r] = entry.frame]
  /\ UNCHANGED reads

\* The first reader starts the loop, with a read at once.
Started(r) ==
  /\ CanRead /\ reads' = Reading
  /\ entry' = [sinks |-> {r}, busy |-> TRUE, frame |-> Blank]
  /\ UNCHANGED shows

\* The registry has answered: join the loop, or start it.  A page that has
\* left meanwhile is subscribed all the same, and nothing will undo that.
Subscribe(r) ==
  /\ reader[r] \in {"asking", "left"}
  /\ IF pane.managed
     THEN /\ reader' = [reader EXCEPT ![r] = IF @ = "left" THEN "orphan" ELSE "watching"]
          /\ IF Looping THEN Joined(r) ELSE Started(r)
     ELSE /\ reader' = [reader EXCEPT ![r] = "ended"]
          /\ UNCHANGED <<entry, reads, shows>>
  /\ UNCHANGED <<pane, throws>>

\* Mutation of Leave: the stream closes and its subscription stays.
LeaveSubscribed(r) ==
  /\ reader[r] \in {"asking", "watching"}
  /\ reader' = [reader EXCEPT ![r] = IF @ = "asking" THEN "left" ELSE "closed"]
  /\ UNCHANGED <<pane, entry, reads, shows, throws>>

\* The page goes.  Its subscription goes with it, and the loop with the last
\* one; while the registry is being asked there is none to drop.
Leave(r) ==
  /\ \/ /\ reader[r] = "asking"
        /\ reader' = [reader EXCEPT ![r] = "left"]
        /\ UNCHANGED entry
     \/ /\ reader[r] = "watching"
        /\ reader' = [reader EXCEPT ![r] = "closed"]
        /\ entry' = IF entry.sinks = {r} THEN NoEntry
                    ELSE [entry EXCEPT !.sinks = @ \ {r}]
  /\ shows' = [shows EXCEPT ![r] = Blank]
  /\ UNCHANGED <<pane, reads, throws>>

-----------------------------------------------------------------------------
Watching == {r \in Reader : reader[r] = "watching"}

HubTypeOK ==
  /\ entry = [sinks |-> entry.sinks, busy |-> entry.busy, frame |-> entry.frame]
  /\ entry.sinks \subseteq Reader /\ entry.busy \in BOOLEAN
  /\ ~Looping => entry = NoEntry
  /\ DOMAIN reads = Read /\ DOMAIN shows = Reader
  /\ reader \in [Reader ->
       {"away", "asking", "left", "watching", "orphan", "closed", "ended"}]
  /\ throws \in 0..MaxThrows

\* terminal-hub.ts:7-9: every page that watches is a reader of the loop there
\* is, and the loop captures for nobody else but pages that left while the
\* registry was being asked (terminal-web.ts:121-126 subscribes them for good).
ServedExactly ==
  /\ Watching \subseteq entry.sinks
  /\ \A r \in entry.sinks : reader[r] \in {"watching", "orphan"}
=============================================================================
