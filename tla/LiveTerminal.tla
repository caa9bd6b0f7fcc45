---------------------------- MODULE LiveTerminal ----------------------------
(***************************************************************************)
(* A session somebody types into and watches: PaneInput writes into the    *)
(* pane TerminalHub captures, and nudges it when a key has landed          *)
(* (input-web.ts:94-111).                                                  *)
(***************************************************************************)
EXTENDS PaneInput, TerminalHub, FiniteSetsExt

CONSTANT MaxArrivals  \* streams, messages, prompts and other things from outside

ASSUME LiveAssumption == MaxArrivals \in Nat

vars == <<pane, inputVars, hubVars>>

Init == PaneInit /\ InputInit /\ HubInit

\* What has come from outside so far, or gone wrong there.
Arrivals ==
  Cardinality({r \in Reader : reader[r] # "away"})
  + Cardinality({p \in Prompt : said[p] # "unsent"})
  + MapThenSumSet(LAMBDA c : client[c].sent, Conn)
  + Cardinality({k \in 1..2 : <<~pane.alive, ~greeting>>[k]}) + mishaps

Arrive ==
  /\ Arrivals < MaxArrivals
  /\ \/ (\E r \in Reader : Open(r)) /\ UNCHANGED inputVars
     \/ End /\ UNCHANGED <<inputVars, hubVars>>
     \/ (Greet \/ Down) /\ UNCHANGED hubVars
     \/ (\E p \in Prompt : SendPrompt(p)) /\ UNCHANGED hubVars
     \/ (\E c \in Conn, kind \in Kind \cup {"bad"} : Send(c, kind)) /\ UNCHANGED hubVars

\* A key of a page that tmux took nudges the hub.
Type ==
  /\ Work
  /\ IF taken' # taken THEN Nudge ELSE UNCHANGED hubVars

Channel(c) == (ReadAck(c) \/ Handle(c)) /\ UNCHANGED hubVars
Poll       == Tick /\ UNCHANGED inputVars
Reads(s)   == (Capture(s) \/ Deliver(s)) /\ UNCHANGED inputVars

Next ==
  \/ Arrive \/ Type \/ Poll
  \/ \E s \in Read : Reads(s)
  \/ (\E r \in Reader : Subscribe(r) \/ Leave(r)) /\ UNCHANGED inputVars
  \/ \E c \in Conn : Channel(c)
  \/ (\E c \in Conn : Disconnect(c)) /\ UNCHANGED hubVars
  \/ Forget /\ UNCHANGED <<inputVars, hubVars>>

\* The server runs what it has begun, its interval fires and the page reads
\* its socket.  Nobody need type, watch, leave or end the session.
Spec ==
  /\ Init /\ [][Next]_vars
  /\ WF_vars(Type) /\ WF_vars(Poll)
  /\ \A c \in Conn : WF_vars(Channel(c))
  /\ \A s \in Read : WF_vars(Reads(s))

-----------------------------------------------------------------------------
TypeOK == PaneTypeOK(Item) /\ InputTypeOK /\ HubTypeOK

\* Once keys stop, whoever watches is shown the pane as it is, or has been told
\* of its end: also when frames were delivered out of order, which happens
\* when the read of a loop that has stopped clears the `busy` of its successor.
EventuallyCurrent == <>[](\A r \in Watching : pane.alive /\ shows[r] = Screen)

\* input-channel.ts:10-13, pane-writer.ts:25-27: whatever fails or throws, each
\* message is answered, or its socket closed, and the sender of each prompt is
\* told: one failed write keeps nobody else waiting.  (What comes from outside
\* is bounded: at last nobody waits.)
EveryWriteEnds ==
  <>[](/\ \A c \in Conn : client[c].pending = <<>>
       /\ \A p \in Prompt : said[p] # "waiting")
=============================================================================
