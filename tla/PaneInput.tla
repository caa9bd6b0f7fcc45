------------------------------ MODULE PaneInput ------------------------------
(***************************************************************************)
(* Everything the server types into one session's pane: the browsers'      *)
(* key-by-key connections, the prompts other requests send, and the first  *)
(* Enter of a session that was started with a prompt.                      *)
(* Translated from packages/server/server/sessions/input-channel.ts,       *)
(* input-web.ts, pane-writer.ts and backend-tmux.ts, and, for the browser, *)
(* packages/web/src/lib/terminalChannel.ts.                                *)
(*                                                                         *)
(* Every call of tmux is a step.  It may fail, whether or not the code     *)
(* looks at the result: always once the session has ended.  Before, calls  *)
(* that fail and keys pressed at the pane's own terminal are mishaps.      *)
(***************************************************************************)
EXTENDS Pane

CONSTANTS
  Conn,       \* sockets, each of one browser page
  Prompt,     \* prompts sent whole (sendText)
  MaxSent,    \* messages a connection sends
  MaxMishaps  \* calls of tmux that fail while the session lives, and keys
              \* at its own terminal

ASSUME PaneInputAssumption ==
  /\ {MaxSent, MaxMishaps} \subseteq Nat
  /\ Conn \cap Prompt = {} /\ Conn \X (1..MaxSent) \cap Prompt = {}

VARIABLES
  client,   \* what each page knows: terminalChannel.ts's reducer
  inbox,    \* messages sent and not answered; the first is being handled
  acks,     \* answers on their way to the page
  taken,    \* history: the messages of each connection that tmux took
  chain,    \* writes linked onto the pane's chain; the first one runs
  step,     \* how far that one is
  said,     \* what the sender of each prompt was told
  greeting, \* whether the first Enter is still to be pressed
  disturbed, \* history: prompts whose text or return did not reach the input
             \* box, and nothing of it was seen
  mishaps   \* how many there have been

inputVars == <<client, inbox, acks, taken, chain, step, said, greeting, disturbed, mishaps>>

Kind    == {"text", "enter", "paste"}
Message == [kind : Kind \cup {"bad"}, n : 1..MaxSent]
Write   == [from : Prompt, kind : {"prompt"}, n : {0}]
             \cup [from : Conn, kind : Kind, n : 1..MaxSent]
Item    == Prompt \cup Conn \X (1..MaxSent)

InputInit ==
  /\ client = [c \in Conn |-> [open |-> TRUE, sent |-> 0, pending |-> <<>>,
                               undelivered |-> FALSE, odd |-> FALSE]]
  /\ inbox = [c \in Conn |-> <<>>]
  /\ acks = [c \in Conn |-> <<>>]
  /\ taken = [c \in Conn |-> <<>>]
  /\ chain = <<>> /\ step = "start"
  /\ said = [p \in Prompt |-> "unsent"]
  /\ greeting = TRUE /\ disturbed = {}
  /\ mishaps = 0

-----------------------------------------------------------------------------
(* The page.                                                               *)

\* A key, a chunk of text or a paste goes out; the page expects an answer.
Send(c, kind) ==
  LET me == client[c]
      n  == me.sent + 1 IN
  /\ me.open /\ n <= MaxSent
  /\ client' = [client EXCEPT ![c] = [me EXCEPT !.sent = n, !.pending = Append(@, n)]]
  /\ inbox' = [inbox EXCEPT ![c] = Append(@, [n |-> n, kind |-> kind])]
  /\ UNCHANGED <<pane, acks, taken, chain, step, said, greeting, disturbed, mishaps>>

\* An answer must be for the message the page expects one for next.
ReadAck(c) ==
  LET ack == Head(acks[c])
      me  == client[c] IN
  /\ acks[c] # <<>>
  /\ acks' = [acks EXCEPT ![c] = Tail(@)]
  /\ client' = [client EXCEPT ![c] =
       IF me.pending = <<>> THEN me
       ELSE IF Head(me.pending) # ack.n THEN [me EXCEPT !.undelivered = TRUE, !.odd = TRUE]
       ELSE [me EXCEPT !.pending = Tail(@), !.undelivered = @ \/ ~ack.ok]]
  /\ UNCHANGED <<pane, inbox, taken, chain, step, said, greeting, disturbed, mishaps>>

\* The socket closes: answers under way and messages that had not arrived are
\* lost, those the server has are handled all the same.
Disconnect(c) ==
  LET me == client[c] IN
  /\ me.open
  /\ client' = [client EXCEPT ![c] =
       [me EXCEPT !.open = FALSE, !.pending = <<>>,
                  !.undelivered = @ \/ me.pending # <<>>]]
  /\ acks' = [acks EXCEPT ![c] = <<>>]
  /\ \E k \in 0..Len(inbox[c]) :
       /\ \A w \in ToSet(chain) : w.from = c => k > 0
       /\ inbox' = [inbox EXCEPT ![c] = SubSeq(@, 1, k)]
  /\ UNCHANGED <<pane, taken, chain, step, said, greeting, disturbed, mishaps>>

-----------------------------------------------------------------------------
(* The channel: one message of a connection after another.                 *)

Answer(c, ok) ==
  /\ inbox' = [inbox EXCEPT ![c] = Tail(@)]
  /\ acks' = IF client[c].open
             THEN [acks EXCEPT ![c] = Append(@, [n |-> Head(inbox[c]).n, ok |-> ok])]
             ELSE acks

\* Mutation of Handle: a message that does not parse is answered on arrival.
HandleBadFirst(c) ==
  LET i == CHOOSE k \in DOMAIN inbox[c] : inbox[c][k].kind = "bad" IN
  /\ \E k \in DOMAIN inbox[c] : inbox[c][k].kind = "bad"
  /\ inbox' = [inbox EXCEPT ![c] = RemoveAt(@, i)]
  /\ acks' = [acks EXCEPT ![c] = Append(@, [n |-> inbox[c][i].n, ok |-> FALSE])]
  /\ UNCHANGED <<pane, client, taken, chain, step, said, greeting, disturbed, mishaps>>

\* Mutation of Handle: text goes into the pane around the chain.
HandleUnlocked(c) ==
  LET m == Head(inbox[c]) IN
  /\ inbox[c] # <<>> /\ pane.alive
  /\ pane' = Typed(<<c, m.n>>) /\ Answer(c, TRUE)
  /\ taken' = [taken EXCEPT ![c] = Append(@, m.n)]
  /\ UNCHANGED <<client, chain, step, said, greeting, disturbed, mishaps>>

\* A message that does not parse is answered at once; any other becomes a
\* write on the pane's chain, and the channel waits for it.
Handle(c) ==
  LET m == Head(inbox[c]) IN
  /\ inbox[c] # <<>>
  /\ \A w \in ToSet(chain) : w.from # c
  /\ IF m.kind = "bad"
     THEN Answer(c, FALSE) /\ UNCHANGED chain
     ELSE /\ chain' = Append(chain, [from |-> c, kind |-> m.kind, n |-> m.n])
          /\ UNCHANGED <<inbox, acks>>
  /\ UNCHANGED <<pane, client, taken, step, said, greeting, disturbed, mishaps>>

SendPrompt(p) ==
  /\ said[p] = "unsent"
  /\ said' = [said EXCEPT ![p] = "waiting"]
  /\ chain' = Append(chain, [from |-> p, kind |-> "prompt", n |-> 0])
  /\ UNCHANGED <<pane, client, inbox, acks, taken, step, greeting, disturbed, mishaps>>

-----------------------------------------------------------------------------
(* The write at the head of the chain.                                     *)

Heads(kinds) == chain # <<>> /\ Head(chain).kind \in kinds

At(s) == Heads({"prompt"}) /\ step = s

Mishap == mishaps < MaxMishaps /\ mishaps' = mishaps + 1

\* A call that fails.
Fails == IF pane.alive THEN Mishap ELSE UNCHANGED mishaps

\* Mutation of Finish: a failure leaves no answer.
FinishSilently(ok) ==
  LET w == Head(chain) IN
  /\ chain' = Tail(chain) /\ step' = "start"
  /\ IF w.from \in Prompt
     THEN /\ said' = [said EXCEPT ![w.from] = IF ok THEN "delivered" ELSE "failed"]
          /\ UNCHANGED <<inbox, acks>>
     ELSE /\ IF ok THEN Answer(w.from, ok)
             ELSE inbox' = [inbox EXCEPT ![w.from] = Tail(@)] /\ UNCHANGED acks
          /\ UNCHANGED said

\* Mutation of Finish: every settled promise reads as sent.
FinishSent(ok) ==
  LET w == Head(chain) IN
  /\ chain' = Tail(chain) /\ step' = "start"
  /\ IF w.from \in Conn
     THEN Answer(w.from, TRUE) /\ UNCHANGED said
     ELSE said' = [said EXCEPT ![w.from] = "delivered"] /\ UNCHANGED <<inbox, acks>>

\* The promise of the write settles, and the next one of the chain may run.
Finish(ok) ==
  LET w == Head(chain) IN
  /\ chain' = Tail(chain) /\ step' = "start"
  /\ IF w.from \in Conn
     THEN Answer(w.from, ok) /\ UNCHANGED said
     ELSE /\ said' = [said EXCEPT ![w.from] = IF ok THEN "delivered" ELSE "failed"]
          /\ UNCHANGED <<inbox, acks>>

\* The write goes on to its next call.
Onward(s) == step' = s /\ UNCHANGED <<inbox, acks, chain, said>>

Took(w) == taken' = [taken EXCEPT ![w.from] = Append(@, w.n)]

\* sendTextRaw, sendKey: one call.
PressKey ==
  LET w == Head(chain) IN
  /\ Heads({"text", "enter"})
  /\ \/ /\ pane.alive /\ Took(w) /\ Finish(TRUE)
        /\ pane' = IF w.kind = "text" THEN Typed(<<w.from, w.n>>) ELSE Entered
        /\ UNCHANGED mishaps
     \/ Fails /\ Finish(FALSE) /\ UNCHANGED <<pane, taken>>
  /\ UNCHANGED <<client, greeting, disturbed>>

\* sendPaste: into a buffer of tmux ...
SetBuffer ==
  /\ Heads({"paste"}) /\ step = "start"
  /\ \/ pane.alive /\ UNCHANGED mishaps /\ Onward("buffered")
     \/ Fails /\ Finish(FALSE)
  /\ UNCHANGED <<pane, client, taken, greeting, disturbed>>

\* ... and from there into the pane.
PasteBuffer ==
  LET w == Head(chain) IN
  /\ Heads({"paste"}) /\ step = "buffered"
  /\ \/ /\ pane.alive /\ Took(w) /\ Finish(TRUE)
        /\ pane' = Typed(<<w.from, w.n>>)
        /\ UNCHANGED mishaps
     \/ Fails /\ Finish(FALSE) /\ UNCHANGED <<pane, taken>>
  /\ UNCHANGED <<client, greeting, disturbed>>

\* What is noted of the prompt that is being sent.
Disturbs(so) == disturbed' = disturbed \cup (IF so THEN {Head(chain).from} ELSE {})

\* A prompt: typeAndSubmit.  Escape until the input box is seen to have the
\* focus; a capture that fails shows nothing, and reads as the input box.
FocusInput ==
  /\ At("start")
  /\ \/ pane.alive /\ pane.focus = "input" /\ UNCHANGED <<pane, mishaps>> /\ Onward("type")
     \/ Fails /\ UNCHANGED pane /\ Onward("type")
     \/ /\ pane.alive /\ pane.focus # "input"
        /\ \/ pane' = Escaped /\ UNCHANGED mishaps /\ Onward("start")
           \/ Fails /\ UNCHANGED pane /\ Finish(FALSE)
  /\ Disturbs(step' = "type" /\ pane.alive /\ pane.focus # "input")
  /\ UNCHANGED <<client, taken, greeting>>

\* No return follows text that tmux did not take.
TypePrompt ==
  /\ At("type")
  /\ \/ pane.alive /\ pane' = Typed(Head(chain).from) /\ UNCHANGED mishaps /\ Onward("enter")
     \/ Fails /\ UNCHANGED pane /\ Finish(FALSE)
  /\ UNCHANGED <<client, taken, greeting, disturbed>>

\* The first return may be lost in the burst of the typing.  A second one
\* follows unless the pane was still before the return and moved after it; a
\* pane that is repainted just then has moved, whatever became of the return.
PressReturn ==
  /\ At("enter")
  /\ \/ /\ pane.alive /\ UNCHANGED mishaps
        /\ \E s \in {"again", "check"} :
             /\ Onward(s)
             /\ \/ pane' = Entered /\ UNCHANGED disturbed
                \/ pane.focus = "input" /\ UNCHANGED pane /\ Disturbs(s = "check")
     \/ Fails /\ UNCHANGED <<pane, disturbed>> /\ Finish(FALSE)
  /\ UNCHANGED <<client, taken, greeting>>

\* Nobody looks at whether tmux took the second return.
SecondReturn ==
  /\ At("again") /\ Onward("check")
  /\ \/ pane.alive /\ pane' = Entered /\ UNCHANGED <<mishaps, disturbed>>
     \/ Fails /\ UNCHANGED pane /\ Disturbs(pane.alive /\ pane.box # <<>>)
  /\ UNCHANGED <<client, taken, greeting>>

\* A view that is open now was opened by the return: close it, not delivered.
CheckOverlay ==
  /\ At("check")
  /\ \/ pane.alive /\ pane.focus # "overlay" /\ UNCHANGED <<pane, mishaps>> /\ Finish(TRUE)
     \/ Fails /\ UNCHANGED pane /\ Finish(TRUE)
     \/ /\ pane.alive /\ pane.focus = "overlay" /\ Finish(FALSE)
        /\ \/ pane' = Escaped /\ UNCHANGED mishaps
           \/ Fails /\ UNCHANGED pane
  /\ UNCHANGED <<client, taken, greeting, disturbed>>

Work ==
  \/ PressKey \/ SetBuffer \/ PasteBuffer
  \/ FocusInput \/ TypePrompt \/ PressReturn \/ SecondReturn \/ CheckOverlay

-----------------------------------------------------------------------------
(* Keys that do not go through the chain.                                  *)

\* deliverInitialPrompt: the Enter of a prompt the assistant was started with,
\* once it is seen waiting in the box.
Greet ==
  /\ greeting /\ greeting' = FALSE
  /\ pane.alive /\ pane.focus = "input" /\ pane' = Entered
  /\ UNCHANGED <<client, inbox, acks, taken, chain, step, said, disturbed, mishaps>>

\* Somebody at the pane's own terminal goes to the list of agents.
Down ==
  /\ Mishap
  /\ pane.alive /\ pane.focus = "input" /\ pane' = Lowered
  /\ Disturbs(Heads({"prompt"}) /\ step # "start")
  /\ UNCHANGED <<client, inbox, acks, taken, chain, step, said, greeting>>

-----------------------------------------------------------------------------
InputTypeOK ==
  /\ client \in [Conn -> [open : BOOLEAN, sent : 0..MaxSent, pending : Seq(1..MaxSent),
                          undelivered : BOOLEAN, odd : BOOLEAN]]
  /\ inbox \in [Conn -> Seq(Message)]
  /\ acks \in [Conn -> Seq([n : 1..MaxSent, ok : BOOLEAN])]
  /\ taken \in [Conn -> Seq(1..MaxSent)]
  /\ chain \in Seq(Write)
  /\ step \in {"start", "buffered", "type", "enter", "again", "check"}
  /\ chain = <<>> => step = "start"
  /\ said \in [Prompt -> {"unsent", "waiting", "delivered", "failed"}]
  /\ greeting \in BOOLEAN /\ disturbed \subseteq Prompt
  /\ mishaps \in 0..MaxMishaps

\* pane-writer.ts:4-19: a prompt is submitted as the end of one line, by its
\* own return or the first Enter: nothing comes between its text and that
\* return, unless it was reported as not delivered; and one reported as
\* delivered has been submitted.  Not so a prompt whose text or return missed
\* the input box unseen: a capture that failed, a key at the terminal itself, or
\* a repaint that passed for the effect of a return that was lost.
PromptsAreWhole ==
  \A p \in Prompt \ disturbed :
    /\ said[p] # "failed" =>
         \A line \in ToSet(pane.turns) \cup {pane.box} :
           p \in ToSet(line) => Last(line) = p
    /\ said[p] = "delivered" /\ pane.alive =>
         \E line \in ToSet(pane.turns) : p \in ToSet(line)

\* terminalChannel.ts:17-23: an answer is always for the message the page
\* expects one for, whatever failed, did not parse or waited before it.
AnswersInOrder == \A c \in Conn : ~client[c].odd

\* terminalChannel.ts:10-15, input-channel.ts:4-8: a page that shows nothing
\* pending and nothing undelivered sent keys that tmux took, all of them, in
\* the order they were typed; also when its socket has closed since.
NothingLostSilently ==
  \A c \in Conn :
    client[c].pending = <<>> /\ ~client[c].undelivered =>
      taken[c] = [n \in 1..client[c].sent |-> n]
=============================================================================
