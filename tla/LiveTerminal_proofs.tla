------------------------ MODULE LiveTerminal_proofs ------------------------
(***************************************************************************)
(* Proofs about LiveTerminal, for any number of connections, pages, reads  *)
(* and prompts.                                                            *)
(*                                                                         *)
(* What holds of the connections rests on three facts: what a connection   *)
(* expects answers for is what was answered and not yet read, then what is *)
(* still in its inbox; while nothing was undelivered, what tmux took and   *)
(* what is in the inbox are the messages sent, in order; a connection has  *)
(* one write in the chain, for the message it is at.                       *)
(*                                                                         *)
(* That prompts stay whole holds of the prompts nothing disturbed unseen:  *)
(* each of them has the input box from the moment it is typed, and is in   *)
(* it, alone at the end, until a return submits it.                        *)
(***************************************************************************)
EXTENDS LiveTerminal, TLAPS, SequenceTheorems

\* The numbers in due are those of the answers done, then of the messages left.
Owed(due, done, left) ==
  /\ Len(due) = Len(done) + Len(left)
  /\ \A i \in 1..Len(done) : due[i] = done[i].n
  /\ \A i \in 1..Len(left) : due[Len(done) + i] = left[i].n

\* The numbers up to sent are those taken, in order, then of the messages left.
Counted(sent, took, left) ==
  /\ sent = Len(took) + Len(left)
  /\ \A i \in 1..Len(took) : took[i] = i
  /\ \A i \in 1..Len(left) : left[i].n = Len(took) + i

\* What a connection that stands expects answers for: those under way, then
\* the messages nobody has handled.
Expected(c) == Owed(client[c].pending, acks[c], inbox[c])

\* tmux took what was sent, up to the messages nobody has handled.
TookAll(c) == Counted(client[c].sent, taken[c], inbox[c])

AllOk(c) == ~client[c].undelivered /\ \A i \in 1..Len(acks[c]) : acks[c][i].ok

ConnInv(c) ==
  /\ ~client[c].odd
  /\ client[c].open => Expected(c)
  /\ ~client[c].open => /\ acks[c] = <<>> /\ client[c].pending = <<>>
                        /\ client[c].undelivered \/ inbox[c] = <<>>
  /\ AllOk(c) => TookAll(c)

\* A write of a connection is for the message the connection is at, and it
\* has one write at a time.
WriteInv ==
  \A i \in 1..Len(chain) : chain[i].from \in Conn =>
    /\ inbox[chain[i].from] # <<>> /\ Head(inbox[chain[i].from]).n = chain[i].n
    /\ \A j \in 1..Len(chain) : chain[j].from = chain[i].from => j = i

-----------------------------------------------------------------------------
(* The prompts.                                                            *)

In(p, line) == \E i \in 1..Len(line) : line[i] = p
Ends(p, line) == line # <<>> /\ line[Len(line)] = p

\* Where a prompt is: on its way out of the box, in a line that was submitted,
\* nowhere, nowhere but at the end of a line, or submitted and no longer in the box.
Typing(p) == chain # <<>> /\ Head(chain).from = p /\ step \notin {"start", "type"}
Submitted(p) == \E i \in 1..Len(pane.turns) : In(p, pane.turns[i])
Untyped(p) == ~In(p, pane.box) /\ ~Submitted(p)
Whole(p) ==
  /\ In(p, pane.box) => Ends(p, pane.box)
  /\ \A i \in 1..Len(pane.turns) : In(p, pane.turns[i]) => Ends(p, pane.turns[i])
Sealed(p) == Submitted(p) /\ ~In(p, pane.box)

LineInv(p) == p \in disturbed \/
  /\ said[p] \in {"unsent", "waiting"} /\ ~Typing(p) => Untyped(p)
  /\ said[p] # "failed" => Whole(p)
  /\ pane.alive /\ said[p] = "delivered" => Sealed(p)

\* The prompt at the head of the chain has the focus once it is seen to have
\* it, is in the box or submitted once it is typed, and submitted at the end.
HeadInv ==
  Heads({"prompt"}) /\ pane.alive /\ Head(chain).from \notin disturbed =>
    LET p == Head(chain).from IN
    /\ step # "start" => pane.focus = "input"
    /\ step \in {"enter", "again"} => In(p, pane.box) \/ Submitted(p)
    /\ step = "check" => pane.box = <<>> /\ Submitted(p)

PromptInv == HeadInv /\ \A p \in Prompt : LineInv(p)

-----------------------------------------------------------------------------
(* Types.                                                                  *)

Step == {"start", "buffered", "type", "enter", "again", "check"}
Client == [open : BOOLEAN, sent : 0..MaxSent, pending : Seq(1..MaxSent),
           undelivered : BOOLEAN, odd : BOOLEAN]
Ack == [n : 1..MaxSent, ok : BOOLEAN]

\* A sequence that grows is a sequence, and not empty.
LEMMA Longer ==
  ASSUME NEW S, NEW s \in Seq(S), NEW e \in S
  PROVE  Append(s, e) \in Seq(S) /\ Append(s, e) # <<>>
<1>1. Append(s, e) \in Seq(S) /\ Len(Append(s, e)) = Len(s) + 1 /\ Len(s) \in Nat
  OBVIOUS
<1>2. Len(<<>>) = 0
  OBVIOUS
<1>3. Len(Append(s, e)) # Len(<<>>)
  BY <1>1, <1>2
<1>4. QED
  BY <1>1, <1>3, Zenon

\* The entry of the hub is a record of its three parts, whatever is one of them.
LEMMA EntryType ==
  ASSUME HubTypeOK, UNCHANGED <<throws>>,
         DOMAIN reads' = Read, DOMAIN shows' = Reader,
         reader' \in [Reader ->
            {"away", "asking", "left", "watching", "orphan", "closed", "ended"}],
         \/ entry' \in {entry, NoEntry}
         \/ \E last : \E who \in (SUBSET Reader) \ {{}}, now \in BOOLEAN :
              entry' = [sinks |-> who, busy |-> now, frame |-> last]
  PROVE  HubTypeOK'
<1>1. CASE entry' = entry
  BY <1>1 DEF HubTypeOK, Looping
<1>2. CASE entry' = NoEntry
  BY <1>2 DEF HubTypeOK, Looping, NoEntry
<1>3. CASE \E last : \E who \in (SUBSET Reader) \ {{}}, now \in BOOLEAN :
              entry' = [sinks |-> who, busy |-> now, frame |-> last]
  BY <1>3 DEF HubTypeOK, Looping
<1>4. QED
  BY <1>1, <1>2, <1>3

\* What a key does to the pane leaves it a pane.
LEMMA KeyType ==
  ASSUME PaneTypeOK(Item),
         \/ pane' \in {pane, Entered, Escaped, Lowered}
         \/ \E item \in Item : pane' = Typed(item)
  PROVE  PaneTypeOK(Item)'
<1>1. CASE pane' = pane
  BY <1>1 DEF PaneTypeOK
<1>2. CASE pane' \in {Escaped, Lowered}
  BY <1>2 DEF PaneTypeOK, Escaped, Lowered
<1>3. CASE pane' = Entered
  <2>1. pane.box # <<>> => Append(pane.turns, pane.box) \in Seq(Seq(Item) \ {<<>>})
    BY DEF PaneTypeOK
  <2>2. <<>> \in Seq(Item)
    OBVIOUS
  <2>3. QED
    BY <1>3, <2>1, <2>2 DEF PaneTypeOK, Entered
<1>4. CASE \E item \in Item : pane' = Typed(item)
  <2>1. PICK item \in Item : pane' = Typed(item)
    BY <1>4
  <2>2. Append(pane.box, item) \in Seq(Item)
    BY DEF PaneTypeOK
  <2>3. QED
    BY <2>1, <2>2 DEF PaneTypeOK, Typed
<1>5. QED
  BY <1>1, <1>2, <1>3, <1>4

\* The write at the head of the chain.
LEMMA HeadFields ==
  ASSUME InputTypeOK, chain # <<>>
  PROVE  /\ Head(chain) \in Write /\ Head(chain) = chain[1]
         /\ Tail(chain) \in Seq(Write)
         /\ Heads({"prompt"}) => Head(chain).from \in Prompt /\ Head(chain).from \notin Conn
         /\ ~Heads({"prompt"}) =>
              /\ Head(chain).from \in Conn /\ Head(chain).from \notin Prompt
              /\ Head(chain).kind \in Kind /\ Head(chain).n \in 1..MaxSent
              /\ <<Head(chain).from, Head(chain).n>> \in Item
<1>1. Head(chain) \in Write /\ Head(chain) = chain[1] /\ Tail(chain) \in Seq(Write)
  BY DEF InputTypeOK
<1>2. QED
  BY <1>1, PaneInputAssumption DEF Write, Heads, Item, Kind

\* What the call of a write does to the pane.
LEMMA WorkKeys ==
  ASSUME InputTypeOK, Work
  PROVE  \/ pane' \in {pane, Entered, Escaped, Lowered}
         \/ \E item \in Item : pane' = Typed(item)
<1>1. chain # <<>>
  BY DEF Work, PressKey, SetBuffer, PasteBuffer, FocusInput, TypePrompt, PressReturn,
         SecondReturn, CheckOverlay, Heads, At
<1>2. CASE PressKey
  BY <1>1, <1>2, HeadFields DEF PressKey, Heads
<1>3. CASE SetBuffer
  BY <1>3 DEF SetBuffer
<1>4. CASE PasteBuffer
  BY <1>1, <1>4, HeadFields DEF PasteBuffer, Heads
<1>5. CASE TypePrompt
  BY <1>1, <1>5, HeadFields DEF TypePrompt, At, Item
<1>6. CASE FocusInput \/ PressReturn \/ SecondReturn \/ CheckOverlay
  BY <1>6 DEF FocusInput, PressReturn, SecondReturn, CheckOverlay
<1>7. QED
  BY <1>2, <1>3, <1>4, <1>5, <1>6 DEF Work

\* A call of a write either leaves the write at the head of the chain, or is
\* its last: then its sender is told, and tmux has taken a message whose
\* connection is told that it was.
Goes == UNCHANGED <<inbox, acks, chain, said, taken>>
EndsWrite(ok) ==
  /\ Finish(ok)
  /\ IF ok /\ Head(chain).from \in Conn THEN Took(Head(chain)) ELSE UNCHANGED taken

\* It goes on, or ends.
LEMMA WorkMoves ==
  ASSUME InputTypeOK, Work
  PROVE  /\ chain # <<>> /\ UNCHANGED <<client, greeting>>
         /\ step' \in Step
         /\ Goes \/ \E ok \in BOOLEAN : EndsWrite(ok)
<1>1. chain # <<>>
  BY DEF Work, PressKey, SetBuffer, PasteBuffer, FocusInput, TypePrompt, PressReturn,
         SecondReturn, CheckOverlay, Heads, At
<1>2. CASE PressKey
  <2>1. step' = "start" /\ UNCHANGED <<client, greeting>>
    BY <1>2 DEF PressKey, Finish, Step
  <2>2. Head(chain).from \in Conn
    BY <1>1, <1>2, HeadFields DEF PressKey, Heads
  <2>3. EndsWrite(TRUE) \/ EndsWrite(FALSE)
    BY <1>2, <2>2 DEF PressKey, EndsWrite
  <2>4. QED
    BY <1>1, <2>1, <2>3 DEF Step
<1>3. CASE SetBuffer
  <2>1. step' \in {"start", "buffered"} /\ UNCHANGED <<client, greeting>>
    BY <1>3 DEF SetBuffer, Finish, Onward, Step
  <2>2. Goes \/ EndsWrite(FALSE)
    BY <1>3 DEF SetBuffer, Onward, Goes, EndsWrite
  <2>3. QED
    BY <1>1, <2>1, <2>2 DEF Step
<1>4. CASE PasteBuffer
  <2>1. step' = "start" /\ UNCHANGED <<client, greeting>>
    BY <1>4 DEF PasteBuffer, Finish, Step
  <2>2. Head(chain).from \in Conn
    BY <1>1, <1>4, HeadFields DEF PasteBuffer, Heads
  <2>3. EndsWrite(TRUE) \/ EndsWrite(FALSE)
    BY <1>4, <2>2 DEF PasteBuffer, EndsWrite
  <2>4. QED
    BY <1>1, <2>1, <2>3 DEF Step
<1>5. CASE FocusInput \/ TypePrompt \/ PressReturn \/ SecondReturn \/ CheckOverlay
  <2>1. /\ step' \in {"start", "type", "enter", "again", "check"}
        /\ UNCHANGED <<client, greeting, taken>>
    BY <1>5 DEF FocusInput, TypePrompt, PressReturn, SecondReturn, CheckOverlay, Finish, Onward
  <2>2. Head(chain).from \notin Conn
    BY <1>1, <1>5, HeadFields DEF FocusInput, TypePrompt, PressReturn, SecondReturn,
       CheckOverlay, At
  <2>3. (\E s \in Step : Onward(s)) \/ Finish(TRUE) \/ Finish(FALSE)
    <3>1. CASE FocusInput
      BY <3>1 DEF FocusInput, Step
    <3>2. CASE TypePrompt
      BY <3>2 DEF TypePrompt, Step
    <3>3. CASE PressReturn
      BY <3>3 DEF PressReturn, Step
    <3>4. CASE SecondReturn
      BY <3>4 DEF SecondReturn, Step
    <3>5. CASE CheckOverlay
      BY <3>5 DEF CheckOverlay
    <3>6. QED
      BY <1>5, <3>1, <3>2, <3>3, <3>4, <3>5
  <2>4. Goes \/ EndsWrite(TRUE) \/ EndsWrite(FALSE)
    BY <2>1, <2>2, <2>3 DEF Onward, Goes, EndsWrite
  <2>5. QED
    BY <1>1, <2>1, <2>4 DEF Step
<1>6. QED
  BY <1>2, <1>3, <1>4, <1>5 DEF Work

\* The types hold at the start.
LEMMA TypeInit == Init => TypeOK
<1> SUFFICES ASSUME Init PROVE TypeOK
  OBVIOUS
<1>1. PaneTypeOK(Item)
  <2>1. <<>> \in Seq(Item) /\ <<>> \in Seq(Seq(Item) \ {<<>>})
    OBVIOUS
  <2>2. QED
    BY <2>1 DEF Init, PaneInit, PaneTypeOK
<1>2. HubTypeOK
  BY HubAssumption DEF Init, HubInit, HubTypeOK, NoEntry, Looping
<1>3. InputTypeOK
  <2>1. /\ <<>> \in Seq(1..MaxSent) /\ <<>> \in Seq(Message) /\ <<>> \in Seq(Write)
        /\ <<>> \in Seq([n : 1..MaxSent, ok : BOOLEAN])
    OBVIOUS
  <2>2. /\ 0 \in 0..MaxSent /\ 0 \in 0..MaxMishaps
    BY PaneInputAssumption
  <2>3. QED
    BY <2>1, <2>2 DEF Init, InputInit, InputTypeOK
<1>4. QED
  BY <1>1, <1>2, <1>3 DEF TypeOK

\* A message is answered: its connection goes on to its next one.
LEMMA AnswerType ==
  ASSUME InputTypeOK, NEW c \in Conn, inbox[c] # <<>>, NEW ok \in BOOLEAN, Answer(c, ok)
  PROVE  inbox' \in [Conn -> Seq(Message)] /\ acks' \in [Conn -> Seq(Ack)]
<1>1. inbox[c] \in Seq(Message) /\ acks[c] \in Seq(Ack)
  BY DEF InputTypeOK, Ack
<1>2. Head(inbox[c]) \in Message /\ Tail(inbox[c]) \in Seq(Message)
  BY <1>1
<1>3. [n |-> Head(inbox[c]).n, ok |-> ok] \in Ack
  BY <1>2 DEF Message, Ack
<1>4. Append(acks[c], [n |-> Head(inbox[c]).n, ok |-> ok]) \in Seq(Ack)
  BY <1>1, <1>3
<1>5. QED
  BY <1>2, <1>4 DEF Answer, InputTypeOK, Ack

\* What the call of a write notes and counts is typed; what is noted stays.
LEMMA NotesType ==
  ASSUME InputTypeOK, Work
  PROVE  mishaps' \in 0..MaxMishaps /\ disturbed' \subseteq Prompt /\ disturbed \subseteq disturbed'
<1>1. Mishap \/ UNCHANGED mishaps
  BY DEF Work, PressKey, SetBuffer, PasteBuffer, FocusInput, TypePrompt, PressReturn,
         SecondReturn, CheckOverlay, Fails
<1>2. mishaps' \in 0..MaxMishaps
  BY <1>1, PaneInputAssumption DEF Mishap, InputTypeOK
<1>3. CASE FocusInput \/ PressReturn \/ SecondReturn
  <2>1. Head(chain).from \in Prompt
    BY <1>3, HeadFields DEF FocusInput, PressReturn, SecondReturn, At, Heads
  <2>2. disturbed' = disturbed \/ \E so \in BOOLEAN : Disturbs(so)
    BY <1>3 DEF FocusInput, PressReturn, SecondReturn, Disturbs
  <2>3. QED
    BY <1>2, <2>1, <2>2 DEF Disturbs, InputTypeOK
<1>4. CASE PressKey \/ SetBuffer \/ PasteBuffer \/ TypePrompt \/ CheckOverlay
  <2>1. disturbed' = disturbed
    BY <1>4 DEF PressKey, SetBuffer, PasteBuffer, TypePrompt, CheckOverlay
  <2>2. QED
    BY <1>2, <2>1 DEF InputTypeOK
<1>5. QED
  BY <1>3, <1>4 DEF Work

\* The call of a write leaves the types of the input channel.
LEMMA WorkType ==
  ASSUME InputTypeOK, WriteInv, Work
  PROVE  InputTypeOK'
<1>1. /\ chain # <<>> /\ UNCHANGED <<client, greeting>> /\ step' \in Step
      /\ Goes \/ \E ok \in BOOLEAN : EndsWrite(ok)
  BY WorkMoves
<1>2. CASE Goes
  BY <1>1, <1>2, NotesType DEF Goes, InputTypeOK, Step
<1>3. CASE \E ok \in BOOLEAN : EndsWrite(ok)
  <2>1. PICK ok \in BOOLEAN : EndsWrite(ok)
    BY <1>3
  <2> DEFINE w == Head(chain)
  <2>2. w \in Write /\ w = chain[1] /\ Tail(chain) \in Seq(Write)
    BY <1>1, HeadFields
  <2>3. chain' = Tail(chain) /\ step' = "start"
    BY <2>1 DEF EndsWrite, Finish
  <2>4. CASE w.from \in Conn
    <3>1. inbox[w.from] # <<>>
      BY <1>1, <2>2, <2>4 DEF WriteInv, InputTypeOK
    <3>2. inbox' \in [Conn -> Seq(Message)] /\ acks' \in [Conn -> Seq(Ack)]
      BY <2>1, <2>4, <3>1, AnswerType DEF EndsWrite, Finish
    <3>3. said' = said
      BY <2>1, <2>4 DEF EndsWrite, Finish
    <3>4. w.n \in 1..MaxSent
      BY <2>2, <2>4, PaneInputAssumption DEF Write
    <3>5. taken[w.from] \in Seq(1..MaxSent)
      BY <2>4 DEF InputTypeOK
    <3>6. Append(taken[w.from], w.n) \in Seq(1..MaxSent)
      BY <3>4, <3>5
    <3>7. taken' \in [Conn -> Seq(1..MaxSent)]
      BY <2>1, <3>6 DEF EndsWrite, Took, InputTypeOK
    <3>8. QED
      BY <1>1, <2>2, <2>3, <3>2, <3>3, <3>7, NotesType DEF InputTypeOK, Ack, Step
  <2>5. CASE w.from \notin Conn
    <3>1. said' \in [Prompt -> {"unsent", "waiting", "delivered", "failed"}]
      BY <2>1, <2>5 DEF EndsWrite, Finish, InputTypeOK
    <3>2. UNCHANGED <<inbox, acks, taken>>
      BY <2>1, <2>5 DEF EndsWrite, Finish
    <3>3. QED
      BY <1>1, <2>2, <2>3, <3>1, <3>2, NotesType DEF InputTypeOK, Step
  <2>6. QED
    BY <2>4, <2>5
<1>4. QED
  BY <1>1, <1>2, <1>3

\* Every other step of Next that touches the channels.
LEMMA ChannelsType ==
  ASSUME InputTypeOK, WriteInv,
         NEW c \in Conn,
         \/ \E kind \in Kind \cup {"bad"} : Send(c, kind)
         \/ ReadAck(c) \/ Handle(c) \/ Disconnect(c)
  PROVE  InputTypeOK'
<1>0. /\ client[c] \in Client /\ inbox[c] \in Seq(Message) /\ acks[c] \in Seq(Ack)
      /\ client[c].pending \in Seq(1..MaxSent) /\ client[c].sent \in 0..MaxSent
      /\ client[c].undelivered \in BOOLEAN /\ client[c].odd \in BOOLEAN
  BY DEF InputTypeOK, Client, Ack
<1>1. CASE \E kind \in Kind \cup {"bad"} : Send(c, kind)
  <2>1. PICK kind \in Kind \cup {"bad"} : Send(c, kind)
    BY <1>1
  <2> DEFINE n == client[c].sent + 1
  <2>2. n \in 1..MaxSent
    BY <1>0, <2>1, PaneInputAssumption DEF Send
  <2>3. Append(client[c].pending, n) \in Seq(1..MaxSent)
    BY <1>0, <2>2
  <2>4. [n |-> n, kind |-> kind] \in Message
    BY <2>2 DEF Message
  <2>5. Append(inbox[c], [n |-> n, kind |-> kind]) \in Seq(Message)
    BY <1>0, <2>4
  <2>6. client' \in [Conn -> Client] /\ inbox' \in [Conn -> Seq(Message)]
    <3>1. [client[c] EXCEPT !.sent = n, !.pending = Append(@, n)] \in Client
      <4>1. n \in 0..MaxSent
        BY <2>2, PaneInputAssumption
      <4> HIDE DEF n
      <4>2. QED
        BY <1>0, <2>3, <4>1 DEF Client
    <3>2. client' \in [Conn -> Client]
      <4>1. client \in [Conn -> Client]
        BY DEF InputTypeOK, Client
      <4>2. client' = [client EXCEPT ![c] = [client[c] EXCEPT !.sent = n, !.pending = Append(@, n)]]
        BY <2>1, Zenon DEF Send
      <4>3. QED
        BY <3>1, <4>1, <4>2, Zenon
    <3>3. inbox' \in [Conn -> Seq(Message)]
      BY <2>1, <2>5 DEF Send, InputTypeOK
    <3>4. QED
      BY <3>2, <3>3
  <2>7. QED
    BY <2>1, <2>6 DEF Send, InputTypeOK, Client
<1>2. CASE ReadAck(c)
  <2>1. acks[c] # <<>> /\ Tail(acks[c]) \in Seq(Ack)
    BY <1>0, <1>2 DEF ReadAck
  <2>2. Head(acks[c]) \in Ack
    BY <1>0, <2>1
  <2>3. client[c].pending # <<>> => Tail(client[c].pending) \in Seq(1..MaxSent)
    <3>1. \A s \in Seq(1..MaxSent) : s # <<>> => Tail(s) \in Seq(1..MaxSent)
      OBVIOUS
    <3>2. QED
      BY <1>0, <3>1
  <2>4. client' \in [Conn -> Client]
    BY <1>0, <1>2, <2>2, <2>3 DEF ReadAck, InputTypeOK, Client, Ack
  <2>5. QED
    BY <1>2, <2>1, <2>4 DEF ReadAck, InputTypeOK, Client, Ack
<1>3. CASE Handle(c)
  <2>1. inbox[c] # <<>> /\ Head(inbox[c]) \in Message
    BY <1>0, <1>3 DEF Handle
  <2>2. CASE Head(inbox[c]).kind = "bad"
    <3>1. inbox' \in [Conn -> Seq(Message)] /\ acks' \in [Conn -> Seq(Ack)]
      BY <1>3, <2>1, <2>2, AnswerType DEF Handle
    <3>2. QED
      BY <1>3, <2>2, <3>1 DEF Handle, InputTypeOK, Ack
  <2>3. CASE Head(inbox[c]).kind # "bad"
    <3>1. [from |-> c, kind |-> Head(inbox[c]).kind, n |-> Head(inbox[c]).n] \in Write
      BY <2>1, <2>3 DEF Write, Message
    <3>2. Append(chain, [from |-> c, kind |-> Head(inbox[c]).kind, n |-> Head(inbox[c]).n]) \in Seq(Write)
      BY <3>1 DEF InputTypeOK
    <3>3. chain' # <<>>
      BY <1>3, <2>3, <3>1 DEF Handle, InputTypeOK
    <3>4. QED
      BY <1>3, <2>3, <3>2, <3>3 DEF Handle, InputTypeOK
  <2>4. QED
    BY <2>2, <2>3
<1>4. CASE Disconnect(c)
  <2>1. PICK k \in 0..Len(inbox[c]) : inbox' = [inbox EXCEPT ![c] = SubSeq(@, 1, k)]
    BY <1>4 DEF Disconnect
  <2>2. SubSeq(inbox[c], 1, k) \in Seq(Message)
    BY <1>0
  <2>3. inbox' \in [Conn -> Seq(Message)]
    BY <2>1, <2>2 DEF InputTypeOK
  <2>4. <<>> \in Seq(1..MaxSent) /\ <<>> \in Seq(Ack)
    OBVIOUS
  <2>5. client' \in [Conn -> Client]
    BY <1>0, <1>4, <2>4 DEF Disconnect, InputTypeOK, Client
  <2>6. acks' \in [Conn -> Seq(Ack)]
    BY <1>4, <2>4 DEF Disconnect, InputTypeOK, Ack
  <2>7. QED
    BY <1>4, <2>3, <2>5, <2>6 DEF Disconnect, InputTypeOK, Client, Ack
<1>5. QED
  BY <1>1, <1>2, <1>3, <1>4

\* Every step keeps the types.
LEMMA TypeStep ==
  ASSUME TypeOK, WriteInv, Next
  PROVE  TypeOK'
<1>1. PaneTypeOK(Item)'
  <2>1. CASE Work
    BY <2>1, WorkKeys, KeyType DEF TypeOK
  <2>2. CASE Greet \/ Down
    BY <2>2, KeyType DEF TypeOK, Greet, Down
  <2>3. CASE End \/ Forget
    BY <2>3 DEF TypeOK, PaneTypeOK, End, Forget
  <2>4. CASE UNCHANGED pane
    BY <2>4, KeyType DEF TypeOK
  <2>5. QED
    BY <2>1, <2>2, <2>3, <2>4 DEF Next, Arrive, Type, Poll, Reads, Channel, Open, SendPrompt,
       Send, Tick, Capture, Deliver, Subscribe, Leave, ReadAck, Handle, Disconnect
<1>2. InputTypeOK'
  <2>1. CASE Work
    BY <2>1, WorkType DEF TypeOK
  <2>2. CASE Greet \/ Down
    <3>1. mishaps' \in 0..MaxMishaps /\ disturbed' \subseteq Prompt
      <4>1. CASE Down
        <5>1. Heads({"prompt"}) => Head(chain).from \in Prompt
          BY HeadFields DEF TypeOK, Heads
        <5>2. QED
          BY <4>1, <5>1, PaneInputAssumption DEF Down, Mishap, Disturbs, TypeOK, InputTypeOK
      <4>2. QED
        BY <2>2, <4>1 DEF Greet, TypeOK, InputTypeOK
    <3>2. UNCHANGED <<client, inbox, acks, taken, chain, step, said>> /\ greeting' \in BOOLEAN
      BY <2>2 DEF Greet, Down, TypeOK, InputTypeOK
    <3>3. QED
      BY <3>1, <3>2 DEF TypeOK, InputTypeOK
  <2>3. CASE \E p \in Prompt : SendPrompt(p)
    <3>1. PICK p \in Prompt : SendPrompt(p)
      BY <2>3
    <3>2. [from |-> p, kind |-> "prompt", n |-> 0] \in Write
      BY DEF Write
    <3>3. /\ Append(chain, [from |-> p, kind |-> "prompt", n |-> 0]) \in Seq(Write)
          /\ Append(chain, [from |-> p, kind |-> "prompt", n |-> 0]) # <<>>
      <4>1. chain \in Seq(Write)
        BY DEF TypeOK, InputTypeOK
      <4>2. QED
        BY <3>2, <4>1, Longer
    <3>4. QED
      BY <3>1, <3>3 DEF TypeOK, InputTypeOK, SendPrompt
  <2>4. CASE \E c \in Conn : \/ \E kind \in Kind \cup {"bad"} : Send(c, kind)
                             \/ ReadAck(c) \/ Handle(c) \/ Disconnect(c)
    BY <2>4, ChannelsType DEF TypeOK
  <2>5. CASE UNCHANGED inputVars
    BY <2>5 DEF TypeOK, InputTypeOK, inputVars
  <2>6. QED
    BY <2>1, <2>2, <2>3, <2>4, <2>5 DEF Next, Arrive, Type, Poll, Reads, Channel
<1>3. HubTypeOK'
  <2>1. CASE \E r \in Reader : Open(r)
    BY <2>1 DEF Open, TypeOK, HubTypeOK, Looping
  <2>2. CASE Tick \/ Nudge
    BY <2>2 DEF Tick, Nudge, TickNow, Reading, TypeOK, HubTypeOK, Looping
  <2>3. CASE \E s \in Read : Capture(s)
    BY <2>3, HubAssumption DEF Capture, TypeOK, HubTypeOK, Looping
  <2>4. CASE \E s \in Read : Deliver(s)
    <3>1. PICK s \in Read : Deliver(s)
      BY <2>4
    <3>0. /\ DOMAIN reads' = Read /\ DOMAIN shows' = Reader /\ UNCHANGED throws
          /\ reader' \in [Reader ->
               {"away", "asking", "left", "watching", "orphan", "closed", "ended"}]
      BY <3>1 DEF Deliver, TypeOK, HubTypeOK
    <3>2. CASE entry' = NoEntry
      BY <3>0, <3>2, EntryType DEF TypeOK
    <3>3. CASE entry.sinks # {} /\ entry' = Idle(entry)
      <4>1. entry' = [sinks |-> entry.sinks, busy |-> FALSE, frame |-> entry.frame]
        BY <3>3 DEF Idle, TypeOK, HubTypeOK
      <4>2. QED
        BY <3>0, <3>3, <4>1, EntryType DEF TypeOK, HubTypeOK
    <3>4. CASE entry.sinks # {} /\ entry' = [Idle(entry) EXCEPT !.frame = reads[s]]
      <4>1. PICK e : e = Idle(entry)
        OBVIOUS
      <4>2. e = [sinks |-> entry.sinks, busy |-> FALSE, frame |-> entry.frame]
        BY <4>1 DEF Idle, TypeOK, HubTypeOK
      <4>3. entry' = [e EXCEPT !.frame = reads[s]]
        BY <3>4, <4>1, Zenon
      <4>4. entry' = [sinks |-> entry.sinks, busy |-> FALSE, frame |-> reads[s]]
        BY <4>2, <4>3
      <4>5. QED
        BY <3>0, <3>4, <4>4, EntryType DEF TypeOK, HubTypeOK
    <3>5. entry' = Received(reads[s])
      BY <3>1, Zenon DEF Deliver
    <3>6. \/ ~Looping /\ entry' = NoEntry
          \/ entry' = NoEntry
          \/ Looping /\ entry' = Idle(entry)
          \/ Looping /\ entry' = [Idle(entry) EXCEPT !.frame = reads[s]]
      BY <3>5 DEF Received
    <3>7. QED
      BY <3>2, <3>3, <3>4, <3>6 DEF Looping
  <2>5. CASE \E r \in Reader : Subscribe(r)
    <3>1. PICK r \in Reader : Subscribe(r)
      BY <2>5
    <3>2. reader' \in [Reader ->
            {"away", "asking", "left", "watching", "orphan", "closed", "ended"}]
      BY <3>1 DEF Subscribe, TypeOK, HubTypeOK
    <3>3. CASE Joined(r)
      BY <3>1, <3>2, <3>3 DEF Subscribe, Joined, TypeOK, HubTypeOK, Looping
    <3>4. CASE Started(r)
      BY <3>1, <3>2, <3>4 DEF Subscribe, Started, Reading, TypeOK, HubTypeOK, Looping
    <3>5. CASE UNCHANGED <<entry, reads, shows>>
      BY <3>1, <3>2, <3>5 DEF Subscribe, TypeOK, HubTypeOK, Looping
    <3>6. QED
      BY <3>1, <3>3, <3>4, <3>5 DEF Subscribe
  <2>6. CASE \E r \in Reader : Leave(r)
    <3>1. PICK r \in Reader : Leave(r)
      BY <2>6
    <3>2. /\ UNCHANGED <<pane, reads, throws>> /\ shows' = [shows EXCEPT ![r] = Blank]
          /\ entry' \in {entry, NoEntry, [entry EXCEPT !.sinks = @ \ {r}]}
          /\ entry.sinks # {r} \/ entry' \in {entry, NoEntry}
          /\ \/ reader' = [reader EXCEPT ![r] = "left"]
             \/ reader' = [reader EXCEPT ![r] = "closed"]
      BY <3>1 DEF Leave
    <3>0. /\ DOMAIN reads' = Read /\ DOMAIN shows' = Reader
          /\ reader' \in [Reader ->
               {"away", "asking", "left", "watching", "orphan", "closed", "ended"}]
      BY <3>2 DEF TypeOK, HubTypeOK
    <3>3. CASE entry' \in {entry, NoEntry}
      BY <3>0, <3>2, <3>3, EntryType DEF TypeOK
    <3>4. CASE entry' = [entry EXCEPT !.sinks = @ \ {r}] /\ entry.sinks # {r}
      <4>1. entry' = [sinks |-> entry.sinks \ {r}, busy |-> entry.busy, frame |-> entry.frame]
        BY <3>4 DEF TypeOK, HubTypeOK
      <4>2. CASE entry.sinks \ {r} = {}
        <5>1. entry.sinks = {}
          BY <3>4, <4>2
        <5>2. entry' = NoEntry
          BY <4>1, <5>1 DEF TypeOK, HubTypeOK, Looping, NoEntry
        <5>3. QED
          BY <3>0, <3>2, <5>2, EntryType DEF TypeOK
      <4>3. CASE entry.sinks \ {r} # {}
        BY <3>0, <3>2, <4>1, <4>3, EntryType DEF TypeOK, HubTypeOK
      <4>4. QED
        BY <4>2, <4>3
    <3>5. QED
      BY <3>2, <3>3, <3>4
  <2>7. CASE UNCHANGED hubVars
    BY <2>7 DEF hubVars, TypeOK, HubTypeOK, Looping
  <2>8. QED
    BY <2>1, <2>2, <2>3, <2>4, <2>5, <2>6, <2>7 DEF Next, Arrive, Type, Poll, Reads, Channel
<1>4. QED
  BY <1>1, <1>2, <1>3 DEF TypeOK

-----------------------------------------------------------------------------
(* The hub.                                                                *)

LEMMA HubStarts == Init => ServedExactly
BY DEF Init, HubInit, NoEntry, ServedExactly, Watching

\* Every step keeps the set of pages the hub serves that of the pages that watch.
LEMMA HubStep ==
  ASSUME HubTypeOK, ServedExactly, Next
  PROVE  ServedExactly'
<1>1. CASE \E r \in Reader : Open(r)
  BY <1>1 DEF Open, HubTypeOK, ServedExactly, Watching
<1>2. CASE Tick \/ Nudge
  <2>1. reader' = reader /\ entry'.sinks = entry.sinks
    BY <1>2 DEF Tick, Nudge, TickNow, HubTypeOK
  <2>2. QED
    BY <2>1 DEF ServedExactly, Watching
<1>3. CASE \E s \in Read : Capture(s)
  BY <1>3 DEF Capture, ServedExactly, Watching
<1>4. CASE \E s \in Read : Deliver(s)
  <2>1. PICK s \in Read : Deliver(s)
    BY <1>4
  <2>2. entry' = Received(reads[s])
    BY <2>1, Zenon DEF Deliver
  <2>3. \/ entry'.sinks = {} /\ (reads[s] = Gone \/ entry.sinks = {})
        \/ entry'.sinks = entry.sinks /\ reads[s] # Gone
    BY <2>2 DEF Received, Idle, NoEntry, Looping, HubTypeOK
  <2>4. \A r \in Reader :
          reader'[r] = IF reads[s] = Gone /\ r \in entry.sinks THEN "ended" ELSE reader[r]
    BY <2>1 DEF Deliver
  <2>5. QED
    BY <2>3, <2>4 DEF ServedExactly, Watching, HubTypeOK
<1>5. CASE \E r \in Reader : Subscribe(r)
  <2>1. PICK r \in Reader : Subscribe(r)
    BY <1>5
  <2>2. CASE pane.managed
    <3>1. entry'.sinks = entry.sinks \cup {r}
      BY <2>1, <2>2 DEF Subscribe, Joined, Started, Looping, HubTypeOK
    <3>2. reader' = [reader EXCEPT ![r] = IF @ = "left" THEN "orphan" ELSE "watching"]
      BY <2>1, <2>2 DEF Subscribe
    <3>3. QED
      BY <3>1, <3>2 DEF ServedExactly, Watching, HubTypeOK
  <2>3. CASE ~pane.managed
    BY <2>1, <2>3 DEF Subscribe, ServedExactly, Watching, HubTypeOK
  <2>4. QED
    BY <2>2, <2>3
<1>6. CASE \E r \in Reader : Leave(r)
  <2>1. PICK r \in Reader : Leave(r)
    BY <1>6
  <2>2. CASE reader[r] = "asking"
    BY <2>1, <2>2 DEF Leave, ServedExactly, Watching, HubTypeOK
  <2>3. CASE reader[r] = "watching"
    <3>1. reader' = [reader EXCEPT ![r] = "closed"]
      BY <2>1, <2>3 DEF Leave
    <3>2. entry'.sinks = entry.sinks \ {r}
      BY <2>1, <2>3 DEF Leave, NoEntry, HubTypeOK
    <3>3. QED
      BY <3>1, <3>2 DEF ServedExactly, Watching, HubTypeOK
  <2>4. QED
    BY <2>1, <2>2, <2>3 DEF Leave
<1>7. CASE UNCHANGED hubVars
  BY <1>7 DEF hubVars, ServedExactly, Watching
<1>8. QED
  BY <1>1, <1>2, <1>3, <1>4, <1>5, <1>6, <1>7 DEF Next, Arrive, Type, Poll, Reads, Channel

-----------------------------------------------------------------------------
(* The channels, one connection at a time.                                 *)

Same(c) == /\ client'[c] = client[c] /\ inbox'[c] = inbox[c]
           /\ acks'[c] = acks[c] /\ taken'[c] = taken[c]

\* What leaves a connection alone keeps what is known of it.
LEMMA SameConn ==
  ASSUME NEW c, Same(c), ConnInv(c)
  PROVE  ConnInv(c)'
BY DEF Same, ConnInv, Expected, AllOk, TookAll

\* The parts of a connection.
LEMMA ConnTypes ==
  ASSUME InputTypeOK, NEW c \in Conn
  PROVE  /\ client[c] \in Client /\ client[c].sent \in Nat
         /\ client[c].pending \in Seq(1..MaxSent) /\ inbox[c] \in Seq(Message)
         /\ acks[c] \in Seq(Ack) /\ taken[c] \in Seq(1..MaxSent)
<1>1. /\ client[c] \in Client /\ inbox[c] \in Seq(Message)
      /\ acks[c] \in Seq(Ack) /\ taken[c] \in Seq(1..MaxSent)
  BY DEF InputTypeOK, Client, Ack
<1>2. QED
  BY <1>1, PaneInputAssumption DEF Client

\* What a sequence is once it has grown, or lost its head.
LEMMA Grown ==
  ASSUME NEW S, NEW s \in Seq(S), NEW e \in S, NEW t, t = Append(s, e)
  PROVE  /\ Len(t) = Len(s) + 1 /\ Len(s) \in Nat /\ t[Len(s) + 1] = e
         /\ \A i \in 1..Len(s) : t[i] = s[i]
OBVIOUS

\* The elements of a sequence without its first.
LEMMA Beheaded ==
  ASSUME NEW S, NEW s \in Seq(S), s # <<>>, NEW t, t = Tail(s)
  PROVE  /\ Len(t) = Len(s) - 1 /\ Len(s) \in Nat \ {0} /\ Head(s) = s[1] /\ s[1] \in S
         /\ \A i \in 1..Len(t) : t[i] = s[i + 1]
OBVIOUS

\* A message more is sent.
LEMMA OwedGrows ==
  ASSUME NEW S, NEW T, NEW U, NEW due \in Seq(S), NEW done \in Seq(T), NEW left \in Seq(U),
         Owed(due, done, left), NEW m \in U, m.n \in S,
         NEW owed, owed = Append(due, m.n), NEW more, more = Append(left, m)
  PROVE  Owed(owed, done, more)
<1>1. /\ Len(owed) = Len(due) + 1 /\ Len(due) \in Nat /\ owed[Len(due) + 1] = m.n
      /\ \A i \in 1..Len(due) : owed[i] = due[i]
  BY Grown
<1>2. /\ Len(more) = Len(left) + 1 /\ Len(left) \in Nat /\ more[Len(left) + 1] = m
      /\ \A i \in 1..Len(left) : more[i] = left[i]
  BY Grown
<1>3. Len(done) \in Nat
  OBVIOUS
<1>4. /\ Len(due) = Len(done) + Len(left)
      /\ \A i \in 1..Len(done) : due[i] = done[i].n
      /\ \A i \in 1..Len(left) : due[Len(done) + i] = left[i].n
  BY DEF Owed
<1>5. \A i \in 1..Len(done) : owed[i] = done[i].n
  BY <1>1, <1>2, <1>3, <1>4
<1>6. \A i \in 1..Len(more) : owed[Len(done) + i] = more[i].n
  <2> SUFFICES ASSUME NEW i \in 1..Len(more) PROVE owed[Len(done) + i] = more[i].n
    OBVIOUS
  <2>1. CASE i = Len(left) + 1
    <3>1. Len(done) + i = Len(due) + 1
      BY <1>2, <1>3, <1>4, <2>1
    <3>2. QED
      BY <1>1, <1>2, <2>1, <3>1
  <2>2. CASE i # Len(left) + 1
    <3>1. i \in 1..Len(left) /\ Len(done) + i \in 1..Len(due)
      BY <1>2, <1>3, <1>4, <2>2
    <3>2. QED
      BY <1>1, <1>2, <1>4, <3>1
  <2>3. QED
    BY <2>1, <2>2
<1>7. QED
  BY <1>1, <1>2, <1>3, <1>4, <1>5, <1>6 DEF Owed

\* The first answer is read.
LEMMA OwedPaid ==
  ASSUME NEW S, NEW T, NEW U, NEW due \in Seq(S), NEW done \in Seq(T), NEW left \in Seq(U),
         Owed(due, done, left), done # <<>>
  PROVE  /\ due # <<>> /\ Head(due) = Head(done).n
         /\ Owed(Tail(due), Tail(done), left)
<1>1. Len(due) \in Nat /\ Len(done) \in Nat \ {0} /\ Len(left) \in Nat
  OBVIOUS
<1>2. /\ Len(due) = Len(done) + Len(left)
      /\ \A i \in 1..Len(done) : due[i] = done[i].n
      /\ \A i \in 1..Len(left) : due[Len(done) + i] = left[i].n
  BY DEF Owed
<1>3. due # <<>>
  BY <1>1, <1>2
<1>4. PICK owed, rest : owed = Tail(due) /\ rest = Tail(done)
  OBVIOUS
<1>5. /\ Len(owed) = Len(due) - 1 /\ Head(due) = due[1]
      /\ \A i \in 1..Len(owed) : owed[i] = due[i + 1]
  BY <1>3, <1>4, Beheaded
<1>6. /\ Len(rest) = Len(done) - 1 /\ Head(done) = done[1]
      /\ \A i \in 1..Len(rest) : rest[i] = done[i + 1]
  BY <1>4, Beheaded
<1>7. Head(due) = Head(done).n
  BY <1>1, <1>2, <1>5, <1>6
<1>8. \A i \in 1..Len(rest) : owed[i] = rest[i].n
  <2> SUFFICES ASSUME NEW i \in 1..Len(rest) PROVE owed[i] = rest[i].n
    OBVIOUS
  <2>1. i + 1 \in 1..Len(done) /\ i \in 1..Len(owed)
    BY <1>1, <1>2, <1>5, <1>6
  <2>2. QED
    BY <1>2, <1>5, <1>6, <2>1
<1>9. \A i \in 1..Len(left) : owed[Len(rest) + i] = left[i].n
  <2> SUFFICES ASSUME NEW i \in 1..Len(left) PROVE owed[Len(rest) + i] = left[i].n
    OBVIOUS
  <2>1. Len(rest) + i \in 1..Len(owed) /\ (Len(rest) + i) + 1 = Len(done) + i
    BY <1>1, <1>2, <1>5, <1>6
  <2>2. QED
    BY <1>2, <1>5, <2>1
<1>10. Len(owed) = Len(rest) + Len(left)
  BY <1>1, <1>2, <1>5, <1>6
<1>11. QED
  BY <1>3, <1>4, <1>7, <1>8, <1>9, <1>10 DEF Owed

\* The first message left is answered.
LEMMA OwedMoves ==
  ASSUME NEW S, NEW T, NEW U, NEW due \in Seq(S), NEW done \in Seq(T), NEW left \in Seq(U),
         Owed(due, done, left), left # <<>>,
         NEW k \in T, k.n = Head(left).n
  PROVE  Owed(due, Append(done, k), Tail(left))
<1>1. Len(due) \in Nat /\ Len(done) \in Nat /\ Len(left) \in Nat \ {0}
  OBVIOUS
<1>2. /\ Len(due) = Len(done) + Len(left)
      /\ \A i \in 1..Len(done) : due[i] = done[i].n
      /\ \A i \in 1..Len(left) : due[Len(done) + i] = left[i].n
  BY DEF Owed
<1>3. PICK paid, rest : paid = Append(done, k) /\ rest = Tail(left)
  OBVIOUS
<1>4. /\ Len(rest) = Len(left) - 1 /\ Head(left) = left[1]
      /\ \A i \in 1..Len(rest) : rest[i] = left[i + 1]
  BY <1>3, Beheaded
<1>5. /\ Len(paid) = Len(done) + 1 /\ paid[Len(done) + 1] = k
      /\ \A i \in 1..Len(done) : paid[i] = done[i]
  BY <1>3, Grown
<1>6. \A i \in 1..Len(paid) : due[i] = paid[i].n
  <2> SUFFICES ASSUME NEW i \in 1..Len(paid) PROVE due[i] = paid[i].n
    OBVIOUS
  <2>1. CASE i = Len(done) + 1
    BY <1>1, <1>2, <1>4, <1>5, <2>1
  <2>2. CASE i # Len(done) + 1
    <3>1. i \in 1..Len(done)
      BY <1>1, <1>5, <2>2
    <3>2. QED
      BY <1>2, <1>5, <3>1
  <2>3. QED
    BY <2>1, <2>2
<1>7. \A i \in 1..Len(rest) : due[Len(paid) + i] = rest[i].n
  <2> SUFFICES ASSUME NEW i \in 1..Len(rest) PROVE due[Len(paid) + i] = rest[i].n
    OBVIOUS
  <2>1. i + 1 \in 1..Len(left) /\ Len(paid) + i = Len(done) + (i + 1)
    BY <1>1, <1>4, <1>5
  <2>2. QED
    BY <1>2, <1>4, <2>1
<1>8. Len(due) = Len(paid) + Len(rest)
  BY <1>1, <1>2, <1>4, <1>5
<1>9. QED
  BY <1>3, <1>6, <1>7, <1>8 DEF Owed

\* The message after the last is sent.
LEMMA CountedGrows ==
  ASSUME NEW S, NEW U, NEW sent \in Nat, NEW took \in Seq(S), NEW left \in Seq(U),
         Counted(sent, took, left), NEW m \in U, m.n = sent + 1,
         NEW more, more = Append(left, m)
  PROVE  Counted(sent + 1, took, more)
<1>1. /\ Len(more) = Len(left) + 1 /\ Len(left) \in Nat /\ more[Len(left) + 1] = m
      /\ \A i \in 1..Len(left) : more[i] = left[i]
  BY Grown
<1>2. Len(took) \in Nat
  OBVIOUS
<1>3. /\ sent = Len(took) + Len(left)
      /\ \A i \in 1..Len(took) : took[i] = i
      /\ \A i \in 1..Len(left) : left[i].n = Len(took) + i
  BY DEF Counted
<1>4. \A i \in 1..Len(more) : more[i].n = Len(took) + i
  <2> SUFFICES ASSUME NEW i \in 1..Len(more) PROVE more[i].n = Len(took) + i
    OBVIOUS
  <2>1. CASE i = Len(left) + 1
    BY <1>1, <1>2, <1>3, <2>1
  <2>2. CASE i # Len(left) + 1
    <3>1. i \in 1..Len(left)
      BY <1>1, <2>2
    <3>2. QED
      BY <1>1, <1>3, <3>1
  <2>3. QED
    BY <2>1, <2>2
<1>5. sent + 1 = Len(took) + Len(more)
  BY <1>1, <1>2, <1>3
<1>6. QED
  BY <1>3, <1>4, <1>5 DEF Counted

\* tmux takes the first message left.
LEMMA CountedMoves ==
  ASSUME NEW S, NEW U, NEW sent \in Nat, NEW took \in Seq(S), NEW left \in Seq(U),
         Counted(sent, took, left), left # <<>>, NEW n \in S, n = Head(left).n
  PROVE  Counted(sent, Append(took, n), Tail(left))
<1>1. PICK had, rest : had = Append(took, n) /\ rest = Tail(left)
  OBVIOUS
<1>2. /\ Len(rest) = Len(left) - 1 /\ Len(left) \in Nat \ {0} /\ Head(left) = left[1]
      /\ \A i \in 1..Len(rest) : rest[i] = left[i + 1]
  BY <1>1, Beheaded
<1>3. /\ Len(had) = Len(took) + 1 /\ Len(took) \in Nat /\ had[Len(took) + 1] = n
      /\ \A i \in 1..Len(took) : had[i] = took[i]
  BY <1>1, Grown
<1>4. /\ sent = Len(took) + Len(left)
      /\ \A i \in 1..Len(took) : took[i] = i
      /\ \A i \in 1..Len(left) : left[i].n = Len(took) + i
  BY DEF Counted
<1>5. \A i \in 1..Len(had) : had[i] = i
  <2> SUFFICES ASSUME NEW i \in 1..Len(had) PROVE had[i] = i
    OBVIOUS
  <2>1. CASE i = Len(took) + 1
    BY <1>2, <1>3, <1>4, <2>1
  <2>2. CASE i # Len(took) + 1
    <3>1. i \in 1..Len(took)
      BY <1>3, <2>2
    <3>2. QED
      BY <1>3, <1>4, <3>1
  <2>3. QED
    BY <2>1, <2>2
<1>6. \A i \in 1..Len(rest) : rest[i].n = Len(had) + i
  <2> SUFFICES ASSUME NEW i \in 1..Len(rest) PROVE rest[i].n = Len(had) + i
    OBVIOUS
  <2>1. i + 1 \in 1..Len(left) /\ Len(had) + i = Len(took) + (i + 1)
    BY <1>2, <1>3
  <2>2. QED
    BY <1>2, <1>4, <2>1
<1>7. sent = Len(had) + Len(rest)
  BY <1>2, <1>3, <1>4
<1>8. QED
  BY <1>1, <1>5, <1>6, <1>7 DEF Counted

\* The page sends a message.
LEMMA SendStep ==
  ASSUME InputTypeOK, NEW c \in Conn, ConnInv(c), NEW kind \in Kind \cup {"bad"},
         Send(c, kind)
  PROVE  ConnInv(c)'
<1>0. /\ client[c] \in Client /\ client[c].sent \in Nat
      /\ client[c].pending \in Seq(1..MaxSent) /\ inbox[c] \in Seq(Message)
      /\ acks[c] \in Seq(Ack) /\ taken[c] \in Seq(1..MaxSent)
  BY ConnTypes
<1>1. PICK n, m, due :
        /\ n = client[c].sent + 1 /\ m = [n |-> n, kind |-> kind]
        /\ due = Append(client[c].pending, n)
  OBVIOUS
<1>2. /\ client[c].open /\ n \in 1..MaxSent /\ acks'[c] = acks[c] /\ taken'[c] = taken[c]
      /\ client'[c] = [client[c] EXCEPT !.sent = n, !.pending = due]
      /\ inbox'[c] = Append(inbox[c], m)
  BY <1>0, <1>1, PaneInputAssumption DEF Send, InputTypeOK
<1>3. m \in Message /\ m.n = n
  BY <1>1, <1>2 DEF Message
<1>4. /\ client'[c].open /\ client'[c].sent = n /\ client'[c].odd = client[c].odd
      /\ client'[c].undelivered = client[c].undelivered /\ client'[c].pending = due
  BY <1>0, <1>2 DEF Client
<1>5. Expected(c)'
  <2>1. Owed(due, acks[c], inbox'[c])
    <3>1. Owed(client[c].pending, acks[c], inbox[c])
      BY <1>2 DEF ConnInv, Expected
    <3>2. m.n \in 1..MaxSent /\ due = Append(client[c].pending, m.n)
      BY <1>1, <1>2, <1>3
    <3>3. PICK more : more = inbox'[c]
      OBVIOUS
    <3>4. more = Append(inbox[c], m)
      BY <1>2, <3>3
    <3>5. Owed(due, acks[c], more)
      BY <1>0, <1>3, <3>1, <3>2, <3>4, OwedGrows
    <3>6. QED
      BY <3>3, <3>5
  <2>2. QED
    BY <1>2, <1>4, <2>1 DEF Expected
<1>6. AllOk(c)' => TookAll(c)'
  <2>1. SUFFICES ASSUME AllOk(c)' PROVE TookAll(c)'
    OBVIOUS
  <2>2. TookAll(c)
    BY <1>2, <1>4, <2>1 DEF ConnInv, AllOk
  <2>3. Counted(client[c].sent + 1, taken[c], inbox'[c])
    BY <1>0, <1>1, <1>2, <1>3, <2>2, CountedGrows DEF TookAll
  <2>4. QED
    BY <1>1, <1>2, <1>4, <2>3 DEF TookAll
<1>7. QED
  BY <1>2, <1>4, <1>5, <1>6 DEF ConnInv

\* The page reads an answer.
LEMMA ReadStep ==
  ASSUME InputTypeOK, NEW c \in Conn, ConnInv(c), ReadAck(c)
  PROVE  ConnInv(c)'
<1>0. /\ client[c] \in Client /\ client[c].sent \in Nat
      /\ client[c].pending \in Seq(1..MaxSent) /\ inbox[c] \in Seq(Message)
      /\ acks[c] \in Seq(Ack) /\ taken[c] \in Seq(1..MaxSent)
  BY ConnTypes
<1>1. acks[c] # <<>> /\ acks'[c] = Tail(acks[c]) /\ inbox'[c] = inbox[c] /\ taken'[c] = taken[c]
  BY DEF ReadAck, InputTypeOK
<1>2. client[c].open /\ Owed(client[c].pending, acks[c], inbox[c])
  BY <1>0, <1>1 DEF ConnInv, Client, Expected
<1>3. PICK ack, due, un : /\ ack = Head(acks[c]) /\ due = Tail(client[c].pending)
                         /\ un = (client[c].undelivered \/ ~ack.ok)
  OBVIOUS
<1>4. client[c].pending # <<>> /\ Head(client[c].pending) = ack.n /\ Owed(due, acks'[c], inbox[c])
  BY <1>0, <1>1, <1>2, <1>3, OwedPaid
<1>5. client'[c] = [client[c] EXCEPT !.pending = due, !.undelivered = un]
  <2>1. client'[c] = IF client[c].pending = <<>> THEN client[c]
       ELSE IF Head(client[c].pending) # ack.n
       THEN [client[c] EXCEPT !.undelivered = TRUE, !.odd = TRUE]
       ELSE [client[c] EXCEPT !.pending = Tail(@), !.undelivered = @ \/ ~ack.ok]
    BY <1>3 DEF ReadAck, InputTypeOK
  <2>2. QED
    BY <1>3, <1>4, <2>1
<1>6. /\ client'[c].open /\ client'[c].sent = client[c].sent /\ client'[c].odd = client[c].odd
      /\ client'[c].undelivered = un /\ client'[c].pending = due
  BY <1>0, <1>2, <1>5 DEF Client
<1>7. Expected(c)'
  BY <1>1, <1>4, <1>6 DEF Expected
<1>8. AllOk(c)' => TookAll(c)'
  <2>1. SUFFICES ASSUME AllOk(c)' PROVE TookAll(c)'
    OBVIOUS
  <2>2. /\ Len(acks'[c]) = Len(acks[c]) - 1 /\ Len(acks[c]) \in Nat \ {0}
        /\ ack = acks[c][1]
        /\ \A i \in 1..Len(acks'[c]) : acks'[c][i] = acks[c][i + 1]
    BY <1>0, <1>1, <1>3, Beheaded
  <2>3. \A i \in 1..Len(acks[c]) : acks[c][i].ok
    <3> SUFFICES ASSUME NEW i \in 1..Len(acks[c]) PROVE acks[c][i].ok
      OBVIOUS
    <3>1. CASE i = 1
      BY <1>3, <1>6, <2>1, <2>2, <3>1 DEF AllOk
    <3>2. CASE i # 1
      <4>1. i - 1 \in 1..Len(acks'[c]) /\ (i - 1) + 1 = i
        BY <2>2, <3>2
      <4>2. QED
        BY <2>2, <2>1, <4>1 DEF AllOk
    <3>3. QED
      BY <3>1, <3>2
  <2>4. TookAll(c)
    BY <1>3, <1>6, <2>1, <2>3 DEF ConnInv, AllOk
  <2>5. QED
    BY <1>1, <1>6, <2>4 DEF TookAll
<1>9. QED
  BY <1>2, <1>6, <1>7, <1>8 DEF ConnInv

\* The socket closes.
LEMMA DisconnectStep ==
  ASSUME InputTypeOK, NEW c \in Conn, ConnInv(c), Disconnect(c)
  PROVE  ConnInv(c)'
<1>0. /\ client[c] \in Client /\ client[c].sent \in Nat
      /\ client[c].pending \in Seq(1..MaxSent) /\ inbox[c] \in Seq(Message)
      /\ acks[c] \in Seq(Ack) /\ taken[c] \in Seq(1..MaxSent)
  BY ConnTypes
<1>1. PICK k \in 0..Len(inbox[c]) : inbox'[c] = SubSeq(inbox[c], 1, k)
  BY DEF Disconnect, InputTypeOK
<1>2. PICK un : un = (client[c].undelivered \/ client[c].pending # <<>>)
  OBVIOUS
<1>3. /\ client[c].open /\ acks'[c] = <<>> /\ taken'[c] = taken[c]
      /\ client'[c] = [client[c] EXCEPT !.open = FALSE, !.pending = <<>>, !.undelivered = un]
  BY <1>2 DEF Disconnect, InputTypeOK
<1>4. /\ ~client'[c].open /\ client'[c].sent = client[c].sent /\ client'[c].odd = client[c].odd
      /\ client'[c].undelivered = un /\ client'[c].pending = <<>>
  BY <1>0, <1>3 DEF Client
<1>5. CASE client[c].pending = <<>>
  <2>1. Len(inbox[c]) = 0 /\ Len(acks[c]) = 0
    <3>1. PICK due, done, left : due = client[c].pending /\ done = acks[c] /\ left = inbox[c]
      OBVIOUS
    <3>2. Owed(due, done, left)
      BY <1>3, <3>1 DEF ConnInv, Expected
    <3>3. Len(due) = Len(done) + Len(left)
      BY <3>2 DEF Owed
    <3>4. Len(due) = 0 /\ Len(done) \in Nat /\ Len(left) \in Nat
      BY <1>0, <1>5, <3>1
    <3>5. Len(done) = 0 /\ Len(left) = 0
      <4>1. \A x, y \in Nat : 0 = x + y => x = 0 /\ y = 0
        OBVIOUS
      <4>2. 0 = Len(done) + Len(left)
        BY <3>3, <3>4
      <4>3. QED
        BY <3>4, <4>1, <4>2
    <3>6. QED
      BY <3>1, <3>5
  <2>2. inbox[c] = <<>> /\ acks[c] = <<>>
    BY <1>0, <2>1
  <2>3. k = 0
    BY <1>1, <2>1
  <2>4. inbox'[c] = <<>>
    BY <1>0, <1>1, <2>3
  <2>5. AllOk(c)' => TookAll(c)
    <3>1. \A i \in 1..Len(acks[c]) : acks[c][i].ok
      BY <2>1
    <3>2. AllOk(c)' => ~client[c].undelivered
      BY <1>2, <1>4 DEF AllOk
    <3>3. QED
      BY <3>1, <3>2 DEF ConnInv, AllOk
  <2>6. QED
    BY <1>3, <1>4, <2>2, <2>4, <2>5 DEF ConnInv, AllOk, TookAll
<1>6. CASE client[c].pending # <<>>
  BY <1>2, <1>3, <1>4, <1>6 DEF ConnInv, AllOk
<1>7. QED
  BY <1>5, <1>6

\* A message is answered; tmux has taken it, or the answer says that it has not.
LEMMA AnswerStep ==
  ASSUME InputTypeOK, NEW c \in Conn, ConnInv(c), inbox[c] # <<>>, NEW ok \in BOOLEAN,
         Answer(c, ok), client' = client,
         taken'[c] = IF ok THEN Append(taken[c], Head(inbox[c]).n) ELSE taken[c]
  PROVE  ConnInv(c)'
<1>0. /\ client[c] \in Client /\ client[c].sent \in Nat
      /\ client[c].pending \in Seq(1..MaxSent) /\ inbox[c] \in Seq(Message)
      /\ acks[c] \in Seq(Ack) /\ taken[c] \in Seq(1..MaxSent)
  BY ConnTypes
<1>1. PICK n, k : n = Head(inbox[c]).n /\ k = [n |-> n, ok |-> ok]
  OBVIOUS
<1>2. n \in 1..MaxSent
  <2>1. Head(inbox[c]) \in Message
    BY <1>0
  <2>2. QED
    BY <1>1, <2>1 DEF Message
<1>3. k \in Ack /\ k.n = n /\ k.ok = ok
  BY <1>1, <1>2 DEF Ack
<1>4. /\ inbox'[c] = Tail(inbox[c])
      /\ acks'[c] = IF client[c].open THEN Append(acks[c], k) ELSE acks[c]
  BY <1>1 DEF Answer, InputTypeOK
<1>5. CASE client[c].open
  <2>1. Expected(c)'
    <3>1. Owed(client[c].pending, Append(acks[c], k), Tail(inbox[c]))
      BY <1>0, <1>1, <1>3, <1>5, OwedMoves DEF ConnInv, Expected
    <3>2. QED
      BY <1>4, <1>5, <3>1 DEF Expected
  <2>2. AllOk(c)' => TookAll(c)'
    <3>1. SUFFICES ASSUME AllOk(c)' PROVE TookAll(c)'
      OBVIOUS
    <3>2. PICK paid : paid = acks'[c]
      OBVIOUS
    <3>3. /\ Len(paid) = Len(acks[c]) + 1 /\ Len(acks[c]) \in Nat /\ paid[Len(acks[c]) + 1] = k
          /\ \A i \in 1..Len(acks[c]) : paid[i] = acks[c][i]
      BY <1>0, <1>3, <1>4, <1>5, <3>2, Grown
    <3>4. ~client[c].undelivered /\ \A i \in 1..Len(paid) : paid[i].ok
      BY <3>1, <3>2 DEF AllOk
    <3>5. ok
      BY <1>3, <3>3, <3>4
    <3>6. TookAll(c)
      BY <3>3, <3>4 DEF ConnInv, AllOk
    <3>7. Counted(client[c].sent, Append(taken[c], n), Tail(inbox[c]))
      BY <1>0, <1>1, <1>2, <3>6, CountedMoves DEF TookAll
    <3>8. QED
      BY <1>1, <1>4, <3>5, <3>7 DEF TookAll
  <2>3. QED
    BY <1>5, <2>1, <2>2 DEF ConnInv
<1>6. CASE ~client[c].open
  BY <1>4, <1>6 DEF ConnInv, AllOk
<1>7. QED
  BY <1>5, <1>6

\* The write at the head of the chain has ended, or goes on.
LEMMA WorkConn ==
  ASSUME InputTypeOK, WriteInv, NEW d \in Conn, ConnInv(d), Work
  PROVE  ConnInv(d)'
<1>1. /\ chain # <<>> /\ UNCHANGED client
      /\ Goes \/ \E ok \in BOOLEAN : EndsWrite(ok)
  BY WorkMoves
<1>2. CASE Goes
  BY <1>1, <1>2, SameConn DEF Goes, Same
<1>3. CASE \E ok \in BOOLEAN : EndsWrite(ok)
  <2>1. PICK ok \in BOOLEAN : EndsWrite(ok)
    BY <1>3
  <2>2. PICK w : w = Head(chain)
    OBVIOUS
  <2>3. w \in Write /\ w = chain[1]
    BY <1>1, <2>2, HeadFields
  <2>4. CASE w.from = d
    <3>1. inbox[d] # <<>> /\ Head(inbox[d]).n = w.n
      <4>1. 1 \in 1..Len(chain)
        BY <1>1 DEF InputTypeOK
      <4>2. QED
        BY <2>3, <2>4, <4>1 DEF WriteInv
    <3>2. Answer(d, ok)
      BY <2>1, <2>2, <2>4 DEF EndsWrite, Finish
    <3>3. taken'[d] = IF ok THEN Append(taken[d], w.n) ELSE taken[d]
      BY <2>1, <2>2, <2>4 DEF EndsWrite, Took, InputTypeOK
    <3>4. QED
      BY <1>1, <3>1, <3>2, <3>3, AnswerStep
  <2>5. CASE w.from # d
    <3>1. inbox'[d] = inbox[d] /\ acks'[d] = acks[d]
      BY <2>1, <2>2, <2>5 DEF EndsWrite, Finish, Answer, InputTypeOK
    <3>2. taken'[d] = taken[d]
      BY <2>1, <2>2, <2>5 DEF EndsWrite, Took, InputTypeOK
    <3>3. QED
      BY <1>1, <3>1, <3>2, SameConn DEF Same
  <2>6. QED
    BY <2>4, <2>5
<1>4. QED
  BY <1>1, <1>2, <1>3

\* Every step keeps what is known of a connection.
LEMMA ConnStep ==
  ASSUME InputTypeOK, WriteInv, NEW d \in Conn, ConnInv(d), Next
  PROVE  ConnInv(d)'
<1>1. CASE Work
  BY <1>1, WorkConn
<1>2. CASE \E c \in Conn, kind \in Kind \cup {"bad"} : Send(c, kind)
  <2>1. PICK c \in Conn, kind \in Kind \cup {"bad"} : Send(c, kind)
    BY <1>2
  <2>2. c # d => Same(d)
    BY <2>1 DEF Send, Same, InputTypeOK
  <2>3. QED
    BY <2>1, <2>2, SendStep, SameConn
<1>3. CASE \E c \in Conn : ReadAck(c)
  <2>1. PICK c \in Conn : ReadAck(c)
    BY <1>3
  <2>2. c # d => Same(d)
    BY <2>1 DEF ReadAck, Same, InputTypeOK
  <2>3. QED
    BY <2>1, <2>2, ReadStep, SameConn
<1>4. CASE \E c \in Conn : Disconnect(c)
  <2>1. PICK c \in Conn : Disconnect(c)
    BY <1>4
  <2>2. c # d => Same(d)
    BY <2>1 DEF Disconnect, Same, InputTypeOK
  <2>3. QED
    BY <2>1, <2>2, DisconnectStep, SameConn
<1>5. CASE \E c \in Conn : Handle(c)
  <2>1. PICK c \in Conn : Handle(c)
    BY <1>5
  <2>2. CASE Head(inbox[c]).kind = "bad"
    <3>1. /\ inbox[c] # <<>> /\ Answer(c, FALSE) /\ client' = client /\ taken' = taken
      BY <2>1, <2>2 DEF Handle
    <3>2. c # d => Same(d)
      BY <3>1 DEF Answer, Same, InputTypeOK
    <3>3. c = d => ConnInv(d)'
      BY <3>1, AnswerStep
    <3>4. QED
      BY <3>2, <3>3, SameConn
  <2>3. CASE Head(inbox[c]).kind # "bad"
    BY <2>1, <2>3, SameConn DEF Handle, Same
  <2>4. QED
    BY <2>2, <2>3
<1>6. CASE UNCHANGED <<client, inbox, acks, taken>>
  BY <1>6, SameConn DEF Same
<1>7. QED
  BY <1>1, <1>2, <1>3, <1>4, <1>5, <1>6 DEF Next, Arrive, Type, Poll, Reads, Channel,
     SendPrompt, Greet, Down, inputVars

-----------------------------------------------------------------------------
(* The writes on the chain.                                                *)

\* What the write at w asks of the channel of its connection.
Ready(w) == w.from \in Conn => inbox[w.from] # <<>> /\ Head(inbox[w.from]).n = w.n

\* At most one write of each on a chain.
OnceEach(c) == \A i, j \in 1..Len(c) : c[i].from = c[j].from => i = j

\* The sender of a prompt waits while it is on the chain.
Waits(w) == w.from \in Prompt => said[w.from] = "waiting"

\* The chain: each write is the only one of its sender, who waits for it.
ChainInv ==
  /\ OnceEach(chain)
  /\ \A i \in 1..Len(chain) : Ready(chain[i]) /\ Waits(chain[i])

\* A write of a sender that has none joins the chain: each still has one.
LEMMA OnceGrows ==
  ASSUME NEW S, NEW c \in Seq(S), OnceEach(c), NEW w \in S,
         \A i \in 1..Len(c) : c[i].from # w.from
  PROVE  OnceEach(Append(c, w))
<1>1. PICK d : d = Append(c, w)
  OBVIOUS
<1>2. /\ Len(d) = Len(c) + 1 /\ Len(c) \in Nat /\ d[Len(c) + 1] = w
      /\ \A i \in 1..Len(c) : d[i] = c[i]
  BY <1>1, Grown
<1>3. \A i \in 1..Len(d) : i = Len(c) + 1 \/ i \in 1..Len(c)
  BY <1>2
<1>4. OnceEach(d)
  BY <1>2, <1>3 DEF OnceEach
<1>5. QED
  BY <1>1, <1>4

\* The write at the head was its sender's only one.
LEMMA OnceShrinks ==
  ASSUME NEW S, NEW c \in Seq(S), OnceEach(c), c # <<>>
  PROVE  /\ OnceEach(Tail(c))
         /\ \A i \in 1..Len(Tail(c)) : Tail(c)[i].from # Head(c).from
<1>1. PICK d : d = Tail(c)
  OBVIOUS
<1>2. /\ Len(d) = Len(c) - 1 /\ Len(c) \in Nat \ {0} /\ Head(c) = c[1]
      /\ \A i \in 1..Len(d) : d[i] = c[i + 1]
  BY <1>1, Beheaded
<1>3. \A i \in 1..Len(d) : i \in Nat /\ i + 1 \in 1..Len(c) /\ 1 \in 1..Len(c) /\ i + 1 # 1
  BY <1>2
<1>4. OnceEach(d)
  <2> SUFFICES ASSUME NEW i \in 1..Len(d), NEW j \in 1..Len(d), d[i].from = d[j].from
               PROVE  i = j
    BY DEF OnceEach
  <2>1. i + 1 = j + 1
    BY <1>2, <1>3 DEF OnceEach
  <2>2. QED
    BY <1>3, <2>1
<1>5. \A i \in 1..Len(d) : d[i].from # Head(c).from
  BY <1>2, <1>3 DEF OnceEach
<1>6. QED
  BY <1>1, <1>4, <1>5

\* A write stays ready while its connection is answered nothing.
LEMMA ReadyGrows ==
  ASSUME InputTypeOK, NEW w \in Write, Ready(w), NEW c \in Conn,
         \/ \E kind \in Kind \cup {"bad"} : Send(c, kind)
         \/ Disconnect(c) /\ \E i \in 1..Len(chain) : chain[i] = w
  PROVE  Ready(w)'
<1>0. inbox[c] \in Seq(Message)
  BY DEF InputTypeOK
<1>1. CASE w.from # c
  BY <1>1 DEF Ready, Send, Disconnect, InputTypeOK
<1>2. CASE w.from = c /\ \E kind \in Kind \cup {"bad"} : Send(c, kind)
  <2>1. PICK m : inbox'[c] = Append(inbox[c], m)
    BY <1>2 DEF Send, InputTypeOK
  <2>2. PICK left, more : left = inbox[c] /\ more = inbox'[c]
    OBVIOUS
  <2>3. left \in Seq(Message) /\ left # <<>> /\ Head(left).n = w.n /\ more = Append(left, m)
    BY <1>0, <1>2, <2>1, <2>2 DEF Ready
  <2>4. Len(left) \in Nat \ {0} /\ Len(more) = Len(left) + 1 /\ more[1] = left[1] /\ Head(left) = left[1]
    BY <2>3
  <2>5. more # <<>> /\ Head(more) = more[1]
    BY <2>3, <2>4
  <2>6. QED
    BY <1>2, <2>2, <2>3, <2>4, <2>5 DEF Ready
<1>3. CASE w.from = c /\ Disconnect(c) /\ \E i \in 1..Len(chain) : chain[i] = w
  <2>1. w \in ToSet(chain)
    BY <1>3 DEF ToSet, InputTypeOK
  <2>2. PICK k \in 0..Len(inbox[c]) : k > 0 /\ inbox'[c] = SubSeq(inbox[c], 1, k)
    BY <1>3, <2>1 DEF Disconnect, InputTypeOK
  <2>3. PICK left, more : left = inbox[c] /\ more = inbox'[c]
    OBVIOUS
  <2>4. left \in Seq(Message) /\ left # <<>> /\ Head(left).n = w.n /\ more = SubSeq(left, 1, k)
    BY <1>0, <1>3, <2>2, <2>3 DEF Ready
  <2>5. k \in 1..Len(left)
    BY <2>2, <2>3, <2>4
  <2>6. Len(more) = k /\ more[1] = left[1] /\ Head(left) = left[1]
    BY <2>4, <2>5
  <2>7. more # <<>> /\ Head(more) = more[1]
    BY <2>4, <2>5, <2>6
  <2>8. QED
    BY <1>3, <2>3, <2>4, <2>6, <2>7 DEF Ready
<1>4. QED
  BY <1>1, <1>2, <1>3

\* The chain by its two parts.
LEMMA ChainParts ==
  ASSUME InputTypeOK
  PROVE  ChainInv => WriteInv
BY DEF ChainInv, WriteInv, OnceEach, Ready

\* Every step keeps the chain.
LEMMA ChainStep ==
  ASSUME InputTypeOK, ChainInv, Next
  PROVE  ChainInv'
<1>0. /\ chain \in Seq(Write) /\ Len(chain) \in Nat
      /\ \A i \in 1..Len(chain) : chain[i] \in Write
  BY DEF InputTypeOK
<1>1. CASE Work
  <2>1. chain # <<>> /\ (Goes \/ \E ok \in BOOLEAN : EndsWrite(ok))
    BY <1>1, WorkMoves
  <2>2. CASE Goes
    BY <2>2 DEF Goes, ChainInv, Ready, Waits
  <2>3. CASE \E ok \in BOOLEAN : EndsWrite(ok)
    <3>1. PICK ok \in BOOLEAN : EndsWrite(ok)
      BY <2>3
    <3>2. PICK w, rest : w = Head(chain) /\ rest = Tail(chain)
      OBVIOUS
    <3>3. chain' = rest
      BY <3>1, <3>2 DEF EndsWrite, Finish
    <3>4. OnceEach(rest) /\ \A i \in 1..Len(rest) : rest[i].from # w.from
      BY <1>0, <2>1, <3>2, OnceShrinks DEF ChainInv
    <3>5. \A v : v.from # w.from /\ Ready(v) /\ Waits(v) => Ready(v)' /\ Waits(v)'
      BY <3>1, <3>2 DEF EndsWrite, Finish, Answer, Ready, Waits, InputTypeOK
    <3>6. \A i \in 1..Len(rest) : Ready(rest[i]) /\ Waits(rest[i])
      <4>1. /\ Len(rest) = Len(chain) - 1
            /\ \A i \in 1..Len(rest) : rest[i] = chain[i + 1]
        BY <1>0, <2>1, <3>2, Beheaded
      <4>2. \A i \in 1..Len(rest) : i + 1 \in 1..Len(chain)
        BY <1>0, <4>1
      <4>3. QED
        BY <4>1, <4>2 DEF ChainInv
    <3>7. QED
      BY <3>3, <3>4, <3>5, <3>6 DEF ChainInv
  <2>4. QED
    BY <2>1, <2>2, <2>3
<1>2. CASE \E p \in Prompt : SendPrompt(p)
  <2>1. PICK p \in Prompt : SendPrompt(p)
    BY <1>2
  <2>2. PICK w, more : w = [from |-> p, kind |-> "prompt", n |-> 0] /\ more = Append(chain, w)
    OBVIOUS
  <2>3. w \in Write /\ w.from = p
    BY <2>2 DEF Write
  <2>4. \A i \in 1..Len(chain) : chain[i].from # w.from
    BY <2>1, <2>3 DEF SendPrompt, ChainInv, Waits
  <2>5. OnceEach(more)
    BY <1>0, <2>2, <2>3, <2>4, OnceGrows DEF ChainInv
  <2>6. chain' = more /\ inbox' = inbox /\ said' = [said EXCEPT ![p] = "waiting"]
    BY <2>1, <2>2 DEF SendPrompt
  <2>7. Ready(w)' /\ Waits(w)'
    BY <2>3, <2>6, PaneInputAssumption DEF Ready, Waits, InputTypeOK
  <2>8. \A v : Ready(v) /\ Waits(v) => Ready(v)' /\ Waits(v)'
    BY <2>6 DEF Ready, Waits, InputTypeOK
  <2>9. /\ Len(more) = Len(chain) + 1 /\ more[Len(chain) + 1] = w
        /\ \A i \in 1..Len(chain) : more[i] = chain[i]
    BY <1>0, <2>2, <2>3, Grown
  <2>10. \A i \in 1..Len(more) : i = Len(chain) + 1 \/ i \in 1..Len(chain)
    BY <1>0, <2>9
  <2>11. \A i \in 1..Len(more) : Ready(more[i])' /\ Waits(more[i])'
    BY <2>7, <2>8, <2>9, <2>10 DEF ChainInv
  <2>12. QED
    BY <2>5, <2>6, <2>11 DEF ChainInv
<1>3. CASE \E c \in Conn : Handle(c)
  <2>1. PICK c \in Conn : Handle(c)
    BY <1>3
  <2>2. inbox[c] # <<>> /\ \A i \in 1..Len(chain) : chain[i].from # c
    BY <1>0, <2>1 DEF Handle, ToSet
  <2>3. CASE Head(inbox[c]).kind = "bad"
    <3>1. chain' = chain /\ said' = said /\ inbox' = [inbox EXCEPT ![c] = Tail(@)]
      BY <2>1, <2>3 DEF Handle, Answer
    <3>2. QED
      BY <2>2, <3>1 DEF ChainInv, Ready, Waits, InputTypeOK
  <2>4. CASE Head(inbox[c]).kind # "bad"
    <3>1. PICK w, more : /\ w = [from |-> c, kind |-> Head(inbox[c]).kind, n |-> Head(inbox[c]).n]
                         /\ more = Append(chain, w)
      OBVIOUS
    <3>2. w.from = c /\ w.n = Head(inbox[c]).n /\ w \in Write
      <4>1. Head(inbox[c]) \in Message
        BY <2>2 DEF InputTypeOK
      <4>2. QED
        BY <2>4, <3>1, <4>1 DEF Write, Message
    <3>3. chain' = more /\ inbox' = inbox /\ said' = said
      BY <2>1, <2>4, <3>1 DEF Handle
    <3>4. Ready(w)' /\ Waits(w)'
      BY <2>2, <3>2, <3>3, PaneInputAssumption DEF Ready, Waits
    <3>5. OnceEach(more)
      BY <1>0, <2>2, <3>1, <3>2, OnceGrows DEF ChainInv
    <3>6. /\ Len(more) = Len(chain) + 1 /\ more[Len(chain) + 1] = w
          /\ \A i \in 1..Len(chain) : more[i] = chain[i]
      BY <1>0, <3>1, <3>2, Grown
    <3>7. \A i \in 1..Len(more) : i = Len(chain) + 1 \/ i \in 1..Len(chain)
      BY <1>0, <3>6
    <3>8. \A i \in 1..Len(more) : Ready(more[i])' /\ Waits(more[i])'
      BY <3>3, <3>4, <3>6, <3>7 DEF ChainInv, Ready, Waits
    <3>9. QED
      BY <3>3, <3>5, <3>8 DEF ChainInv
  <2>5. QED
    BY <2>3, <2>4
<1>4. CASE \E c \in Conn : Disconnect(c) \/ \E kind \in Kind \cup {"bad"} : Send(c, kind)
  <2>1. PICK c \in Conn : Disconnect(c) \/ \E kind \in Kind \cup {"bad"} : Send(c, kind)
    BY <1>4
  <2>2. chain' = chain /\ said' = said
    BY <2>1 DEF Disconnect, Send
  <2>3. ASSUME NEW i \in 1..Len(chain)
        PROVE  Ready(chain[i])' /\ Waits(chain[i])'
    <3>1. PICK w : w = chain[i]
      OBVIOUS
    <3>2. w \in Write /\ Ready(w) /\ Waits(w)
      BY <1>0, <3>1 DEF ChainInv
    <3>3. Ready(w)'
      BY <2>1, <3>1, <3>2, ReadyGrows
    <3>4. Waits(w)'
      BY <2>2, <3>2 DEF Waits
    <3>5. QED
      BY <2>2, <3>1, <3>3, <3>4
  <2>4. QED
    BY <2>2, <2>3 DEF ChainInv
<1>5. CASE UNCHANGED <<chain, inbox, said>>
  BY <1>5 DEF ChainInv, Ready, Waits
<1>6. QED
  BY <1>1, <1>2, <1>3, <1>4, <1>5 DEF Next, Arrive, Type, Poll, Reads, Channel,
     ReadAck, Greet, Down, inputVars

-----------------------------------------------------------------------------
(* What is not about prompts.                                              *)

IInv == TypeOK /\ ChainInv /\ (\A c \in Conn : ConnInv(c)) /\ ServedExactly

\* The invariant holds at the start.
LEMMA InvInit == Init => IInv
<1> SUFFICES ASSUME Init PROVE IInv
  OBVIOUS
<1>1. ChainInv
  BY DEF Init, InputInit, ChainInv, OnceEach
<1>2. ASSUME NEW c \in Conn PROVE ConnInv(c)
  BY DEF Init, InputInit, ConnInv, Expected, Owed, AllOk, TookAll, Counted
<1>3. QED
  BY <1>1, <1>2, TypeInit, HubStarts DEF IInv

\* Every step keeps the invariant.
LEMMA InvStep == IInv /\ [Next]_vars => IInv'
<1> SUFFICES ASSUME IInv, [Next]_vars PROVE IInv'
  OBVIOUS
<1>1. CASE Next
  <2>1. InputTypeOK /\ HubTypeOK /\ WriteInv
    BY ChainParts DEF IInv, TypeOK
  <2>2. TypeOK'
    BY <1>1, <2>1, TypeStep DEF IInv
  <2>3. ChainInv'
    BY <1>1, <2>1, ChainStep DEF IInv
  <2>4. \A c \in Conn : ConnInv(c)'
    BY <1>1, <2>1, ConnStep DEF IInv
  <2>5. ServedExactly'
    BY <1>1, <2>1, HubStep DEF IInv
  <2>6. QED
    BY <2>2, <2>3, <2>4, <2>5 DEF IInv
<1>2. CASE UNCHANGED vars
  <2>1. TypeOK'
    BY <1>2 DEF IInv, vars, inputVars, hubVars, TypeOK, PaneTypeOK, InputTypeOK, HubTypeOK, Looping
  <2>2. ChainInv' /\ ServedExactly'
    BY <1>2 DEF IInv, vars, inputVars, hubVars, ChainInv, Ready, Waits, ServedExactly, Watching
  <2>3. \A c \in Conn : ConnInv(c)'
    BY <1>2, SameConn DEF IInv, vars, inputVars, Same
  <2>4. QED
    BY <2>1, <2>2, <2>3 DEF IInv
<1>3. QED
  BY <1>1, <1>2

\* The invariant always holds.
LEMMA InvHolds == Spec => []IInv
BY InvInit, InvStep, PTL DEF Spec

\* The state of the panes, the input channel and the hub keeps its types.
THEOREM TerminalTypes == Spec => []TypeOK
BY InvHolds, PTL DEF IInv

\* For any number of pages, polls and sessions that end: the pages the hub
\* serves are those that watch, so that none waits for frames nobody sends and
\* no poll loop runs for a page that left (hub.ts).
THEOREM EveryPageIsServed == Spec => []ServedExactly
BY InvHolds, PTL DEF IInv

\* No page ever meets an answer it does not expect: the channel answers the
\* messages of a connection in the order they were sent, whatever the chain of
\* writes interleaves (input-ws.ts).
THEOREM AnswersComeInOrder == Spec => []AnswersInOrder
<1>1. IInv => AnswersInOrder
  BY DEF IInv, ConnInv, AnswersInOrder
<1>2. QED
  BY <1>1, InvHolds, PTL

\* A page whose messages are all answered, none of them as undelivered, has had
\* each of them typed once and in order: a key is late, or reported, or typed.
THEOREM NoKeyIsLostSilently == Spec => []NothingLostSilently
<1>1. IInv => NothingLostSilently
  <2> SUFFICES ASSUME IInv, NEW c \in Conn,
                      client[c].pending = <<>>, ~client[c].undelivered
               PROVE  taken[c] = [n \in 1..client[c].sent |-> n]
    BY DEF NothingLostSilently
  <2>1. /\ client[c] \in Client /\ client[c].sent \in Nat
        /\ inbox[c] \in Seq(Message) /\ acks[c] \in Seq(Ack) /\ taken[c] \in Seq(1..MaxSent)
    BY ConnTypes DEF IInv, TypeOK
  <2>2. PICK due, done, left, took :
           /\ due = client[c].pending /\ done = acks[c] /\ left = inbox[c] /\ took = taken[c]
    OBVIOUS
  <2>3. Len(done) \in Nat /\ Len(left) \in Nat /\ Len(took) \in Nat
    BY <2>1, <2>2
  <2>4. Len(done) = 0 /\ Len(left) = 0
    <3>1. CASE client[c].open
      <4>1. Owed(due, done, left)
        BY <2>2, <3>1 DEF IInv, ConnInv, Expected
      <4>2. 0 = Len(done) + Len(left)
        BY <2>2, <4>1 DEF Owed
      <4>3. \A x, y \in Nat : 0 = x + y => x = 0 /\ y = 0
        OBVIOUS
      <4>4. QED
        BY <2>3, <4>2, <4>3
    <3>2. CASE ~client[c].open
      BY <2>2, <3>2 DEF IInv, ConnInv
    <3>3. QED
      BY <3>1, <3>2
  <2>5. TookAll(c)
    BY <2>2, <2>4 DEF IInv, ConnInv, AllOk
  <2>6. Counted(client[c].sent, took, left)
    BY <2>2, <2>5 DEF TookAll
  <2>7. Len(took) = client[c].sent /\ \A i \in 1..Len(took) : took[i] = i
    BY <2>1, <2>3, <2>4, <2>6 DEF Counted
  <2>8. took = [i \in 1..Len(took) |-> took[i]]
    BY <2>1, <2>2
  <2>9. QED
    BY <2>2, <2>7, <2>8
<1>2. QED
  BY <1>1, InvHolds, PTL

-----------------------------------------------------------------------------
(* Lines and prompts.                                                      *)

\* Return submits what is in the box, and moves no prompt to another line.
LEMMA EnterLines ==
  ASSUME PaneTypeOK(Item), pane' = Entered, NEW p
  PROVE  /\ Untyped(p) => Untyped(p)'
         /\ Whole(p) => Whole(p)'
         /\ Sealed(p) => Sealed(p)'
         /\ In(p, pane.box) \/ Submitted(p) => In(p, pane.box)' \/ Submitted(p)'
         /\ pane.focus = "input" =>
              /\ pane'.focus = "input" /\ pane'.box = <<>>
              /\ In(p, pane.box) \/ Submitted(p) => Submitted(p)'
<1>1. CASE pane'.box = pane.box /\ pane'.turns = pane.turns /\ (pane.focus = "input" => pane' = pane /\ pane.box = <<>>)
  <2>1. pane.box = <<>> => ~In(p, pane.box)
    BY DEF In
  <2>2. QED
    BY <1>1, <2>1 DEF Untyped, Whole, Sealed, Submitted
<1>2. CASE pane.focus = "input" /\ pane.box # <<>>
  <2>1. PICK box, turns, more :
          box = pane.box /\ turns = pane.turns /\ more = Append(turns, box)
    OBVIOUS
  <2>2. box \in Seq(Item) \ {<<>>} /\ turns \in Seq(Seq(Item) \ {<<>>})
    BY <1>2, <2>1 DEF PaneTypeOK
  <2>3. pane'.focus = "input" /\ pane'.box = <<>> /\ pane'.turns = more
    BY <1>2, <2>1 DEF PaneTypeOK, Entered
  <2>4. /\ Len(more) = Len(turns) + 1 /\ Len(turns) \in Nat /\ more[Len(turns) + 1] = box
        /\ \A i \in 1..Len(turns) : more[i] = turns[i]
    BY <2>1, <2>2, Grown
  <2>5. /\ \A i \in 1..Len(more) : i = Len(turns) + 1 \/ i \in 1..Len(turns)
        /\ Len(turns) + 1 \in 1..Len(more) /\ \A i \in 1..Len(turns) : i \in 1..Len(more)
    BY <2>4
  <2>6. ~In(p, pane.box)'
    BY <2>3 DEF In
  <2>7. Submitted(p)' <=> In(p, box) \/ \E i \in 1..Len(turns) : In(p, turns[i])
    <3>1. Submitted(p)' <=> \E i \in 1..Len(more) : In(p, more[i])
      BY <2>3 DEF Submitted, In
    <3>2. QED
      BY <2>4, <2>5, <3>1
  <2>8. Whole(p) => Whole(p)'
    <3>1. Whole(p)' <=> \A i \in 1..Len(more) : In(p, more[i]) => Ends(p, more[i])
      BY <2>3, <2>6 DEF Whole, In, Ends
    <3>2. Whole(p) <=> /\ In(p, box) => Ends(p, box)
                      /\ \A i \in 1..Len(turns) : In(p, turns[i]) => Ends(p, turns[i])
      BY <2>1 DEF Whole
    <3>3. QED
      BY <2>4, <2>5, <3>1, <3>2
  <2>9. Submitted(p) <=> \E i \in 1..Len(turns) : In(p, turns[i])
    BY <2>1 DEF Submitted
  <2>10. QED
    BY <2>1, <2>3, <2>6, <2>7, <2>8, <2>9 DEF Untyped, Sealed
<1>3. QED
  BY <1>1, <1>2 DEF PaneTypeOK, Entered

\* Nothing in the box and in the lines has changed.
LEMMA SameLines ==
  ASSUME pane'.box = pane.box, pane'.turns = pane.turns, NEW p
  PROVE  /\ Untyped(p) => Untyped(p)'
         /\ Whole(p) => Whole(p)'
         /\ Sealed(p) => Sealed(p)'
         /\ Submitted(p) => Submitted(p)'
         /\ In(p, pane.box) => In(p, pane.box)'
BY DEF Untyped, Whole, Sealed, Submitted

\* Something is typed: nothing of a prompt that is not in the box changes, and
\* a prompt that is typed whole is at the end of the box.
LEMMA TypedLines ==
  ASSUME PaneTypeOK(Item), NEW e \in Item, pane' = Typed(e), NEW p
  PROVE  /\ e # p /\ ~In(p, pane.box) =>
              (Untyped(p) => Untyped(p)') /\ (Whole(p) => Whole(p)') /\ (Sealed(p) => Sealed(p)')
         /\ e = p /\ Whole(p) => Whole(p)'
         /\ e = p /\ pane.focus = "input" => In(p, pane.box)'
         /\ pane'.focus = pane.focus /\ pane'.alive = pane.alive
<1>1. CASE pane.focus # "input"
  <2>1. pane' = pane
    BY <1>1 DEF Typed
  <2>2. QED
    BY <1>1, <2>1, SameLines
<1>2. CASE pane.focus = "input"
  <2>1. PICK box, more : box = pane.box /\ more = Append(box, e)
    OBVIOUS
  <2>2. box \in Seq(Item)
    BY <2>1 DEF PaneTypeOK
  <2>3. /\ pane'.focus = "input" /\ pane'.box = more /\ pane'.turns = pane.turns
        /\ pane'.alive = pane.alive
    BY <1>2, <2>1 DEF PaneTypeOK, Typed
  <2>4. /\ Len(more) = Len(box) + 1 /\ Len(box) \in Nat /\ more[Len(box) + 1] = e
        /\ \A i \in 1..Len(box) : more[i] = box[i]
    BY <2>1, <2>2, Grown
  <2>5. /\ \A i \in 1..Len(more) : i = Len(box) + 1 \/ i \in 1..Len(box)
        /\ Len(box) + 1 \in 1..Len(more)
    BY <2>4
  <2>6. In(p, more) <=> In(p, box) \/ e = p
    BY <2>4, <2>5 DEF In
  <2>7. e = p => Ends(p, more)
    BY <2>1, <2>2, <2>4, Longer DEF Ends
  <2>8. Submitted(p)' <=> Submitted(p)
    BY <2>3 DEF Submitted
  <2>9. In(p, pane.box)' <=> In(p, more)
    BY <2>3
  <2>10. \/ e = p
         \/ ~In(p, box)
         => (Whole(p) => Whole(p)')
    <3>1. Whole(p)' <=> /\ In(p, more) => Ends(p, more)
                       /\ \A i \in 1..Len(pane.turns) :
                            In(p, pane.turns[i]) => Ends(p, pane.turns[i])
      BY <2>3 DEF Whole
    <3>2. QED
      BY <2>6, <2>7, <3>1 DEF Whole
  <2>11. QED
    BY <1>2, <2>1, <2>3, <2>6, <2>8, <2>9, <2>10 DEF Untyped, Sealed
<1>3. QED
  BY <1>1, <1>2

\* What a step does to the pane, as a prompt sees it.
KeepsLines == pane'.box = pane.box /\ pane'.turns = pane.turns
TypesOther(q) == pane.alive /\ ~Typing(q) /\ \E e \in Item : e # q /\ pane' = Typed(e)

\* A prompt that is not the one being typed, or one that is in the box already.
LEMMA LineKept ==
  ASSUME PaneTypeOK(Item), InputTypeOK, NEW q \in Prompt, LineInv(q),
         Typing(q) => Typing(q)',
         said'[q] = said[q] \/ (said[q] = "unsent" /\ said'[q] = "waiting"),
         pane'.alive => pane.alive, disturbed \subseteq disturbed',
         KeepsLines \/ pane' = Entered \/ TypesOther(q)
  PROVE  LineInv(q)'
<1>0. SUFFICES ASSUME q \notin disturbed
      PROVE  LineInv(q)'
  BY DEF LineInv
<1>1. CASE KeepsLines
  BY <1>0, <1>1, SameLines DEF KeepsLines, LineInv
<1>2. CASE pane' = Entered
  BY <1>0, <1>2, EnterLines DEF LineInv
<1>3. CASE TypesOther(q)
  <2>1. PICK e \in Item : e # q /\ pane' = Typed(e)
    BY <1>3 DEF TypesOther
  <2>2. said[q] # "failed" => ~In(q, pane.box)
    BY <1>0, <1>3 DEF TypesOther, LineInv, Untyped, Sealed, InputTypeOK
  <2>3. CASE ~In(q, pane.box)
    BY <1>0, <2>1, <2>3, TypedLines DEF LineInv
  <2>4. CASE said[q] = "failed"
    BY <1>0, <2>4 DEF LineInv
  <2>5. QED
    BY <2>2, <2>3, <2>4
<1>4. QED
  BY <1>1, <1>2, <1>3

\* The prompt at the head of the chain is the only one that a call of it is about.
LEMMA OthersKept ==
  ASSUME PaneTypeOK(Item), InputTypeOK, NEW q \in Prompt, LineInv(q), Work, Head(chain).from # q
  PROVE  LineInv(q)'
<1>1. /\ chain # <<>> /\ (Goes \/ \E ok \in BOOLEAN : EndsWrite(ok))
  BY WorkMoves
<1>2. ~Typing(q)
  BY DEF Typing
<1>3. said'[q] = said[q]
  <2>1. CASE Goes
    BY <2>1 DEF Goes
  <2>2. CASE \E ok \in BOOLEAN : EndsWrite(ok)
    BY <2>2 DEF EndsWrite, Finish, InputTypeOK
  <2>3. QED
    BY <1>1, <2>1, <2>2
<1>4. pane'.alive = pane.alive /\ (KeepsLines \/ pane' = Entered \/ TypesOther(q))
  <2>1. pane' = pane => pane'.alive = pane.alive /\ KeepsLines
    BY DEF KeepsLines
  <2>2. pane' = Escaped => pane'.alive = pane.alive /\ KeepsLines
    BY DEF KeepsLines, Escaped, PaneTypeOK
  <2>3. pane' = Entered => pane'.alive = pane.alive
    BY DEF Entered, PaneTypeOK
  <2>4. ASSUME NEW e \in Item, pane' = Typed(e)
        PROVE  pane'.alive = pane.alive
    BY <2>4, TypedLines
  <2>5. CASE PressKey \/ PasteBuffer
    <3>1. <<Head(chain).from, Head(chain).n>> \in Item
      BY <1>1, <2>5, HeadFields DEF PressKey, PasteBuffer, Heads
    <3>2. Head(chain).from \in Conn /\ Head(chain).n \in 1..MaxSent
      BY <1>1, <2>5, HeadFields DEF PressKey, PasteBuffer, Heads
    <3>3. <<Head(chain).from, Head(chain).n>> # q
      BY <3>2, PaneInputAssumption
    <3>4. \/ pane' \in {pane, Entered}
          \/ pane.alive /\ pane' = Typed(<<Head(chain).from, Head(chain).n>>)
      BY <2>5 DEF PressKey, PasteBuffer
    <3>5. QED
      BY <1>2, <2>1, <2>3, <2>4, <3>1, <3>3, <3>4 DEF TypesOther
  <2>6. CASE TypePrompt
    <3>1. Head(chain).from \in Item
      BY <1>1, <2>6, HeadFields DEF TypePrompt, At, Item
    <3>2. pane' = pane \/ (pane.alive /\ pane' = Typed(Head(chain).from))
      BY <2>6 DEF TypePrompt
    <3>3. QED
      BY <1>2, <2>1, <2>4, <3>1, <3>2 DEF TypesOther
  <2>7. CASE SetBuffer \/ FocusInput \/ PressReturn \/ SecondReturn \/ CheckOverlay
    <3>1. pane' \in {pane, Escaped, Entered}
      BY <2>7 DEF SetBuffer, FocusInput, PressReturn, SecondReturn, CheckOverlay
    <3>2. QED
      BY <2>1, <2>2, <2>3, <3>1
  <2>8. QED
    BY <2>5, <2>6, <2>7 DEF Work
<1>5. QED
  BY <1>2, <1>3, <1>4, NotesType, LineKept

\* The calls of a prompt: its own line, and what is known of it at the head.
LEMMA HeadKept ==
  ASSUME PaneTypeOK(Item), InputTypeOK, ChainInv, HeadInv, Work, Heads({"prompt"}),
         LineInv(Head(chain).from)
  PROVE  HeadInv' /\ \A p : p = Head(chain).from => LineInv(p)'
<1>0. PICK p : p = Head(chain).from
  OBVIOUS
<1>a. chain # <<>> /\ (Goes \/ \E ok \in BOOLEAN : EndsWrite(ok)) /\ disturbed \subseteq disturbed'
  BY WorkMoves, NotesType
<1>b. CASE p \in disturbed'
  <2>1. LineInv(p)'
    BY <1>b DEF LineInv
  <2>2. CASE Goes
    <3>1. Head(chain)' = Head(chain)
      BY <2>2 DEF Goes
    <3>2. QED
      BY <1>0, <1>b, <2>1, <3>1 DEF HeadInv
  <2>3. CASE \E ok \in BOOLEAN : EndsWrite(ok)
    BY <1>0, <2>1, <2>3 DEF HeadInv, EndsWrite, Finish
  <2>4. QED
    BY <1>a, <2>2, <2>3
<1>c. SUFFICES ASSUME p \notin disturbed', p \notin disturbed
      PROVE  HeadInv' /\ \A q : q = Head(chain).from => LineInv(q)'
  BY <1>a, <1>b
<1>1. chain # <<>> /\ p \in Prompt /\ p \notin Conn /\ Head(chain) = chain[1]
  BY <1>0, HeadFields DEF Heads
<1>2. said[p] = "waiting"
  <2>1. 1 \in 1..Len(chain)
    BY <1>1 DEF InputTypeOK
  <2>2. QED
    BY <1>0, <1>1, <2>1 DEF ChainInv, Waits
<1>3. ASSUME chain' = chain, step' \in Step
      PROVE  Typing(p)' <=> step' \notin {"start", "type"}
  BY <1>0, <1>1, <1>3 DEF Typing
<1>4. Typing(p) <=> step \notin {"start", "type"}
  BY <1>0, <1>1 DEF Typing
<1>5. ASSUME Finish(FALSE)
      PROVE  HeadInv' /\ LineInv(p)'
  <2>1. step' = "start" /\ said'[p] = "failed"
    BY <1>0, <1>1, <1>5 DEF Finish, InputTypeOK
  <2>2. QED
    BY <2>1 DEF HeadInv, LineInv
<1>6. ASSUME chain' = chain, said' = said, pane'.alive = pane.alive,
             KeepsLines \/ pane' = Entered, Typing(p) => Typing(p)'
      PROVE  LineInv(p)'
  BY <1>0, <1>1, <1>6, <1>a, LineKept
<1>7. HeadInv' <=>
        (Heads({"prompt"}) /\ pane.alive /\ Head(chain).from \notin disturbed =>
           /\ step # "start" => pane.focus = "input"
           /\ step \in {"enter", "again"} =>
                In(Head(chain).from, pane.box) \/ Submitted(Head(chain).from)
           /\ step = "check" => pane.box = <<>> /\ Submitted(Head(chain).from))'
  BY DEF HeadInv
<1>8. pane.alive =>
        /\ step # "start" => pane.focus = "input"
        /\ step \in {"enter", "again"} => In(p, pane.box) \/ Submitted(p)
        /\ step = "check" => pane.box = <<>> /\ Submitted(p)
  BY <1>0, <1>c DEF HeadInv
<1>9. ASSUME chain' = chain,
             pane'.alive =>
               /\ step' # "start" => pane'.focus = "input"
               /\ step' \in {"enter", "again"} => In(p, pane.box)' \/ Submitted(p)'
               /\ step' = "check" => pane'.box = <<>> /\ Submitted(p)'
      PROVE  HeadInv'
  BY <1>0, <1>9 DEF HeadInv
<1>10. CASE FocusInput
  <2>1. CASE Finish(FALSE)
    BY <1>0, <1>5, <2>1
  <2>2. CASE ~Finish(FALSE)
    <3>1. /\ chain' = chain /\ said' = said /\ step = "start"
          /\ \/ pane' = pane /\ step' = "type" /\ (pane.alive => pane.focus = "input")
             \/ pane' = Escaped /\ step' = "start"
      BY <1>0, <1>10, <1>c, <2>2 DEF FocusInput, Onward, At, Disturbs
    <3>2. pane'.alive = pane.alive /\ KeepsLines
      BY <3>1 DEF KeepsLines, Escaped, PaneTypeOK
    <3>3. LineInv(p)'
      BY <1>4, <1>6, <3>1, <3>2
    <3>4. HeadInv'
      BY <1>9, <3>1
    <3>5. QED
      BY <1>0, <3>3, <3>4
  <2>3. QED
    BY <2>1, <2>2
<1>11. CASE TypePrompt
  <2>1. CASE Finish(FALSE)
    BY <1>0, <1>5, <2>1
  <2>2. CASE ~Finish(FALSE)
    <3>1. /\ chain' = chain /\ said' = said /\ step = "type" /\ step' = "enter"
          /\ pane.alive /\ pane' = Typed(p)
      BY <1>0, <1>11, <2>2 DEF TypePrompt, Onward, At
    <3>2. pane.focus = "input" /\ Whole(p) /\ p \in Item
      BY <1>1, <1>2, <1>8, <1>c, <3>1, <1>0 DEF LineInv, Item
    <3>3. /\ Whole(p)' /\ In(p, pane.box)' /\ pane'.focus = "input"
      BY <3>1, <3>2, TypedLines
    <3>4. Typing(p)'
      BY <1>3, <3>1 DEF Step
    <3>5. LineInv(p)'
      BY <1>2, <3>1, <3>3, <3>4 DEF LineInv
    <3>6. HeadInv'
      BY <1>9, <3>1, <3>3
    <3>7. QED
      BY <1>0, <3>5, <3>6
  <2>3. QED
    BY <2>1, <2>2
<1>12. CASE PressReturn
  <2>1. CASE Finish(FALSE)
    BY <1>0, <1>5, <2>1
  <2>2. CASE ~Finish(FALSE)
    <3>1. /\ chain' = chain /\ said' = said /\ step = "enter" /\ pane.alive
          /\ \/ pane' = Entered /\ step' \in {"again", "check"}
             \/ pane' = pane /\ step' = "again"
      BY <1>0, <1>12, <1>c, <2>2 DEF PressReturn, Onward, At, Disturbs
    <3>2. /\ pane'.alive = pane.alive /\ (KeepsLines \/ pane' = Entered)
      BY <3>1 DEF KeepsLines, Entered, PaneTypeOK
    <3>3. Typing(p)'
      BY <1>3, <3>1 DEF Step
    <3>4. LineInv(p)'
      BY <1>6, <3>1, <3>2, <3>3
    <3>5. pane.focus = "input" /\ (In(p, pane.box) \/ Submitted(p))
      BY <1>8, <3>1
    <3>6. CASE pane' = Entered
      <4>1. pane'.focus = "input" /\ pane'.box = <<>> /\ Submitted(p)'
        BY <3>5, <3>6, EnterLines
      <4>2. HeadInv'
        BY <1>9, <3>1, <4>1
      <4>3. QED
        BY <1>0, <3>4, <4>2
    <3>7. CASE pane' = pane /\ step' = "again"
      <4>1. In(p, pane.box)' \/ Submitted(p)'
        BY <3>5, <3>7, SameLines
      <4>2. HeadInv'
        BY <1>9, <3>1, <3>5, <3>7, <4>1
      <4>3. QED
        BY <1>0, <3>4, <4>2
    <3>8. QED
      BY <3>1, <3>6, <3>7
  <2>3. QED
    BY <2>1, <2>2
<1>13. CASE SecondReturn
  <2>1. /\ chain' = chain /\ said' = said /\ step = "again" /\ step' = "check"
        /\ \/ pane.alive /\ pane' = Entered
           \/ pane' = pane /\ (pane.alive => pane.box = <<>>)
    BY <1>0, <1>13, <1>c DEF SecondReturn, Onward, At, Disturbs
  <2>2. pane'.alive = pane.alive /\ (KeepsLines \/ pane' = Entered)
    BY <2>1 DEF KeepsLines, Entered, PaneTypeOK
  <2>3. LineInv(p)'
    BY <1>3, <1>6, <2>1, <2>2 DEF Step
  <2>4. pane.alive => pane'.focus = "input" /\ pane'.box = <<>> /\ Submitted(p)'
    <3>1. pane.box = <<>> => ~In(p, pane.box)
      BY DEF In
    <3>2. QED
      BY <1>8, <2>1, <3>1, EnterLines, SameLines
  <2>5. HeadInv'
    BY <1>9, <2>1, <2>2, <2>4
  <2>6. QED
    BY <1>0, <2>3, <2>5
<1>14. CASE CheckOverlay
  <2>1. CASE Finish(FALSE)
    BY <1>0, <1>5, <2>1
  <2>2. CASE ~Finish(FALSE)
    <3>1. Finish(TRUE) /\ pane' = pane /\ step = "check"
      BY <1>14, <2>2 DEF CheckOverlay, At
    <3>2. step' = "start" /\ said'[p] = "delivered"
      BY <1>0, <1>1, <3>1 DEF Finish, InputTypeOK
    <3>3. Whole(p)
      BY <1>0, <1>2, <1>c DEF LineInv
    <3>4. pane.alive => Sealed(p)
      BY <1>8, <3>1 DEF Sealed, In
    <3>5. LineInv(p)'
      BY <3>1, <3>2, <3>3, <3>4, SameLines DEF LineInv
    <3>6. HeadInv'
      BY <3>2 DEF HeadInv
    <3>7. QED
      BY <1>0, <3>5, <3>6
  <2>3. QED
    BY <2>1, <2>2
<1>15. QED
  BY <1>10, <1>11, <1>12, <1>13, <1>14 DEF Work, PressKey, SetBuffer, PasteBuffer, Heads

\* A write joins the chain behind those that are there.
LEMMA JoinKept ==
  ASSUME PaneTypeOK(Item), InputTypeOK, ChainInv, PromptInv,
         UNCHANGED <<pane, step, disturbed>>, NEW w \in Write, chain' = Append(chain, w),
         \A q \in Prompt : said'[q] = said[q] \/ (said[q] = "unsent" /\ said'[q] = "waiting")
  PROVE  PromptInv'
<1>1. CASE chain = <<>>
  <2>1. step' = "start"
    BY <1>1 DEF InputTypeOK
  <2>2. \A q \in Prompt : ~Typing(q)
    BY <1>1 DEF Typing
  <2>3. \A q \in Prompt : LineInv(q)'
    BY <2>2, LineKept DEF PromptInv, KeepsLines
  <2>4. HeadInv'
    BY <2>1 DEF HeadInv
  <2>5. QED
    BY <2>3, <2>4 DEF PromptInv
<1>2. CASE chain # <<>>
  <2>1. PICK more : more = Append(chain, w)
    OBVIOUS
  <2>2. /\ Len(more) = Len(chain) + 1 /\ Len(chain) \in Nat
        /\ \A i \in 1..Len(chain) : more[i] = chain[i]
    BY <2>1, Grown DEF InputTypeOK
  <2>3. chain \in Seq(Write) /\ 1 \in 1..Len(chain) /\ Head(chain) = chain[1]
    BY <1>2 DEF InputTypeOK
  <2>4. more # <<>> /\ Head(more) = more[1]
    <3>1. more \in Seq(Write) /\ more # <<>>
      BY <2>1, <2>3, Longer
    <3>2. QED
      BY <3>1
  <2>5. chain' # <<>> /\ Head(chain') = Head(chain)
    BY <2>1, <2>2, <2>3, <2>4
  <2>6. \A q \in Prompt : Typing(q) => Typing(q)'
    BY <2>5 DEF Typing
  <2>7. \A q \in Prompt : LineInv(q)'
    BY <2>6, LineKept DEF PromptInv, KeepsLines
  <2>8. HeadInv'
    <3>1. Heads({"prompt"})' <=> Heads({"prompt"})
      BY <1>2, <2>5 DEF Heads
    <3>2. QED
      BY <2>5, <3>1, SameLines DEF PromptInv, HeadInv, Submitted
  <2>9. QED
    BY <2>7, <2>8 DEF PromptInv
<1>3. QED
  BY <1>1, <1>2

\* Whatever else happens to the pane while the chain stands still.
LEMMA StillKept ==
  ASSUME PaneTypeOK(Item), InputTypeOK, PromptInv,
         UNCHANGED <<chain, step, said>>, pane'.alive => pane.alive, disturbed \subseteq disturbed',
         \/ KeepsLines /\ (Heads({"prompt"}) /\ step # "start" => pane'.focus = pane.focus \/ Head(chain).from \in disturbed')
         \/ pane.alive /\ pane.focus = "input" /\ pane' = Entered
  PROVE  PromptInv'
<1>1. \A q \in Prompt : Typing(q) => Typing(q)'
  BY DEF Typing
<1>2. \A q \in Prompt : LineInv(q)'
  BY <1>1, LineKept DEF PromptInv
<1>3. HeadInv'
  <2>1. CASE KeepsLines /\ (Heads({"prompt"}) /\ step # "start" => pane'.focus = pane.focus \/ Head(chain).from \in disturbed')
    <3>1. Heads({"prompt"})' <=> Heads({"prompt"})
      BY DEF Heads
    <3>2. QED
      BY <2>1, <3>1 DEF PromptInv, HeadInv, Submitted, KeepsLines
  <2>2. CASE pane.alive /\ pane.focus = "input" /\ pane' = Entered
    <3>1. Heads({"prompt"})' <=> Heads({"prompt"})
      BY DEF Heads
    <3>2. PICK p : p = Head(chain).from
      OBVIOUS
    <3>3. /\ pane'.focus = "input" /\ pane'.box = <<>>
          /\ In(p, pane.box) \/ Submitted(p) => Submitted(p)'
      BY <2>2, EnterLines
    <3>4. QED
      BY <2>2, <3>1, <3>2, <3>3 DEF PromptInv, HeadInv
  <2>3. QED
    BY <2>1, <2>2
<1>4. QED
  BY <1>2, <1>3 DEF PromptInv

\* Every step keeps the prompts whole.
LEMMA PromptStep ==
  ASSUME IInv, PromptInv, [Next]_vars
  PROVE  PromptInv'
<1>0. PaneTypeOK(Item) /\ InputTypeOK /\ ChainInv
  BY DEF IInv, TypeOK
<1>1. CASE Work
  <2>1. \A q \in Prompt : Head(chain).from # q => LineInv(q)'
    BY <1>0, <1>1, OthersKept DEF PromptInv
  <2>2. chain # <<>> /\ (Goes \/ \E ok \in BOOLEAN : EndsWrite(ok))
    BY <1>0, <1>1, WorkMoves
  <2>3. CASE Heads({"prompt"})
    <3>1. Head(chain).from \in Prompt
      BY <1>0, <2>2, <2>3, HeadFields
    <3>2. HeadInv' /\ \A p : p = Head(chain).from => LineInv(p)'
      BY <1>0, <1>1, <2>3, <3>1, HeadKept DEF PromptInv
    <3>3. QED
      BY <2>1, <3>2 DEF PromptInv
  <2>4. CASE ~Heads({"prompt"})
    <3>1. Head(chain).from \notin Prompt
      BY <1>0, <2>2, <2>4, HeadFields
    <3>2. HeadInv'
      <4>1. CASE Goes
        BY <2>4, <4>1 DEF Goes, HeadInv, Heads
      <4>2. CASE \E ok \in BOOLEAN : EndsWrite(ok)
        <5>1. step' = "start"
          BY <4>2 DEF EndsWrite, Finish
        <5>2. QED
          BY <5>1 DEF HeadInv
      <4>3. QED
        BY <2>2, <4>1, <4>2
    <3>3. QED
      BY <2>1, <3>1, <3>2 DEF PromptInv
  <2>5. QED
    BY <2>3, <2>4
<1>2. CASE \E p \in Prompt : SendPrompt(p)
  <2>1. PICK p \in Prompt : SendPrompt(p)
    BY <1>2
  <2>2. PICK w : w = [from |-> p, kind |-> "prompt", n |-> 0]
    OBVIOUS
  <2>3. w \in Write
    BY <2>2 DEF Write
  <2>4. UNCHANGED <<pane, step, disturbed>> /\ chain' = Append(chain, w)
    BY <2>1, <2>2 DEF SendPrompt
  <2>5. \A q \in Prompt : said'[q] = said[q] \/ (said[q] = "unsent" /\ said'[q] = "waiting")
    BY <1>0, <2>1 DEF SendPrompt, InputTypeOK
  <2>6. QED
    BY <1>0, <2>3, <2>4, <2>5, JoinKept
<1>3. CASE \E c \in Conn : Handle(c)
  <2>1. PICK c \in Conn : Handle(c)
    BY <1>3
  <2>2. UNCHANGED <<pane, step, said, disturbed>>
    BY <2>1 DEF Handle
  <2>3. CASE Head(inbox[c]).kind = "bad"
    BY <1>0, <2>1, <2>2, <2>3, StillKept DEF Handle, KeepsLines
  <2>4. CASE Head(inbox[c]).kind # "bad"
    <3>1. PICK w : w = [from |-> c, kind |-> Head(inbox[c]).kind, n |-> Head(inbox[c]).n]
      OBVIOUS
    <3>2. w \in Write
      <4>1. Head(inbox[c]) \in Message
        BY <1>0, <2>1 DEF Handle, InputTypeOK
      <4>2. QED
        BY <2>4, <3>1, <4>1 DEF Write, Message
    <3>3. chain' = Append(chain, w)
      BY <2>1, <2>4, <3>1 DEF Handle
    <3>4. QED
      BY <1>0, <2>2, <3>2, <3>3, JoinKept
  <2>5. QED
    BY <2>3, <2>4
<1>4. CASE /\ UNCHANGED <<chain, step, said>>
           /\ UNCHANGED disturbed \/ Down
           /\ UNCHANGED pane \/ End \/ Forget \/ Greet \/ Down
  <2>1. CASE UNCHANGED pane
    BY <1>0, <1>4, <2>1, StillKept DEF KeepsLines, Down, Disturbs
  <2>2. CASE End \/ Forget
    <3>1. /\ KeepsLines /\ pane'.focus = pane.focus /\ (pane'.alive => pane.alive)
          /\ disturbed \subseteq disturbed'
      BY <1>0, <1>4, <2>2 DEF End, Forget, KeepsLines, PaneTypeOK, Down, Disturbs
    <3>2. QED
      BY <1>0, <1>4, <3>1, StillKept
  <2>3. CASE Greet
    BY <1>0, <1>4, <2>3, StillKept DEF Greet
  <2>4. CASE Down
    <3>1. /\ KeepsLines /\ pane.alive /\ disturbed \subseteq disturbed'
          /\ Heads({"prompt"}) /\ step # "start" => Head(chain).from \in disturbed'
      BY <1>0, <2>4 DEF Down, Disturbs, Lowered, KeepsLines, PaneTypeOK
    <3>2. QED
      BY <1>0, <1>4, <3>1, StillKept
  <2>5. QED
    BY <1>4, <2>1, <2>2, <2>3, <2>4
<1>5. QED
  BY <1>1, <1>2, <1>3, <1>4 DEF Next, vars, inputVars, hubVars, Arrive, Type, Poll, Reads, Channel,
     Open, Send, Tick, Capture, Deliver, Subscribe, Leave, ReadAck, Disconnect, Greet, Down

\* A prompt is submitted whole and alone in its line, and one reported as
\* delivered was submitted, whatever calls fail, connections type and sessions
\* end around it -- unless its text or its return missed the input box unseen.
THEOREM PromptsStayWhole == Spec => []PromptsAreWhole
<1>1. Init => PromptInv
  <2> SUFFICES ASSUME Init PROVE PromptInv
    OBVIOUS
  <2>1. pane.box = <<>> /\ pane.turns = <<>> /\ chain = <<>> /\ \A p \in Prompt : said[p] = "unsent"
    BY DEF Init, PaneInit, InputInit
  <2>2. QED
    BY <2>1 DEF PromptInv, HeadInv, Heads, LineInv, Untyped, Whole, Submitted, In
<1>2. TypeOK /\ PromptInv => PromptsAreWhole
  <2> SUFFICES ASSUME TypeOK, PromptInv, NEW p \in Prompt \ disturbed
               PROVE  /\ said[p] # "failed" =>
                           \A line \in ToSet(pane.turns) \cup {pane.box} :
                             p \in ToSet(line) => Last(line) = p
                      /\ said[p] = "delivered" /\ pane.alive =>
                           \E line \in ToSet(pane.turns) : p \in ToSet(line)
    BY DEF PromptsAreWhole
  <2>1. LineInv(p) /\ pane.box \in Seq(Item) /\ pane.turns \in Seq(Seq(Item) \ {<<>>})
    BY DEF PromptInv, TypeOK, PaneTypeOK
  <2>2. \A line \in Seq(Item) : p \in ToSet(line) <=> In(p, line)
    BY DEF ToSet, In
  <2>3. \A line \in Seq(Item) : Ends(p, line) => Last(line) = p
    BY DEF Last, Ends
  <2>4. /\ ToSet(pane.turns) = {pane.turns[i] : i \in 1..Len(pane.turns)}
        /\ \A i \in 1..Len(pane.turns) : pane.turns[i] \in Seq(Item)
    BY <2>1 DEF ToSet
  <2>5. QED
    BY <2>1, <2>2, <2>3, <2>4 DEF LineInv, Whole, Sealed, Submitted
<1>3. PromptInv /\ IInv /\ [Next]_vars => PromptInv'
  BY PromptStep
<1>4. IInv => TypeOK
  BY DEF IInv
<1>5. QED
  BY <1>1, <1>2, <1>3, <1>4, InvHolds, PTL DEF Spec
=============================================================================
