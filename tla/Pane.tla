-------------------------------- MODULE Pane --------------------------------
(***************************************************************************)
(* The pane of one managed session as tmux and the assistant in it treat   *)
(* the keys it is sent: what the hub captures and the channels write into. *)
(* External to the repository; what a key does is what                     *)
(* sessions/input-focus.ts and sessions/submit-check.ts record of it.      *)
(***************************************************************************)
EXTENDS Naturals, Sequences, SequencesExt, FiniteSets

VARIABLE pane  \* alive, managed (its registry row), focus, box, turns

PaneInit ==
  pane = [alive |-> TRUE, managed |-> TRUE, focus |-> "input",
          box |-> <<>>, turns |-> <<>>]

\* Text goes to the input box, or is lost while a list has the focus.
Typed(item) ==
  IF pane.focus = "input" THEN [pane EXCEPT !.box = Append(@, item)] ELSE pane

\* Enter submits what the box holds, opens the list's row, or closes its view.
Entered ==
  IF pane.focus = "tasks" THEN [pane EXCEPT !.focus = "overlay"]
  ELSE IF pane.focus = "overlay" THEN [pane EXCEPT !.focus = "input"]
  ELSE IF pane.box = <<>> THEN pane
  ELSE [pane EXCEPT !.turns = Append(@, pane.box), !.box = <<>>]

Escaped == [pane EXCEPT !.focus = "input"]

\* Down moves from the box into the list of background agents.
Lowered == [pane EXCEPT !.focus = "tasks"]

\* What a capture of the pane shows.
Screen == <<pane.focus, pane.box, pane.turns>>

\* The session ends; its row is forgotten some time later.
End ==
  /\ pane.alive
  /\ pane' = [pane EXCEPT !.alive = FALSE]

Forget ==
  /\ ~pane.alive /\ pane.managed
  /\ pane' = [pane EXCEPT !.managed = FALSE]

PaneTypeOK(Item) ==
  /\ pane \in [alive : BOOLEAN, managed : BOOLEAN, focus : {"input", "tasks", "overlay"},
               box : Seq(Item), turns : Seq(Seq(Item) \ {<<>>})]
  /\ pane.alive => pane.managed
=============================================================================
