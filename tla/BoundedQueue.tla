---------------------------- MODULE BoundedQueue ----------------------------
(***************************************************************************)
(* What a message broker promises its users: a message that is published   *)
(* while there is room is delivered, once, in the order of publication; a  *)
(* message that finds no room is lost.  Only an emergency empties the      *)
(* queue, and there is no way back from it.                                *)
(***************************************************************************)
EXTENDS Naturals, Sequences

CONSTANTS Message, Room

VARIABLES queue, emergency

queueVars == <<queue, emergency>>

Init == queue = <<>> /\ emergency = FALSE

Publish(message) ==
  /\ Len(queue) < Room
  /\ queue' = Append(queue, message)
  /\ UNCHANGED emergency

Deliver ==
  /\ queue # <<>>
  /\ queue' = Tail(queue)
  /\ UNCHANGED emergency

Clear == queue' = <<>> /\ emergency' = TRUE

Next == (\E message \in Message : Publish(message)) \/ Deliver \/ Clear

Spec == Init /\ [][Next]_queueVars

\* Messages do not wait for ever, unless there is an emergency.
FairSpec == Spec /\ WF_queueVars(Deliver /\ ~emergency)

=============================================================================
