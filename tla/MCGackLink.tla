----------------------------- MODULE MCGackLink -----------------------------
(***************************************************************************)
(* The configurations of the GACK coders that TLC looks at.                *)
(***************************************************************************)
EXTENDS GackLink

(* Packets are lost, repeated and reordered; feedback is reliable but late.*)
Link ==
  [relay |-> FALSE, orderly |-> TRUE, source |-> 6, lossy_feedback |-> FALSE,
   reorder |-> TRUE, duplicate |-> TRUE, data_capacity |-> 2, feedback_capacity |-> 2]

(* Applications and a network that do anything: in a generation whose      *)
(* packets overtake each other, and over more than one of them.            *)
Free ==
  [Link EXCEPT !.orderly = FALSE, !.source = 2, !.lossy_feedback = TRUE,
               !.feedback_capacity = 1]

FreeOptions == {Free, [Free EXCEPT !.source = 3, !.data_capacity = 1]}

(* Hops that lose packets and keep the order.                              *)
Relay ==
  [Link EXCEPT !.relay = TRUE, !.source = 5, !.reorder = FALSE, !.duplicate = FALSE,
               !.data_capacity = 1, !.feedback_capacity = 1]

RelayOptions == {Relay, [Relay EXCEPT !.source = 2, !.data_capacity = 2]}

LinkOptions == {Link} \cup FreeOptions \cup RelayOptions

(* Feedback may be lost.                                                   *)
LostAckOptions ==
  {[Link EXCEPT !.source = 4, !.lossy_feedback = TRUE, !.reorder = FALSE,
                !.duplicate = FALSE, !.data_capacity = 1, !.feedback_capacity = 1]}

=============================================================================
