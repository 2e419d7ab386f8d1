--------------------------- MODULE ReliableStream ---------------------------
(***************************************************************************)
(* What an encoder and a decoder promise together: every source symbol is  *)
(* delivered, once, and in the order it was accepted.                      *)
(***************************************************************************)
EXTENDS Sequences, Naturals

CONSTANT Data

VARIABLES sent, delivered

vars == <<sent, delivered>>

Init == sent = <<>> /\ delivered = <<>>

(* Every accepted symbol is a new one.                                     *)
Put ==
  /\ \E d \in Data :
       /\ \A i \in DOMAIN sent : sent[i] # d
       /\ sent' = Append(sent, d)
  /\ UNCHANGED delivered

Deliver ==
  /\ Len(delivered) < Len(sent)
  /\ delivered' = Append(delivered, sent[Len(delivered) + 1])
  /\ UNCHANGED sent

Next == Put \/ Deliver

Spec == Init /\ [][Next]_vars

FairSpec == Spec /\ WF_vars(Deliver)

=============================================================================
