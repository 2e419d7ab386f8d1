----------------------------- MODULE LossyStream -----------------------------
(***************************************************************************)
(* What every protocol of the library promises over any network: symbols   *)
(* may be missing, but none is handed out twice, out of order, or without  *)
(* having been put in.                                                     *)
(***************************************************************************)
EXTENDS Sequences, Naturals

VARIABLES sent,       \* how many symbols were put in
          delivered   \* the numbers of those handed out

vars == <<sent, delivered>>

Init == sent = 0 /\ delivered = <<>>

Put == sent' = sent + 1 /\ UNCHANGED delivered

Newest == IF delivered = <<>> THEN 0 ELSE delivered[Len(delivered)]

Ascending(numbers) ==
  \A i, j \in DOMAIN numbers : i < j => numbers[i] < numbers[j]

(* One call may hand out several symbols, skipping what is missing.        *)
Deliver ==
  /\ delivered' # delivered
  /\ \E length \in 1 .. sent : \E numbers \in [1 .. length -> Newest + 1 .. sent] :
       Ascending(numbers) /\ delivered' = delivered \o numbers
  /\ UNCHANGED sent

Next == Put \/ Deliver

Spec == Init /\ [][Next]_vars

=============================================================================
