----------------------------- MODULE RateControl -----------------------------
(***************************************************************************)
(* The rate control of src/util: what an encoder sends next, a source      *)
(* symbol or a repair packet, and whether it takes another symbol.  The    *)
(* dual phase algorithm alternates phases of a fixed length; the credit    *)
(* algorithm spends max_symbols credits for a packet, from a counter that  *)
(* every new symbol fills by max_symbols + redundancy.                     *)
(***************************************************************************)
EXTENDS Integers

DualInit(source_phase, repair_phase) ==
  [algo |-> "dual", source_phase |-> source_phase, repair_phase |-> repair_phase,
   source_counter |-> source_phase, repair_counter |-> 0]

(* advance_use, advance_credit: has the coder told how far its window has  *)
(* moved, and what it may keep back (or, negative, still has to send).     *)
CreditInit(max_symbols, redundancy) ==
  [algo |-> "credit", max_symbols |-> max_symbols, redundancy |-> redundancy,
   counter |-> 0, advance_use |-> FALSE, advance_credit |-> 0]

IsDual(rc) == rc.algo = "dual"

(* The counters are unsigned: none of them may be counted below zero.      *)
RateTyped(rc) ==
  IF IsDual(rc) THEN {rc.source_counter, rc.repair_counter} \subseteq Nat
  ELSE rc.counter \in Nat /\ rc.advance_use \in BOOLEAN /\ rc.advance_credit \in Int

-----------------------------------------------------------------------------
NextRepair(rc, source_symbols) ==
  IF IsDual(rc)
  THEN rc.source_counter = 0
  ELSE source_symbols = 0 /\ rc.counter >= rc.max_symbols

HasRepair(rc) ==
  IF IsDual(rc) THEN rc.repair_phase > 0 ELSE rc.redundancy > 0

InsertAllowed(rc, source_symbols) ==
  IF IsDual(rc)
  THEN source_symbols < rc.source_counter
  ELSE rc.counter < (source_symbols + 1) * rc.max_symbols

AtLeast(x, y) == IF x < y THEN y ELSE x

AtMost(x, y) == IF x > y THEN y ELSE x

(* What a new symbol keeps back of the packet it pays for, or pays for in  *)
(* addition: not more than five packets.                                   *)
KeptBack(rc) ==
  AtLeast(AtMost(rc.advance_credit, rc.max_symbols), -5 * rc.max_symbols)

(* Account for a new symbol, or for one that is sent again (reinsert).     *)
Insert(rc, reinsert) ==
  IF IsDual(rc) THEN rc
  ELSE IF reinsert THEN [rc EXCEPT !.counter = @ + rc.max_symbols]
  ELSE IF ~rc.advance_use
  THEN [rc EXCEPT !.counter = @ + rc.max_symbols + rc.redundancy]
  ELSE [rc EXCEPT !.counter = @ + rc.max_symbols - KeptBack(rc),
                  !.advance_credit = @ - KeptBack(rc) + rc.max_symbols]

(* rate_control_credit_advance: the redundancy is due for every symbol the *)
(* window has moved, whether a packet for it came or not.                  *)
Advance(rc, distance) ==
  [rc EXCEPT
     !.advance_use = TRUE,
     !.advance_credit = AtLeast(@ - (rc.max_symbols + rc.redundancy) * distance,
                                -rc.max_symbols * rc.max_symbols)]

(* rate_control_credit_flush: one credit less than a packet costs.         *)
FlushRate(rc) ==
  IF ~rc.advance_use \/ rc.counter >= rc.max_symbols THEN rc
  ELSE [rc EXCEPT !.counter = rc.max_symbols - 1,
                  !.advance_credit = rc.max_symbols - 1]

-----------------------------------------------------------------------------
(* rate_control_dual_reset                                                 *)
DualReset(rc, repair, packets) ==
  IF repair
  THEN [rc EXCEPT !.source_counter = 0, !.repair_counter = packets]
  ELSE [rc EXCEPT !.source_counter = packets, !.repair_counter = 0]

(* rate_control_credit_reset_source_min and _reset_repair: one packet more *)
CreditReset(rc) ==
  IF rc.counter < rc.max_symbols
  THEN [rc EXCEPT !.counter = @ + rc.max_symbols]
  ELSE rc

ResetSource(rc) ==
  IF IsDual(rc) THEN DualReset(rc, FALSE, rc.source_phase) ELSE rc

ResetSourceMin(rc) ==
  IF IsDual(rc) THEN DualReset(rc, FALSE, 1) ELSE CreditReset(rc)

ResetRepair(rc) ==
  IF IsDual(rc) THEN DualReset(rc, TRUE, rc.repair_phase) ELSE CreditReset(rc)

-----------------------------------------------------------------------------
(* rate_control_dual_step: the last packet of a phase starts the other.    *)
DualStep(rc) ==
  LET left == rc.repair_counter - 1
      more == rc.source_counter - 1
  IN IF rc.source_counter = 0
     THEN [rc EXCEPT !.repair_counter = left,
                     !.source_counter = IF left = 0 THEN rc.source_phase ELSE @]
     ELSE IF rc.repair_phase = 0 THEN rc
     ELSE [rc EXCEPT !.source_counter = more,
                     !.repair_counter = IF more = 0 THEN rc.repair_phase ELSE @]

(* rate_control_step: one packet is taken; NextRepair says which kind.     *)
Step(rc) ==
  IF IsDual(rc) THEN DualStep(rc) ELSE [rc EXCEPT !.counter = @ - rc.max_symbols]

=============================================================================
