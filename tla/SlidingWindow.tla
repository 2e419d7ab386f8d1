---------------------------- MODULE SlidingWindow ----------------------------
(***************************************************************************)
(* What the sliding window encoder and decoder (src/sliding_window) share: *)
(* the options they were created with, and the window of the kodo coder    *)
(* both are built on.                                                      *)
(*                                                                         *)
(* Symbols is the size of the window.  Source symbol s (0, 1, ...) is kept *)
(* in slot s % Symbols; a coder with the sequence number `seq' knows the   *)
(* symbols seq - Symbols .. seq - 1.  A coding vector is the set of the    *)
(* source symbols it combines.                                             *)
(***************************************************************************)
EXTENDS Rlnc, RateControl, SequencesExt

CONSTANT Options      \* the configurations to be looked at

VARIABLE opt          \* the one that was chosen: it never changes

(* UINT8_MAX, "100% reliable" as the number of attempts.                   *)
Unlimited == 255

(* The rate control of an encoder as it is configured: "encoder is not     *)
(* allowed to send less symbols than it was given", and a source phase is  *)
(* not empty (assert(source_phase > 0)).                                   *)
ValidRate(rc) ==
  IF IsDual(rc)
  THEN /\ rc.source_phase \in Nat \ {0} /\ rc.repair_phase \in Nat
       /\ rc = DualInit(rc.source_phase, rc.repair_phase)
  ELSE /\ rc.redundancy \in Nat
       /\ rc = CreditInit(Symbols, rc.redundancy)

(* rc: the rate control as configured; tx: tx_attempts; code_window:       *)
(* forward_code_window; period: feedback; the decoder's sequence option is *)
(* the number of the first packet, or not set.  eager: do consumers take   *)
(* symbols inside on_source_ready?  nodes: how many interflow encoders, 0  *)
(* for the plain sliding window.                                           *)
ValidEnds(o) ==
  /\ ValidRate(o.rc)
  /\ o.tx \in 1 .. Unlimited /\ o.fb_tx \in 1 .. Unlimited
  /\ o.code_window \in 0 .. Symbols - 1
  /\ {o.period, o.memory, o.nodes} \subseteq Nat
  /\ o.period = 0 => o.tx = 1
  /\ {o.coded_retrans, o.feedback_only_on_repair, o.enc_timeout, o.sequence,
      o.feedback, o.dec_timeout, o.fb_timeout, o.eager} \subseteq BOOLEAN

(* relay: is there a recoder?  Then redundancy and rec_window are its      *)
(* options redundancy and forward_code_window; tap: has it a consumer for  *)
(* source symbols?  near: do the encoders hear the decoder, too?           *)
(* overheard: may the decoder hear the encoder, too?                       *)
ValidRelay(o) ==
  /\ {o.relay, o.tap, o.near, o.overheard} \subseteq BOOLEAN
  /\ o.tap \/ o.near \/ o.overheard => o.relay
  /\ o.redundancy \in Int /\ o.rec_window \in 0 .. Symbols

(* The network.  Bounds: source symbols and packets of an encoder, packets *)
(* lost or duplicated, packets and feedback in flight on a hop, feedback   *)
(* numbers.  reorder: may a hop reorder?  zero: may all coefficients be    *)
(* drawn as zero?  patient: do timeouts wait for what is in flight?        *)
ValidNetwork(o) ==
  /\ {o.source, o.packets, o.faults, o.reports} \subseteq Nat
  /\ {o.data_capacity, o.feedback_capacity} \subseteq Nat \ {0}
  /\ {o.reorder, o.zero, o.patient} \subseteq BOOLEAN

ValidOptions(o) == ValidEnds(o) /\ ValidRelay(o) /\ ValidNetwork(o)

ASSUME OptionsAssumption == \A o \in Options : ValidOptions(o)

-----------------------------------------------------------------------------
Slots == 0 .. Symbols - 1

Slot(s) == s % Symbols

WindowOf(seq) == seq - Symbols .. seq - 1

(* The symbol in slot i of a coder.                                        *)
SymbolAt(seq, i) == CHOOSE s \in WindowOf(seq) : Slot(s) = i

(* A coder that moves on forgets the rows that reach out of its window: in *)
(* echelon form the row of a pivot that leaves goes, all others stay.      *)
Kept(span, seq) == {v \in span : v \subseteq WindowOf(seq)}

(* The span and sequence number after read_payload.  A coder without rows  *)
(* takes any sequence number over; an outdated vector, and one with a      *)
(* symbol that has left the window (a conflict), is not read.              *)
KodoSeq(seq, span, pkt) ==
  IF span = EmptySpan \/ pkt.seq > seq THEN pkt.seq ELSE seq

KodoSpan(seq, span, pkt) ==
  LET now  == KodoSeq(seq, span, pkt)
      kept == Kept(span, now)
  IN IF pkt.seq > now - Symbols /\ pkt.vec \subseteq WindowOf(now)
     THEN ReadPayload(kept, pkt.vec)
     ELSE kept

=============================================================================
