------------------------------ MODULE MCSwLink ------------------------------
(***************************************************************************)
(* The configurations of the sliding window coders that TLC looks at.      *)
(***************************************************************************)
EXTENDS SwLink

Default ==
  [rc |-> DualInit(2, 1), tx |-> Unlimited, code_window |-> 0, period |-> 1,
   feedback_only_on_repair |-> FALSE, coded_retrans |-> FALSE, memory |-> 0,
   enc_timeout |-> TRUE, sequence |-> TRUE, feedback |-> TRUE, dec_timeout |-> TRUE,
   fb_timeout |-> FALSE, fb_tx |-> Unlimited, eager |-> FALSE, nodes |-> 0,
   relay |-> FALSE, tap |-> FALSE, near |-> FALSE, overheard |-> FALSE,
   redundancy |-> 0, rec_window |-> 1,
   source |-> 3, packets |-> 5, faults |-> 2, reports |-> 100,
   data_capacity |-> 2, feedback_capacity |-> 1,
   reorder |-> TRUE, zero |-> FALSE, patient |-> FALSE]

(* With consumers that call back at once and ones that do not: a repair    *)
(* phase or none, credits, a memory of repair packets and a forward code   *)
(* window.                                                                 *)
ReliableOptions ==
  {[Default EXCEPT !.eager = TRUE, !.faults = 1],
   [Default EXCEPT !.rc = DualInit(1, 0), !.eager = TRUE],
   [Default EXCEPT !.rc = CreditInit(2, 1), !.memory = 2, !.code_window = 1,
                   !.feedback_only_on_repair = TRUE]}

(* Two ways to give up: an encoder that sends every symbol once, and a     *)
(* decoder that asks once and then goes on without what is missing.        *)
ResignedOptions ==
  {[Default EXCEPT !.tx = 1, !.period = 0, !.feedback = FALSE, !.sequence = FALSE],
   [Default EXCEPT !.rc = CreditInit(2, 1), !.tx = 1, !.period = 0,
                   !.fb_timeout = TRUE, !.fb_tx = 1, !.faults = 1]}

(* Over a recoder: one between the ends, with an application of its own    *)
(* that takes symbols one by one, one whose packets and the encoder's the  *)
(* decoder hears, and one the encoder hears past.                          *)
Relay ==
  [Default EXCEPT !.relay = TRUE, !.reorder = FALSE, !.faults = 1, !.source = 2,
                  !.packets = 3, !.data_capacity = 1, !.reports = 2]

RelayedOptions ==
  {[Relay EXCEPT !.tap = TRUE],
   [Relay EXCEPT !.rc = DualInit(1, 0), !.eager = TRUE, !.overheard = TRUE, !.source = 3,
                 !.reports = 1],
   [Relay EXCEPT !.near = TRUE, !.source = 3, !.reports = 1]}

(* A recoder whose application takes symbols as soon as it is told, and    *)
(* two losses with a symbol between them.                                  *)
EagerRelay ==
  {[Relay EXCEPT !.rc = DualInit(1, 0), !.tap = TRUE, !.eager = TRUE, !.faults = 2, !.source = 5,
                 !.packets = 5, !.tx = 1, !.period = 0, !.enc_timeout = FALSE,
                 !.feedback = FALSE]}

(* Interflow: one node, without and with a recoder, and two nodes that     *)
(* share a decoder.                                                        *)
InterflowOptions ==
  {[Default EXCEPT !.nodes = 1, !.eager = TRUE, !.packets = 4],
   [Default EXCEPT !.nodes = 2, !.rc = DualInit(1, 0), !.tx = 1, !.period = 0,
                   !.feedback = FALSE, !.source = 2, !.packets = 2],
   [Relay EXCEPT !.nodes = 1, !.tap = TRUE, !.reports = 1]}

LossyOptions ==
  ReliableOptions \cup ResignedOptions \cup InterflowOptions \cup RelayedOptions
    \cup EagerRelay

(* In order, with timeouts above the round trip time.                      *)
LiveOptions ==
  {[o EXCEPT !.source = 4, !.packets = 30, !.faults = 3, !.data_capacity = 1,
             !.reorder = FALSE, !.patient = TRUE] : o \in ReliableOptions}

(* The option coded_retransmissions.                                       *)
CodedOptions ==
  {[Default EXCEPT !.coded_retrans = TRUE, !.source = 2, !.packets = 4, !.faults = 1,
                   !.reorder = FALSE]}

=============================================================================
