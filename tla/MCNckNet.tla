------------------------------ MODULE MCNckNet ------------------------------
(***************************************************************************)
(* The networks TLC checks NckNet on.                                      *)
(***************************************************************************)
EXTENDS NckNet

Plain ==
  [protocol |-> "nocode", relay |-> FALSE, tap |-> FALSE, eager |-> FALSE,
   reorder |-> FALSE, drain |-> FALSE, fill |-> TRUE, flush |-> TRUE, timeout |-> TRUE,
   systematic |-> TRUE, redundancy |-> 1,
   pace_redundancy |-> 120, tail_redundancy |-> 100,
   max_active |-> 2, max_history |-> 2, ratio |-> 150, tail |-> 0,
   feedback |-> TRUE, window |-> 2, zero |-> FALSE,
   source |-> 3, faults |-> 1, packets |-> 12, capacity |-> 1]

Relayed(o) == [o EXCEPT !.relay = TRUE]

Nocode == [Plain EXCEPT !.fill = FALSE]
Noack  == [Plain EXCEPT !.protocol = "noack"]
Pace   == [Plain EXCEPT !.protocol = "pace"]
Pacemg == [Plain EXCEPT !.protocol = "pacemg", !.drain = TRUE]
Gsaw   == [Plain EXCEPT !.protocol = "gsaw"]
Tetrys == [Plain EXCEPT !.protocol = "tetrys"]

(* Every protocol, without and with a relay where it has one, and with     *)
(* applications that take symbols at once, later or in part; packets       *)
(* overtake each other where the protocol can tell.  Timers and losses are *)
(* not combined where there is a relay, but for NOCODE.  Three generations *)
(* of NOACK and PACE, so that a queue can be overwritten, and of PACEMG at *)
(* a time, so that the newest can be done before the oldest.               *)
Networks ==
  {Nocode,
   Relayed([Nocode EXCEPT !.tap = TRUE]),
   Relayed([Nocode EXCEPT !.eager = TRUE]),
   [Noack EXCEPT !.reorder = TRUE, !.capacity = 2],
   [Noack EXCEPT !.source = 5],
   [Noack EXCEPT !.redundancy = 0],
   [Noack EXCEPT !.systematic = FALSE, !.redundancy = 2, !.eager = TRUE],
   Relayed([Noack EXCEPT !.faults = 0]),
   Relayed([Noack EXCEPT !.timeout = FALSE, !.tap = TRUE, !.capacity = 2]),
   [Pace EXCEPT !.reorder = TRUE, !.capacity = 2],
   [Pace EXCEPT !.source = 5],
   Relayed([Pace EXCEPT !.faults = 0, !.eager = TRUE]),
   Relayed([Pace EXCEPT !.timeout = FALSE, !.reorder = TRUE, !.capacity = 2]),
   [Pacemg EXCEPT !.source = 5, !.capacity = 2, !.packets = 10],
   [Pacemg EXCEPT !.ratio = 200, !.tail = 1, !.packets = 8],
   [Pacemg EXCEPT !.max_active = 3, !.source = 5, !.capacity = 2, !.packets = 8],
   Gsaw,
   [Gsaw EXCEPT !.reorder = TRUE, !.drain = TRUE, !.capacity = 2, !.source = 5],
   [Gsaw EXCEPT !.redundancy = 2, !.eager = TRUE],
   [Tetrys EXCEPT !.window = 3],
   [Tetrys EXCEPT !.capacity = 2, !.faults = 0],
   [Tetrys EXCEPT !.eager = TRUE]}

=============================================================================
