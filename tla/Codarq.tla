------------------------------- MODULE Codarq -------------------------------
(***************************************************************************)
(* What the CODARQ encoder and decoder share: the serial numbers on the    *)
(* wire, the packets and the feedback.                                     *)
(***************************************************************************)
EXTENDS Rlnc

CONSTANTS SeqSpace,     \* size of the sequence number space (2^32 in the code)
          RankSpace     \* size of the rank difference field (2^16 in the code)

ASSUME SeqSpaceAssumption == SeqSpace \in Nat \ {0}
ASSUME RankSpaceAssumption == RankSpace \in Nat \ {0}

SeqNos == 0 .. (SeqSpace - 1)

RankDiffs == 0 .. (RankSpace - 1)

(* (int32_t)(a - b) of two uint32_t sequence numbers.                      *)
SeqDiff(a, b) ==
  LET d == (a - b) % SeqSpace
  IN  IF 2 * d < SeqSpace THEN d ELSE d - SeqSpace

Generations == Nat \ {0}

(* A coded packet: the header (generation, rank, sequence number) and the  *)
(* coding vector of the payload.                                           *)
CodedPackets ==
  [generation : Generations, rank : 0 .. Symbols, seqno : SeqNos, vec : Vectors]

(* A feedback packet: the newest generation that left the decoder, its     *)
(* newest sequence number, and per open generation the number of packets   *)
(* it asks for.                                                            *)
Feedbacks ==
  [decoded : Nat, seqno : SeqNos,
   missing : UNION {[gens -> RankDiffs] : gens \in SUBSET Generations}]

=============================================================================
