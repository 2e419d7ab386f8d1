----------------------------- MODULE RingBuffer -----------------------------
(***************************************************************************)
(* The non-linear ring buffer of contrib/rbufmgr.h: which sequence numbers *)
(* can be read, and in which slot of the ring each of them is.  A ring     *)
(* buffer is a record: num readable blocks that end with write_seqno, the  *)
(* slot of the next write and the slot of the next read.  Sequence numbers *)
(* are not wrapped (the code's are 32 bits wide).                          *)
(***************************************************************************)
EXTENDS Integers

CONSTANT Blocks       \* max_blocks, at least 1

RingBuffers ==
  [num_blocks : 0 .. Blocks, write_seqno : Int,
   write_index : 0 .. Blocks - 1, read_index : 0 .. Blocks - 1]

(* rbufmgr_init, with 1 as the first sequence number expected              *)
RbInit ==
  [num_blocks |-> 0, write_seqno |-> 0, write_index |-> 0, read_index |-> 0]

RbEmpty(rb) == rb.num_blocks = 0

RbReadSeqno(rb) == rb.write_seqno - rb.num_blocks

(* rbufmgr_read, `n' times over: the slots are given up, oldest first.     *)
RbRead(rb, n) ==
  [rb EXCEPT !.read_index = (@ + n) % Blocks, !.num_blocks = @ - n]

(* The slot of the block that is read after `k' others.                    *)
RbSlot(rb, k) == (rb.read_index + k) % Blocks

RbOutdated(rb, seqno) ==
  seqno <= rb.write_seqno /\ rb.write_seqno - seqno >= rb.num_blocks

-----------------------------------------------------------------------------
(* rbufmgr_shift_distance: how far the window moves for seqno, and how     *)
(* many readable blocks fall out of it.                                    *)
RbShift(rb, seqno) ==
  IF seqno > rb.write_seqno THEN seqno - rb.write_seqno ELSE 0

RbLost(rb, seqno) ==
  LET shift == RbShift(rb, seqno)
      free  == Blocks - rb.num_blocks
  IN IF shift >= Blocks THEN rb.num_blocks
     ELSE IF shift > free THEN shift - free
     ELSE 0

(* Mutant: blocks that were overwritten are still counted as readable.     *)
RbInsertNoDrop(rb, seqno) ==
  LET shift == RbShift(rb, seqno)
  IN IF shift = 0 THEN rb
     ELSE [rb EXCEPT !.write_seqno = seqno,
                     !.write_index = (@ + shift) % Blocks,
                     !.num_blocks = IF @ + shift <= Blocks THEN @ + shift ELSE Blocks]

(* rbufmgr_insert                                                          *)
RbInsert(rb, seqno) ==
  LET shift == RbShift(rb, seqno)
      next  == (rb.write_index + shift) % Blocks
  IN IF shift = 0 THEN rb
     ELSE [rb EXCEPT
             !.write_seqno = seqno,
             !.write_index = next,
             !.num_blocks  = IF Blocks - @ >= shift THEN @ + shift ELSE Blocks,
             !.read_index  = IF Blocks - rb.num_blocks >= shift THEN @ ELSE next]

-----------------------------------------------------------------------------
(* Every readable block is in the slot the decoder and kodo look for it:   *)
(* its number modulo the size of the ring.                                 *)
RbAligned(rb) ==
  /\ rb.read_index = RbReadSeqno(rb) % Blocks
  /\ rb.write_index = rb.write_seqno % Blocks

=============================================================================
