----------------------------- MODULE IndexMask -----------------------------
(***************************************************************************)
(* RetransmissionBuffer::index_for() with the bit operations of the code.  *)
(* The constructor chooses between a mask and a division; both must be the *)
(* remainder that RetransmissionBuffer.tla uses.  TLC evaluates the        *)
(* assumption below for every size and number up to the bounds.            *)
(***************************************************************************)
EXTENDS Integers, Bitwise

MaxMaskSize == 20   \* bound: buffer sizes
MaxMaskSeq == 70    \* bound: sequence numbers

mask_(size) == size - 1

use_mask_(size) == size # 0 /\ (size & mask_(size)) = 0

masked_index_for(size, s) ==
  IF use_mask_(size) THEN s & mask_(size) ELSE s % size

\* The index is the remainder, in particular within the buffer, for sizes
\* that are powers of two and for all others.
ASSUME IndexIsRemainder ==
  \A size \in 1 .. MaxMaskSize, s \in 0 .. MaxMaskSeq :
    masked_index_for(size, s) = s % size

=============================================================================
