----------------------- MODULE MCRetransmissionBuffer -----------------------
(* TLC instances of RetransmissionBuffer. *)
EXTENDS RetransmissionBuffer, IndexMask, TLC

CONSTANTS r1, r2

MCReaders == {r1, r2}
Symmetry == Permutations(MCReaders)

=============================================================================
