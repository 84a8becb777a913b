------------------------ MODULE MCRetransmissionFeed ------------------------
(* TLC instance of RetransmissionFeed. *)
EXTENDS RetransmissionFeed, BinaryIO, IndexMask

CONSTANTS r1, session, other

MCReaders == {r1}

\* Six messages, the first of them skipped, and three bytes that do not make a
\* message at the end.
MCFile ==
  LET starts == <<0, 14, 28, 43, 57, 71>>
      sizes == <<14, 14, 15, 14, 14, 14>>
      at(p) == {k \in 1 .. 6 : starts[k] = p}
  IN [size |-> 88,
      starts |-> starts,
      len |-> [p \in 0 .. 88 |->
                 IF at(p) = {} THEN 9 ELSE sizes[CHOOSE k \in at(p) : TRUE] - 2],
      ts |-> [p \in 0 .. 88 |-> 1]]

MCPositions == {14, 28, 43, 57, 71}

Datagram(size, sess, s, count) ==
  [size |-> size, session |-> sess, seq |-> s, count |-> count]

\* More messages than fit, the second by a byte; more than there are, which
\* fill the packet exactly; none, in a datagram that is too long; the ends of
\* the range of sequence numbers; and another session.
MCRequests ==
  {Datagram(20, session, 1, 3), Datagram(20, session, 4, 3),
   Datagram(21, session, 2, 0), Datagram(20, session, 0, 1),
   Datagram(20, session, 7, 1), Datagram(20, other, 1, 1)}

=============================================================================
