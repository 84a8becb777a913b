--------------------------- MODULE PacketBuilder ---------------------------
(***************************************************************************)
(* imr::mold::PacketBuilder.  A packet is its header's sequence number,    *)
(* the file positions of its messages and the bytes that are left for more *)
(* of them.  The session is the same in every packet of a server.          *)
(***************************************************************************)
EXTENDS Integers, Sequences

CONSTANTS
  MTU,            \* Config::MTU
  MinMessageSize  \* Config::min_message_size

HeaderLength == 20           \* types::header::length
EndOfSessionCount == 65535   \* types::header::end_of_session_msg_count

\* The constructor throws for an MTU below the header's length and divides by
\* the smallest size of a message.
ASSUME MTUAssumption ==
  /\ MTU \in Nat /\ MTU >= HeaderLength
  /\ MinMessageSize \in Nat \ {0}

\* Mutant: the header is not counted.
resetWhole(seq) == [seq |-> seq, msgs |-> <<>>, bytes_remaining |-> MTU]

reset(seq) == [seq |-> seq, msgs |-> <<>>, bytes_remaining |-> MTU - HeaderLength]

\* Mutant: the space left is not checked.
CanAddAny(p, n) == n # 0

\* try_add() takes a message of n bytes: it returns true, unless its assertion
\* is compiled in and fails.
CanAdd(p, n) == n <= p.bytes_remaining /\ n # 0

\* The assertion, made of a message that is taken.
LongEnough(n) == n >= MinMessageSize

\* Its effect: the message that starts at file position pos is appended.
Added(p, pos, n) ==
  [p EXCEPT !.msgs = Append(@, pos), !.bytes_remaining = @ - n]

\* Mutant: one iovec too many is taken off for the header.
finalizeOneLess(p) ==
  [seq |-> p.seq, count |-> Len(p.msgs) - 1, msgs |-> p.msgs]

\* finalize(): the header's count is a uint16_t.
finalize(p) ==
  [seq |-> p.seq, count |-> Len(p.msgs) % (EndOfSessionCount + 1),
   msgs |-> p.msgs]

=============================================================================
