---------------------------- MODULE MessageFile ----------------------------
(***************************************************************************)
(* The memory-mapped ITCH file as imr::mold::io, peek_timestamp() and      *)
(* itch::extract_timestamp() read it.                                      *)
(*                                                                         *)
(* A file is a record: size, its number of bytes; len[p], the value of the *)
(* two bytes at p read as a big-endian length prefix; ts[p], the value of  *)
(* the timestamp field of a message that starts at p; and starts, the      *)
(* positions at which the complete messages begin, in order, which the     *)
(* code does not know and only properties use.                             *)
(***************************************************************************)
EXTENDS Integers, Sequences

LengthPrefixSize == 2   \* sizeof(types::LengthPrefix)
timestamp_size == 6     \* itch::timestamp_size
timestamp_offset == 5   \* in extract_timestamp()

\* get_and_check_length_prefix() succeeds at pos.
Readable(f, pos) ==
  /\ pos + LengthPrefixSize <= f.size
  /\ pos + LengthPrefixSize + f.len[pos] <= f.size

\* Mutants: the length is not checked against the file; the prefix is not
\* counted as part of the message.
PositionAfterUnchecked(f, pos) == pos + LengthPrefixSize + f.len[pos]
PositionAfterNoPrefix(f, pos) == IF Readable(f, pos) THEN pos + f.len[pos] ELSE pos

\* The position it leaves behind: read_be() has already moved past the
\* prefix when the length is found to overrun the file.
PositionAfter(f, pos) ==
  IF pos + LengthPrefixSize > f.size THEN pos
  ELSE IF Readable(f, pos) THEN pos + LengthPrefixSize + f.len[pos]
  ELSE pos + LengthPrefixSize

\* The bytes of the span read_message() returns; 0 is the empty span.
MessageSize(f, pos) ==
  IF Readable(f, pos) THEN LengthPrefixSize + f.len[pos] ELSE 0

\* Mutant: a last message of the smallest size is not replayed.
CanPeekMore(f, pos) == f.size - pos > 14

\* peek_timestamp() has a value: it checks for a prefix and a timestamp, not
\* for the bytes in front of the timestamp.
CanPeek(f, pos) == f.size - pos >= LengthPrefixSize + timestamp_size

\* What extract_timestamp() requires of the bytes it is given.
TimestampInBounds(f, pos) ==
  f.size - pos >= LengthPrefixSize + timestamp_offset + timestamp_size

\* The timestamps peek_timestamp() may return; a read past the end of the
\* file yields any, the 0 of a page's unused tail among them.
PeekedTimestamps(f, pos) ==
  IF TimestampInBounds(f, pos) THEN {f.ts[pos]}
  ELSE {0} \cup {f.ts[p] : p \in DOMAIN f.ts}

\* Every prefix and timestamp inside the file has a value.
IsFile(f) ==
  /\ f.size \in Nat
  /\ f.len \in [0 .. f.size -> Nat]
  /\ f.ts \in [0 .. f.size -> Nat]

\* Where a message that starts at pos ends in the format of the file.
MessageEnd(f, pos) == pos + LengthPrefixSize + f.len[pos]

\* starts is what it says: the messages follow each other from the first byte
\* on, and where the last one ends there is no complete one.
StartsAreMessages(f) ==
  /\ f.starts \in Seq(Nat)
  /\ \A k \in 1 .. Len(f.starts) :
       /\ f.starts[k] = IF k = 1 THEN 0 ELSE MessageEnd(f, f.starts[k - 1])
       /\ Readable(f, f.starts[k])
  /\ ~Readable(f, IF f.starts = <<>> THEN 0
                  ELSE MessageEnd(f, f.starts[Len(f.starts)]))

=============================================================================
