----------------------------- MODULE BinaryIO -----------------------------
(***************************************************************************)
(* imr::util::binary_io and itch::extract_timestamp() byte by byte: how    *)
(* the numbers of a MoldUDP64 header and of an ITCH message get on and off *)
(* the wire.  A buffer is a sequence of bytes, an offset counts from 0 as  *)
(* in the code.  The other modules use the numbers themselves; that this   *)
(* is sound is what the assumptions below say, which TLC evaluates.        *)
(***************************************************************************)
EXTENDS Integers, Sequences
LOCAL INSTANCE SequencesExt

CONSTANT Base  \* how many values a byte has: 256, or fewer for TLC

ASSUME BaseAssumption == Base \in Nat /\ Base > 1

ByteValues == 0 .. Base - 1
Hosts == {"little", "big"}   \* std::endian::native

\* The number whose digits are bytes, the most significant one first.
Number(bytes) ==
  LET n[k \in 0 .. Len(bytes)] ==
        IF k = 0 THEN 0 ELSE n[k - 1] * Base + bytes[k]
  IN n[Len(bytes)]

Digits(value, size) == [k \in 1 .. size |-> (value \div Base ^ (size - k)) % Base]

\* A number in the memory of a host.
InMemory(host, value, size) ==
  IF host = "big" THEN Digits(value, size) ELSE Reverse(Digits(value, size))

FromMemory(host, bytes) ==
  IF host = "big" THEN Number(bytes) ELSE Number(Reverse(bytes))

\* std::byteswap
byteswap(value, size) == Number(Reverse(Digits(value, size)))

to_be(host, value, size) ==
  IF host = "big" THEN value ELSE byteswap(value, size)

read(host, buf, pos, size) == FromMemory(host, SubSeq(buf, pos + 1, pos + size))

write(host, buf, pos, value, size) ==
  [k \in DOMAIN buf |->
     IF k \in pos + 1 .. pos + size THEN InMemory(host, value, size)[k - pos]
     ELSE buf[k]]

read_at_be(host, buf, offset, size) ==
  to_be(host, read(host, buf, offset, size), size)

write_at_be(host, buf, offset, value, size) ==
  write(host, buf, offset, to_be(host, value, size), size)

\* The 6 bytes are copied to the front of a zeroed uint64_t, which is swapped
\* and shifted.
extract_timestamp(host, bytes) ==
  byteswap(FromMemory(host, SubSeq(bytes, 6, 11) \o <<0, 0>>), 8) \div Base ^ 2

-----------------------------------------------------------------------------
\* types::header: the offsets of the fields after the session.
sequence_number_offset == 10
message_count_offset == 18
header_length == 20

\* bound: sequence numbers of every length, with a last and a first digit
SequenceNumbers ==
  {0, 1, Base ^ 8 - 1} \cup {Base ^ k + 1 : k \in 1 .. 7}

MessageCounts == 0 .. Base ^ 2 - 1

EmptyHeader == [k \in 1 .. header_length |-> 0]

Header(host, seq, count) ==
  write_at_be(host,
              write_at_be(host, EmptyHeader, sequence_number_offset, seq, 8),
              message_count_offset, count, 2)

\* On every host the header on the wire holds its numbers with the most
\* significant byte first, side by side and clear of the session, and a
\* server on any host reads back what a server on any other has written.
ASSUME HeaderIsBigEndian ==
  \A host \in Hosts, seq \in SequenceNumbers, count \in MessageCounts :
    LET header == Header(host, seq, count) IN
      /\ header = SubSeq(EmptyHeader, 1, sequence_number_offset)
                    \o Digits(seq, 8) \o Digits(count, 2)
      /\ \A other \in Hosts :
           /\ read_at_be(other, header, sequence_number_offset, 8) = seq
           /\ read_at_be(other, header, message_count_offset, 2) = count

\* On a little-endian host a timestamp is the 48-bit number at offset 5.  (The
\* swap is not conditional on the host as that of to_be() is.)
ASSUME TimestampIsBigEndian ==
  \A bytes \in [1 .. 6 -> ByteValues] :
    extract_timestamp("little", <<0, 0, 0, 0, 0>> \o bytes) = Number(bytes)

=============================================================================
