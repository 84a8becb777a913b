-------------------------- MODULE MCDownstreamFeed --------------------------
(***************************************************************************)
(* TLC instances of DownstreamFeed: small files with messages of the       *)
(* smallest TotalView-ITCH sizes and of sizes around the MTU's limit.      *)
(***************************************************************************)
EXTENDS DownstreamFeed, Functions

\* Sum of the first n sizes.
Total(sizes, n) ==
  FoldFunctionOnSet(LAMBDA x, y : x + y, 0, sizes, 1 .. n)

\* A file of messages of the given sizes and timestamps, cut off after size
\* bytes; a prefix read anywhere but at the start of a message is stray, and
\* a timestamp read there is 1.
MakeFile(sizes, times, size, stray) ==
  LET start(k) == Total(sizes, k - 1)
      starts == [k \in DOMAIN sizes |-> start(k)]
      at(p) == {k \in DOMAIN sizes : starts[k] = p}
      whole(p) == \E k \in at(p) : p + sizes[k] <= size
  IN [size |-> size,
      starts |-> SelectSeq(starts, whole),
      len |-> [p \in 0 .. size |->
                 IF at(p) = {} THEN stray ELSE sizes[CHOOSE k \in at(p) : TRUE] - 2],
      ts |-> [p \in 0 .. size |->
                 IF at(p) = {} THEN 1 ELSE times[CHOOSE k \in at(p) : TRUE]]]

Whole(sizes, times) == MakeFile(sizes, times, Total(sizes, Len(sizes)), 0)

\* With 28 bytes of payload: packets filled exactly, a message that misses by
\* one byte, a file whose first messages are skipped, one with nothing to send,
\* one that is not in the order of time.
CompleteFiles ==
  {Whole(<<14, 14, 28, 14>>, <<1, 1, 2, 2>>),
   Whole(<<15, 14, 14>>, <<1, 2, 3>>),
   Whole(<<14, 14, 14, 14>>, <<0, 0, 1, 1>>),
   Whole(<<14>>, <<0>>),
   Whole(<<14, 14, 14, 14>>, <<1, 0, 0, 1>>)}

\* Cut off inside the last message, with 11 or 20 bytes of it left, where
\* what is read inside it as a prefix is 0 or too long; with 1 byte left; or
\* inside a message that would be skipped.
CutFiles ==
  {MakeFile(<<14, 14, 14>>, <<1, 1, 1>>, 39, 0),
   MakeFile(<<14, 14, 14>>, <<1, 1, 1>>, 39, 60),
   MakeFile(<<14, 28>>, <<1, 1>>, 34, 0),
   MakeFile(<<14, 14>>, <<1, 1>>, 15, 0),
   MakeFile(<<14, 14>>, <<0, 0>>, 27, 0)}

\* One message is larger than any packet.
OversizeFiles == {Whole(<<14, 29, 14>>, <<1, 1, 1>>)}

AllFiles == CompleteFiles \cup CutFiles \cup OversizeFiles

=============================================================================
