---------------------- MODULE RetransmissionFeedProofs ----------------------
(***************************************************************************)
(* Proofs about RetransmissionFeed, for every file, every buffer size,     *)
(* every number of feeds and every sequence of requests and pushes.        *)
(***************************************************************************)
EXTENDS RetransmissionFeed, RetransmissionBufferProofs, MessageFileProofs,
        SequenceTheorems

-----------------------------------------------------------------------------
(* build_packet(). *)

N == Len(File.starts)

Payload == MTU - HeaderLength

LoopState == [packet : [seq : Nat, msgs : Seq(Nat), bytes_remaining : Nat],
              pos : Nat, broke : BOOLEAN]

\* m is n whole messages of the file from the j-th on, and fits a packet.
MessagesFrom(j, m, n) ==
  /\ m \in Seq(Nat) /\ Len(m) = n /\ n \in Nat
  /\ j + n <= N + 1
  /\ \A k \in 1 .. n : m[k] = File.starts[(j + k) - 1]
  /\ MessageAt(File, j + n) - MessageAt(File, j) <= Payload

\* There is no room for one more, or there is not one more.
NoMoreFit(j, n) ==
  \/ j + n = N + 1
  \/ MessageAt(File, j + n + 1) - MessageAt(File, j) > Payload

\* The loop of build_packet(s, File.starts[j], ...) after i turns.
TurnInv(s, j, i, b) ==
  LET n == Len(b.packet.msgs) IN
    /\ b \in LoopState
    /\ b.packet.seq = s
    /\ MessagesFrom(j, b.packet.msgs, n)
    /\ b.packet.bytes_remaining =
         Payload - (MessageAt(File, j + n) - MessageAt(File, j))
    /\ ~b.broke => n = i /\ b.pos = MessageAt(File, j + n)
    /\ b.broke => n < i /\ NoMoreFit(j, n)

\* The recursive function behind the loop is defined for every number of
\* turns: the turns before it can be extended by one more.
LEMMA LoopUnrolls ==
  ASSUME NEW s, NEW pos, NEW count \in Nat
  PROVE  LET turn == BuildLoop(s, pos, count) IN
           /\ turn[0] = [packet |-> reset(s), pos |-> pos, broke |-> FALSE]
           /\ \A i \in 0 .. count - 1 : turn[i + 1] = BuildTurn(turn[i])
<1> DEFINE first == [packet |-> reset(s), pos |-> pos, broke |-> FALSE]
           Unrolls(g, k) ==
             g = [i \in 0 .. k |-> IF i = 0 THEN first ELSE BuildTurn(g[i - 1])]
           U == {k \in 0 .. count : \E g : Unrolls(g, k)}
<1> HIDE DEF first
<1>1. 0 \in U
  <2> DEFINE g == [i \in 0 .. 0 |-> first]
  <2>1. Unrolls(g, 0)
    OBVIOUS
  <2>2. \E h : Unrolls(h, 0)
    <3> HIDE DEF g
    <3> QED BY <2>1
  <2> HIDE DEF Unrolls
  <2> QED
    BY <2>2
<1>2. ASSUME NEW k \in 0 .. count - 1, k \in U
      PROVE  k + 1 \in U
  <2>1. PICK g : Unrolls(g, k)
    BY <1>2
  <2> DEFINE h == [i \in 0 .. k + 1 |->
                     IF i = k + 1 THEN BuildTurn(g[k]) ELSE g[i]]
  <2>2. Unrolls(h, k + 1)
    <3>1. ASSUME NEW i \in 0 .. k + 1
          PROVE  h[i] = IF i = 0 THEN first ELSE BuildTurn(h[i - 1])
      <4>1. CASE i = 0
        BY <2>1, <4>1
      <4>2. CASE i = k + 1
        <5>1. i # 0 /\ h[i] = BuildTurn(g[k]) /\ h[i - 1] = g[k]
          BY <4>2
        <5> QED
          BY <5>1
      <4>3. CASE i \in 1 .. k
        <5>1. i # 0 /\ h[i] = g[i] /\ h[i - 1] = g[i - 1]
          BY <4>3
        <5> QED
          BY <2>1, <4>3, <5>1
      <4> QED
        BY <4>1, <4>2, <4>3
    <3> QED
      BY <3>1
  <2>3. \E x : Unrolls(x, k + 1)
    <3> HIDE DEF h
    <3> QED BY <2>2
  <2> HIDE DEF Unrolls
  <2> QED
    BY <2>3
<1>3. count \in U
  <2> HIDE DEF U
  <2> QED
    BY <1>1, <1>2, IntervalInduction
<1>4. PICK g : Unrolls(g, count)
  BY <1>3
<1>5. Unrolls(BuildLoop(s, pos, count), count)
  BY <1>4, Zenon DEF BuildLoop, first
<1> DEFINE turn == BuildLoop(s, pos, count)
<1> HIDE DEF turn
<1>6. turn = [i \in 0 .. count |-> IF i = 0 THEN first ELSE BuildTurn(turn[i - 1])]
  BY <1>5 DEF turn
<1>7. turn[0] = first
  BY <1>6
<1>8. ASSUME NEW i \in 0 .. count - 1 PROVE turn[i + 1] = BuildTurn(turn[i])
  <2>1. i + 1 \in 0 .. count /\ i + 1 # 0 /\ (i + 1) - 1 = i
    OBVIOUS
  <2> QED
    BY <1>6, <2>1
<1> QED
  BY <1>7, <1>8 DEF turn, first

\* The file of the feeds.
LEMMA FileFacts ==
  /\ N \in Nat /\ Payload \in Nat
  /\ \A k \in 1 .. N :
       /\ File.starts[k] \in Nat
       /\ MessageAt(File, k) = File.starts[k]
       /\ MessageSize(File, File.starts[k]) \in Nat
       /\ MessageSize(File, File.starts[k]) > 0
       /\ PositionAfter(File, File.starts[k]) =
            File.starts[k] + MessageSize(File, File.starts[k])
       /\ MessageAt(File, k + 1) =
            File.starts[k] + MessageSize(File, File.starts[k])
  /\ MessageSize(File, MessageAt(File, N + 1)) = 0
  /\ \A k \in 1 .. N + 1 : MessageAt(File, k) \in Nat
<1>1. IsFile(File) /\ StartsAreMessages(File)
  BY RetransmissionAssumption
<1>2. N \in Nat
  BY <1>1 DEF StartsAreMessages, N
<1>3. Payload \in Nat
  BY MTUAssumption DEF Payload, HeaderLength
<1> QED
  BY <1>1, <1>2, <1>3, MessagesTile DEF N

\* try_add() on a packet.
LEMMA AddedIs ==
  ASSUME NEW s, NEW m, NEW left, NEW pos, NEW n
  PROVE  Added([seq |-> s, msgs |-> m, bytes_remaining |-> left], pos, n) =
           [seq |-> s, msgs |-> Append(m, pos), bytes_remaining |-> left - n]
<1> DEFINE x == Append(m, pos)
           y == left - n
<1>1. Added([seq |-> s, msgs |-> m, bytes_remaining |-> left], pos, n) =
        [[seq |-> s, msgs |-> m, bytes_remaining |-> left]
           EXCEPT !.msgs = x, !.bytes_remaining = y]
  BY DEF Added
<1> HIDE DEF x, y
<1>2. Added([seq |-> s, msgs |-> m, bytes_remaining |-> left], pos, n) =
        [seq |-> s, msgs |-> x, bytes_remaining |-> y]
  BY <1>1
<1> QED
  BY <1>2 DEF x, y

\* One turn of the loop of build_packet().
LEMMA TurnStep ==
  ASSUME NEW s \in Nat, NEW j \in 1 .. N, NEW i \in Nat, NEW b,
         TurnInv(s, j, i, b)
  PROVE  TurnInv(s, j, i + 1, BuildTurn(b))
<1> DEFINE n == Len(b.packet.msgs)
           m == b.packet.msgs
           at == MessageAt(File, j + n)
           from == MessageAt(File, j)
           size == MessageSize(File, b.pos)
           left == b.packet.bytes_remaining
<1>1. /\ b \in LoopState /\ b.packet.seq = s
      /\ MessagesFrom(j, m, n)
      /\ left = Payload - (at - from)
      /\ ~b.broke => n = i /\ b.pos = at
      /\ b.broke => n < i /\ NoMoreFit(j, n)
  BY DEF TurnInv
<1>2. /\ m \in Seq(Nat) /\ left \in Nat /\ b.pos \in Nat /\ b.broke \in BOOLEAN
      /\ b.packet = [seq |-> s, msgs |-> m, bytes_remaining |-> left]
      /\ b = [packet |-> b.packet, pos |-> b.pos, broke |-> b.broke]
  BY <1>1 DEF LoopState
<1>3. n \in Nat /\ j + n \in 1 .. N + 1 /\ N \in Nat /\ j \in Nat
  BY <1>1, FileFacts, SMTT(30) DEF MessagesFrom
<1>4. at \in Nat /\ from \in Nat /\ Payload \in Nat
  BY <1>3, FileFacts
<1>5. CASE b.broke \/ ~CanAdd(b.packet, size)
  <2> DEFINE c == [packet |-> b.packet, pos |-> b.pos, broke |-> TRUE]
  <2>1. BuildTurn(b) = c
    <3>1. BuildTurn(b) = [b EXCEPT !.broke = TRUE]
      BY <1>5 DEF BuildTurn
    <3> QED
      BY <1>2, <3>1
  <2>2. c \in LoopState /\ c.packet = b.packet /\ c.broke = TRUE
    BY <1>1 DEF LoopState
  <2>3. n < i + 1
    BY <1>1, <1>2, <1>3
  <2>4. NoMoreFit(j, n)
    <3>1. CASE b.broke
      BY <1>1, <3>1
    <3>2. CASE ~b.broke /\ j + n = N + 1
      BY <3>2 DEF NoMoreFit
    <3>3. CASE ~b.broke /\ j + n # N + 1
      <4>1. j + n \in 1 .. N
        BY <1>3, <3>3
      <4>2. b.pos = at /\ at = File.starts[j + n]
        BY <1>1, <3>3, <4>1, FileFacts
      <4>3. /\ size \in Nat /\ size > 0
            /\ MessageAt(File, j + n + 1) = at + size
        BY <4>1, <4>2, FileFacts
      <4>4. ~(size <= left)
        BY <1>5, <3>3, <4>3 DEF CanAdd
      <4>5. size \in Nat /\ left = Payload - (at - from)
        BY <1>1, <4>3
      <4> HIDE DEF at, from, size, left, n
      <4>6. (at + size) - from > Payload
        BY <1>2, <1>4, <4>4, <4>5
      <4> QED
        BY <4>3, <4>6 DEF NoMoreFit, from
    <3> QED
      BY <1>2, <3>1, <3>2, <3>3
  <2> HIDE DEF c
  <2> QED
    BY <1>1, <2>1, <2>2, <2>3, <2>4 DEF TurnInv
<1>6. CASE ~b.broke /\ CanAdd(b.packet, size)
  <2>1. b.pos = at /\ n = i /\ size # 0 /\ size <= left
    BY <1>1, <1>6 DEF CanAdd
  <2>2. j + n \in 1 .. N
    <3>1. j + n # N + 1
      BY <2>1, FileFacts
    <3> QED
      BY <1>3, <3>1
  <2>3. /\ at = File.starts[j + n] /\ size \in Nat
        /\ PositionAfter(File, at) = at + size
        /\ MessageAt(File, j + n + 1) = at + size
    BY <2>1, <2>2, FileFacts
  <2> DEFINE m2 == Append(m, at)
             p == [seq |-> s, msgs |-> m2, bytes_remaining |-> left - size]
             c == [packet |-> p, pos |-> at + size, broke |-> FALSE]
  <2>4. BuildTurn(b) = c
    <3>1. Added(b.packet, b.pos, size) = p
      BY <1>2, <2>1, AddedIs, SMTT(30)
    <3> QED
      BY <1>6, <2>1, <2>3, <3>1 DEF BuildTurn
  <2>5. m2 \in Seq(Nat) /\ Len(m2) = n + 1
    BY <1>2, <1>4
  <2>6. \A k \in 1 .. n + 1 : m2[k] = File.starts[(j + k) - 1]
    <3> SUFFICES ASSUME NEW k \in 1 .. n + 1
                 PROVE  m2[k] = File.starts[(j + k) - 1]
      OBVIOUS
    <3>1. CASE k = n + 1
      <4>1. m2[k] = at
        BY <1>2, <1>4, <3>1, AppendProperties
      <4>2. (j + k) - 1 = j + n
        BY <1>3, <3>1
      <4> QED
        BY <2>3, <4>1, <4>2
    <3>2. CASE k \in 1 .. n
      <4>1. m2[k] = m[k]
        BY <1>2, <1>4, <3>2, AppendProperties
      <4> QED
        BY <1>1, <3>2, <4>1 DEF MessagesFrom
    <3> QED
      BY <1>3, <3>1, <3>2
  <2>7. /\ left - size \in Nat
        /\ left - size = Payload - ((at + size) - from)
        /\ (at + size) - from <= Payload
    <3>1. left = Payload - (at - from) /\ size \in Nat /\ size <= left
      BY <1>1, <2>1, <2>3
    <3>2. left \in Nat
      BY <1>2
    <3> HIDE DEF left, size, at, from
    <3> QED
      BY <1>4, <3>1, <3>2
  <2>8. j + (n + 1) = j + n + 1 /\ j + (n + 1) <= N + 1 /\ n + 1 \in Nat
    BY <1>3, <2>2
  <2>9. c \in LoopState /\ at + size \in Nat
    <3>1. at + size \in Nat
      BY <1>4, <2>3
    <3> HIDE DEF m2, at, size, left
    <3> QED
      BY <2>5, <2>7, <3>1 DEF LoopState
  <2>10. MessagesFrom(j, m2, n + 1)
    <3>1. MessageAt(File, j + (n + 1)) - MessageAt(File, j) <= Payload
      BY <2>3, <2>7, <2>8
    <3> HIDE DEF m2, n
    <3> QED
      BY <2>5, <2>6, <2>8, <3>1 DEF MessagesFrom
  <2>11. /\ c.packet.msgs = m2 /\ c.packet.seq = s /\ c.broke = FALSE
         /\ c.packet.bytes_remaining = left - size /\ c.pos = at + size
    OBVIOUS
  <2>12. MessageAt(File, j + (n + 1)) = at + size
    BY <2>3, <2>8
  <2> HIDE DEF c, m2, at, size, left, n, from
  <2>13. c.packet.bytes_remaining =
           Payload - (MessageAt(File, j + (n + 1)) - MessageAt(File, j))
    BY <2>7, <2>11, <2>12 DEF from
  <2> QED
    BY <2>1, <2>4, <2>5, <2>9, <2>10, <2>11, <2>12, <2>13 DEF TurnInv
<1> QED
  BY <1>5, <1>6

\* build_packet() returns messages of the file from the position it is given
\* on, and stops before count only when no more fit or exist.
LEMMA BuildPacketIs ==
  ASSUME NEW s \in Nat, NEW j \in 1 .. N, NEW count \in Nat
  PROVE  LET p == build_packet(s, File.starts[j], count)
             n == Len(p.msgs)
         IN /\ p.seq = s
            /\ MessagesFrom(j, p.msgs, n)
            /\ n <= count
            /\ n < count => NoMoreFit(j, n)
<1> DEFINE pos == File.starts[j]
           turn == BuildLoop(s, pos, count)
           U == {i \in 0 .. count : TurnInv(s, j, i, turn[i])}
<1>1. /\ turn[0] = [packet |-> reset(s), pos |-> pos, broke |-> FALSE]
      /\ \A i \in 0 .. count - 1 : turn[i + 1] = BuildTurn(turn[i])
  BY LoopUnrolls
<1> HIDE DEF turn
<1>2. 0 \in U
  <2> DEFINE p == [seq |-> s, msgs |-> <<>>, bytes_remaining |-> Payload]
             b == [packet |-> p, pos |-> pos, broke |-> FALSE]
  <2>1. turn[0] = b
    BY <1>1 DEF reset, Payload
  <2>2. Payload \in Nat /\ N \in Nat /\ pos \in Nat /\ MessageAt(File, j) = pos
    BY FileFacts
  <2>3. b \in LoopState
    BY <2>2 DEF LoopState
  <2>4. MessagesFrom(j, <<>>, 0)
    <3>1. j + 0 = j /\ j + 0 <= N + 1
      BY <2>2
    <3>2. MessageAt(File, j + 0) - MessageAt(File, j) <= Payload
      BY <2>2, <3>1
    <3> QED
      BY <3>1, <3>2 DEF MessagesFrom
  <2>5. Payload = Payload - (MessageAt(File, j + 0) - MessageAt(File, j))
    <3>1. j + 0 = j
      OBVIOUS
    <3> QED
      BY <2>2, <3>1
  <2>6. pos = MessageAt(File, j + 0) /\ Len(<<>>) = 0
    <3>1. j + 0 = j
      OBVIOUS
    <3> QED
      BY <2>2, <3>1
  <2>7. /\ b.packet.msgs = <<>> /\ b.packet.seq = s /\ b.broke = FALSE
        /\ b.packet.bytes_remaining = Payload /\ b.pos = pos
    OBVIOUS
  <2> HIDE DEF b, p, pos
  <2>8. TurnInv(s, j, 0, b)
    BY <2>3, <2>4, <2>5, <2>6, <2>7 DEF TurnInv
  <2> QED
    BY <2>1, <2>8
<1>3. ASSUME NEW i \in 0 .. count - 1, i \in U PROVE i + 1 \in U
  <2>1. TurnInv(s, j, i + 1, BuildTurn(turn[i]))
    BY <1>3, TurnStep
  <2>2. turn[i + 1] = BuildTurn(turn[i]) /\ i + 1 \in 0 .. count
    BY <1>1
  <2> QED
    BY <2>1, <2>2
<1>4. count \in U
  <2> HIDE DEF U
  <2> QED
    BY <1>2, <1>3, IntervalInduction
<1> DEFINE b == turn[count]
           n == Len(b.packet.msgs)
<1>5. TurnInv(s, j, count, b)
  BY <1>4
<1>6. build_packet(s, File.starts[j], count) = b.packet
  BY DEF build_packet, turn
<1> HIDE DEF b
<1>7. /\ b.packet.seq = s
      /\ MessagesFrom(j, b.packet.msgs, n)
      /\ b.broke \in BOOLEAN
      /\ ~b.broke => n = count
      /\ b.broke => n < count /\ NoMoreFit(j, n)
  BY <1>5 DEF TurnInv, LoopState
<1>8. n <= count /\ (n < count => NoMoreFit(j, n))
  BY <1>7 DEF MessagesFrom
<1> QED
  BY <1>6, <1>7, <1>8

-----------------------------------------------------------------------------
(* The inductive invariant. *)

\* The writer pushes the messages of the file in order.
LogInv ==
  /\ Len(log) <= Len(Sequenced)
  /\ \A k \in 1 .. Len(log) : log[k] = Sequenced[k]

\* What is left of a round of epoll_wait(): each event is in it once, and a
\* datagram it announces is still there.
EventLists ==
  {<<>>, <<"socket">>, <<"shutdown">>, <<"socket", "shutdown">>,
   <<"shutdown", "socket">>}

EventsInv ==
  \A r \in Readers :
    /\ events[r] \in EventLists
    /\ fpc[r] = "wait" => events[r] = <<>>
    /\ fpc[r] = "lookup" => events[r] \in {<<>>, <<"shutdown">>}
    /\ fpc[r] = "dispatch" /\ events[r] \notin {<<>>, <<"shutdown">>} =>
         inbox[r] # <<>>

\* Datagrams taken after the shutdown: none while a round that began before
\* it is still to take its own, one until the shutdown is the next event.
LateInv ==
  \A r \in Readers :
    /\ late[r] <= 2
    /\ ~shutdown => late[r] = 0
    /\ fpc[r] # "stopped" /\ events[r] # <<"shutdown">> => late[r] <= 1
    /\ fpc[r] = "dispatch" /\ events[r] = <<"socket">> => late[r] = 0

\* The lookup in progress is for the request in progress.
RequestInv ==
  \A r \in Readers :
    /\ request[r].count \in 0 .. EndOfSessionCount
    /\ fpc[r] = "lookup" => request[r].seq = seq_num[r]

\* Nothing is found in an empty buffer.
AnswerInv ==
  \A r \in Readers :
    rpc[r] \in {"compare", "fetch"} \/ answer[r] # Nullopt => Len(log) > 0

\* A reply y carries messages of the file from the j-th on, as many as were
\* asked for, fit and exist; j is the message asked for unless the writer has
\* claimed its slot since.
ReplyFrom(y, j) ==
  LET n == Len(y.packet.msgs) IN
    /\ MessagesFrom(j, y.packet.msgs, n)
    /\ n <= y.asked
    /\ n < y.asked => NoMoreFit(j, n)
    /\ y.packet.seq > 0 /\ Len(log) < y.packet.seq + BufferSize =>
         j = Skipped + y.packet.seq

ReplyInv ==
  \A y \in replies :
    /\ y.packet.count = Len(y.packet.msgs)
    /\ \E j \in 1 .. N : ReplyFrom(y, j)

FeedInv ==
  /\ RingInv
  /\ FeedTypeOK
  /\ LogInv
  /\ EventsInv
  /\ LateInv
  /\ RequestInv
  /\ AnswerInv
  /\ ReplyInv

\* The elements of a part of a sequence.
LEMMA SubSeqIs ==
  ASSUME NEW q \in Seq(Nat), NEW s \in 1 .. Len(q) + 1,
         NEW e \in s - 1 .. Len(q)
  PROVE  /\ SubSeq(q, s, e) \in Seq(Nat)
         /\ Len(SubSeq(q, s, e)) = IF s <= e THEN (e - s) + 1 ELSE 0
         /\ \A k \in 1 .. (e - s) + 1 : SubSeq(q, s, e)[k] = q[(s + k) - 1]
<1>1. Len(q) \in Nat /\ s \in Int /\ e \in Int
  OBVIOUS
<1>2. \A k \in s .. e : q[k] \in Nat
  BY <1>1
<1>3. /\ SubSeq(q, s, e) \in Seq(Nat)
      /\ Len(SubSeq(q, s, e)) = IF s <= e THEN e - s + 1 ELSE 0
      /\ \A k \in 1 .. e - s + 1 : SubSeq(q, s, e)[k] = q[s + k - 1]
  BY <1>1, <1>2, SubSeqProperties
<1>4. \A k \in Int : s + k - 1 = (s + k) - 1
  BY <1>1
<1> QED
  BY <1>1, <1>3, <1>4

\* The sequenced messages are messages of the file.
LEMMA SequencedFacts ==
  /\ Len(Sequenced) \in Nat /\ Skipped \in Nat
  /\ N = Skipped + Len(Sequenced)
  /\ \A k \in 1 .. Len(Sequenced) :
       /\ Skipped + k \in 1 .. N
       /\ Sequenced[k] = File.starts[Skipped + k]
       /\ Sequenced[k] \in Positions
<1>1. File.starts \in Seq(Nat) /\ N \in Nat /\ Skipped \in 0 .. N
  BY RetransmissionAssumption DEF StartsAreMessages, N
<1>2. /\ Len(Sequenced) = N - Skipped
      /\ \A k \in 1 .. N - Skipped : Sequenced[k] = File.starts[Skipped + k]
  <2>1. Skipped + 1 \in 1 .. N + 1
    BY <1>1
  <2>2. N = Len(File.starts)
    BY DEF N
  <2>3. SubSeq(File.starts, Skipped + 1, N) =
          [i \in 1 .. N - Skipped |-> File.starts[(i + (Skipped + 1)) - 1]]
    BY <1>1, <2>1, <2>2, SubSeqProperties
  <2> QED
    BY <1>1, <2>1, <2>2, <2>3, SubSeqProperties DEF Sequenced
<1> QED
  BY <1>1, <1>2, RetransmissionAssumption

\* The feeds start in the invariant.
LEMMA FeedInvInit == FeedInit => FeedInv
<1> SUFFICES ASSUME FeedInit PROVE FeedInv
  OBVIOUS
<1>1. RingInv
  BY RingInit DEF FeedInit
<1>2. /\ shutdown = FALSE /\ arrived = 0 /\ replies = {}
      /\ inbox = [r \in Readers |-> <<>>]
      /\ fpc = [r \in Readers |-> "wait"]
      /\ events = [r \in Readers |-> <<>>]
      /\ request = [r \in Readers |-> [seq |-> 0, count |-> 0]]
      /\ late = [r \in Readers |-> 0]
      /\ log = <<>>
      /\ rpc = [r \in Readers |-> "idle"]
      /\ answer = [r \in Readers |-> Nullopt]
  BY DEF FeedInit, BufferInit
<1>3. 0 \in SequenceNumber
  BY BufferAssumption DEF SequenceNumber
<1>4. FeedTypeOK
  <2>1. TypeOK
    BY <1>1 DEF RingInv
  <2>2. arrived \in 0 .. MaxRequests
    BY <1>2, RetransmissionAssumption
  <2>3. request \in [Readers -> [seq : SequenceNumber, count : Nat]]
    BY <1>2, <1>3
  <2>4. inbox \in [Readers -> Seq(Requests)]
    BY <1>2
  <2>5. events \in [Readers -> Seq({"socket", "shutdown"})]
    BY <1>2
  <2> QED
    BY <1>2, <2>1, <2>2, <2>3, <2>4, <2>5 DEF FeedTypeOK
<1>5. LogInv
  BY <1>2, SequencedFacts DEF LogInv
<1>6. EventsInv /\ LateInv
  BY <1>2 DEF EventsInv, LateInv, EventLists
<1>7. RequestInv
  <2> DEFINE none == [seq |-> 0, count |-> 0]
  <2>1. none.count = 0
    OBVIOUS
  <2> HIDE DEF none
  <2>2. \A r \in Readers : request[r].count = 0 /\ fpc[r] # "lookup"
    <3>1. request = [r \in Readers |-> none]
      BY <1>2 DEF none
    <3> QED
      BY <1>2, <2>1, <3>1
  <2>3. 0 \in 0 .. EndOfSessionCount
    BY DEF EndOfSessionCount
  <2> QED
    BY <2>2, <2>3 DEF RequestInv
<1>8. AnswerInv
  BY <1>2 DEF AnswerInv
<1>9. ReplyInv
  BY <1>2 DEF ReplyInv
<1> QED
  BY <1>8, <1>9, <1>1, <1>4, <1>5, <1>6, <1>7 DEF FeedInv

-----------------------------------------------------------------------------
(* The feeds and the downstream thread use the ring as RetransmissionBuffer *)
(* specifies it.                                                            *)

\* The first of a round's events.
LEMMA EventFacts ==
  ASSUME NEW e \in EventLists
  PROVE  /\ e # <<>> /\ Head(e) = "socket" =>
              /\ e \notin {<<>>, <<"shutdown">>}
              /\ e = <<"socket">> => Tail(e) = <<>>
              /\ e = <<"socket", "shutdown">> => Tail(e) = <<"shutdown">>
              /\ e \in {<<"socket">>, <<"socket", "shutdown">>}
              /\ Tail(e) \in {<<>>, <<"shutdown">>}
         /\ e \in Seq({"socket", "shutdown"})
<1>1. CASE e = <<>>
  BY <1>1
<1>2. CASE e = <<"socket">>
  BY <1>2
<1>3. CASE e = <<"shutdown">>
  BY <1>3
<1>4. CASE e = <<"socket", "shutdown">>
  <2>1. Tail(e) = <<"shutdown">> /\ e \in Seq({"socket", "shutdown"})
    BY <1>4
  <2> QED
    BY <1>4, <2>1
<1>5. CASE e = <<"shutdown", "socket">>
  BY <1>5
<1> QED
  BY <1>1, <1>2, <1>3, <1>4, <1>5 DEF EventLists

\* recvfrom() is called when there is a datagram.
LEMMA HeadRequest ==
  ASSUME FeedInv, NEW r \in Readers, TakeDatagram(r)
  PROVE  /\ inbox[r] # <<>> /\ inbox[r] \in Seq(Requests)
         /\ Head(inbox[r]) \in Requests /\ Tail(inbox[r]) \in Seq(Requests)
         /\ Head(inbox[r]).seq \in SequenceNumber
         /\ Head(inbox[r]).count \in 0 .. EndOfSessionCount
<1>1. /\ fpc[r] = "dispatch" /\ events[r] # <<>> /\ Head(events[r]) = "socket"
      /\ events[r] \in EventLists
  BY DEF TakeDatagram, FeedInv, EventsInv
<1>2. inbox[r] # <<>>
  BY <1>1, EventFacts DEF FeedInv, EventsInv
<1>3. inbox[r] \in Seq(Requests)
  BY DEF FeedInv, FeedTypeOK
<1>4. Head(inbox[r]) \in Requests /\ Tail(inbox[r]) \in Seq(Requests)
  BY <1>2, <1>3
<1> QED
  BY <1>2, <1>3, <1>4, RetransmissionAssumption

\* Every step of the feeds is a step of the ring or leaves it alone.  A push
\* is in file order because the messages follow each other in the file.
LEMMA UsesRing ==
  ASSUME FeedInv, [FeedNext]_allVars
  PROVE  [BufferNext]_bufferVars
<1>1. CASE PushNext
  <2> DEFINE k == Len(log) + 1
             pos == Sequenced[k]
  <2>1. PushBegin(pos) /\ Len(log) < Len(Sequenced)
    BY <1>1 DEF PushNext
  <2>2. Len(log) \in Nat /\ \A i \in 1 .. Len(log) : log[i] = Sequenced[i]
    BY DEF FeedInv, RingInv, TypeOK, LogInv
  <2>3. k \in 1 .. Len(Sequenced)
    BY <2>1, <2>2, SequencedFacts
  <2>4. pos \in Positions
    BY <2>3, SequencedFacts
  <2>5. ASSUME NEW i \in 1 .. Len(log) PROVE log[i] < pos
    <3>1. i \in 1 .. Len(Sequenced) /\ i < k
      BY <2>2, <2>3, SequencedFacts
    <3>2. /\ Sequenced[i] = File.starts[Skipped + i]
          /\ pos = File.starts[Skipped + k]
          /\ Skipped + i \in 1 .. N /\ Skipped + k \in 1 .. N
          /\ Skipped + i < Skipped + k
      BY <2>3, <3>1, SequencedFacts
    <3> QED
      BY <2>2, <3>2, StartsIncrease, RetransmissionAssumption DEF N
  <2> HIDE DEF pos
  <2> QED
    BY <2>1, <2>4, <2>5 DEF BufferNext, Push, NextPosition
<1>2. CASE PushStep
  BY <1>2 DEF PushStep, BufferNext, Push
<1>3. ASSUME NEW r \in Readers, ParseRequest(r) PROVE BufferNext
  <2>1. Head(inbox[r]).seq \in SequenceNumber
    BY <1>3, HeadRequest DEF ParseRequest
  <2>2. LookupLoad(r, Head(inbox[r]).seq)
    BY <1>3 DEF ParseRequest
  <2> QED
    BY <2>1, <2>2 DEF BufferNext, Lookup
<1>4. ASSUME NEW r \in Readers, LookupStep(r) PROVE BufferNext
  BY <1>4 DEF LookupStep, BufferNext, Lookup
<1>5. CASE Stop
  BY <1>5 DEF Stop
<1>6. ASSUME NEW r \in Readers,
             Wait(r) \/ SeeShutdown(r) \/ DispatchDone(r) \/ ReceiveFails(r)
               \/ IgnoreRequest(r) \/ OutOfBuffer(r) \/ Reply(r)
      PROVE  UNCHANGED bufferVars
  BY <1>6 DEF Wait, SeeShutdown, DispatchDone, ReceiveFails, IgnoreRequest,
              OutOfBuffer, Reply
<1>7. ASSUME NEW r \in Readers, NEW q \in Requests, Arrive(r, q)
      PROVE  UNCHANGED bufferVars
  BY <1>7 DEF Arrive
<1>8. CASE UNCHANGED allVars
  BY <1>8 DEF allVars
<1> QED
  BY <1>1, <1>2, <1>3, <1>4, <1>5, <1>6, <1>7, <1>8 DEF FeedNext, FeedStep

\* What this says of the state of the ring.
LEMMA RingSide ==
  ASSUME FeedInv, [FeedNext]_allVars
  PROVE  /\ RingInv' /\ LogInv' /\ AnswerInv'
         /\ Len(log) \in Nat /\ Len(log') \in Nat /\ Len(log') >= Len(log)
<1>1. [BufferNext]_bufferVars
  BY UsesRing
<1>2. RingInv'
  BY <1>1, RingStep DEF FeedInv
<1>3. log \in Seq(Nat) /\ log' \in Seq(Nat) /\ Len(log) \in Nat /\ Len(log') \in Nat
  BY <1>2 DEF FeedInv, RingInv, TypeOK
<1>4. \/ log' = log
      \/ PushNext
  BY DEF FeedNext, FeedStep, PushStep, PushStoreSeq, PushStorePos, PushPublish,
         Stop, Wait, SeeShutdown, DispatchDone, ReceiveFails, IgnoreRequest, ParseRequest,
         LookupStep, LookupLoad, LookupCompare, LookupFetch, OutOfBuffer, Reply,
         Arrive, allVars, bufferVars, writerVars
<1>5. ASSUME log' = log PROVE LogInv' /\ Len(log') >= Len(log)
  <2>1. Sequenced' = Sequenced
    BY DEF Sequenced
  <2>2. LogInv'
    BY <1>5, <2>1 DEF FeedInv, LogInv
  <2> QED
    BY <1>3, <1>5, <2>2
<1>6. ASSUME PushNext PROVE LogInv' /\ Len(log') >= Len(log)
  <2>1. /\ Len(log) < Len(Sequenced)
        /\ log' = Append(log, Sequenced[Len(log) + 1])
    BY <1>6 DEF PushNext, PushBegin
  <2>2. Len(Sequenced) \in Nat /\ Sequenced' = Sequenced
    BY SequencedFacts DEF Sequenced
  <2>3. Len(log') = Len(log) + 1
    <3> DEFINE x == Sequenced[Len(log) + 1]
    <3>1. log' = Append(log, x)
      BY <2>1
    <3> HIDE DEF x
    <3> QED
      BY <1>3, <3>1
  <2>4. \A k \in 1 .. Len(log') : log'[k] = Sequenced[k]
    <3> DEFINE x == Sequenced[Len(log) + 1]
    <3>1. log' = Append(log, x)
      BY <2>1
    <3> HIDE DEF x
    <3>2. ASSUME NEW k \in 1 .. Len(log) PROVE log'[k] = Sequenced[k]
      <4>1. log'[k] = log[k]
        BY <1>3, <3>1
      <4> QED
        BY <4>1 DEF FeedInv, LogInv
    <3>3. log'[Len(log) + 1] = x
      BY <1>3, <3>1
    <3>4. \A k \in 1 .. Len(log') : k \in 1 .. Len(log) \/ k = Len(log) + 1
      BY <1>3, <2>3
    <3> QED
      BY <3>2, <3>3, <3>4 DEF x
  <2>5. Len(log') <= Len(Sequenced) /\ Len(log') >= Len(log)
    BY <1>3, <2>1, <2>2, <2>3
  <2> QED
    BY <2>2, <2>4, <2>5 DEF LogInv
<1>7. LogInv' /\ Len(log') >= Len(log)
  BY <1>4, <1>5, <1>6
<1>8. AnswerInv'
  <2>1. ASSUME NEW r \in Readers,
               rpc'[r] \in {"compare", "fetch"} \/ answer'[r] # Nullopt
        PROVE  \/ rpc[r] \in {"compare", "fetch"} \/ answer[r] # Nullopt
               \/ Len(log) > 0
    <3>0. /\ rpc \in [Readers -> {"idle", "compare", "fetch", "returned"}]
          /\ answer \in [Readers -> Nat \cup {Nullopt}]
          /\ write_seq \in Nat /\ write_seq <= Len(log)
      BY DEF FeedInv, RingInv, TypeOK, WriterInv
    <3>1. CASE Push \/ UNCHANGED bufferVars
      <4>1. UNCHANGED <<rpc, answer>>
        BY <3>1 DEF Push, PushBegin, PushStoreSeq, PushStorePos, PushPublish,
                    bufferVars, readerVars
      <4> QED
        BY <2>1, <4>1
    <3>2. ASSUME NEW t \in Readers, NEW s \in SequenceNumber, LookupLoad(t, s)
          PROVE  \/ rpc[r] \in {"compare", "fetch"} \/ answer[r] # Nullopt
                 \/ Len(log) > 0
      <4>1. CASE t # r
        BY <2>1, <3>0, <3>2, <4>1 DEF LookupLoad
      <4>2. CASE t = r
        <5>1. rpc'[r] = IF OutOfRange(s, write_seq) THEN "returned" ELSE "compare"
          BY <3>0, <3>2, <4>2 DEF LookupLoad
        <5>2. answer'[r] = Nullopt
          BY <3>0, <3>2, <4>2 DEF LookupLoad
        <5>3. ~OutOfRange(s, write_seq)
          BY <2>1, <5>1, <5>2
        <5>4. write_seq # 0
          BY <5>3 DEF OutOfRange
        <5> QED
          BY <1>3, <3>0, <5>4
      <4> QED
        BY <4>1, <4>2
    <3>3. ASSUME NEW t \in Readers, LookupCompare(t) \/ LookupFetch(t)
          PROVE  rpc[r] \in {"compare", "fetch"} \/ answer[r] # Nullopt
      BY <2>1, <3>0, <3>3 DEF LookupCompare, LookupFetch
    <3> QED
      BY <1>1, <3>1, <3>2, <3>3 DEF BufferNext, Lookup
  <2>2. ASSUME NEW r \in Readers,
               rpc'[r] \in {"compare", "fetch"} \/ answer'[r] # Nullopt
        PROVE  Len(log') > 0
    <3>1. Len(log) > 0
      BY <2>1, <2>2 DEF FeedInv, AnswerInv
    <3> QED
      BY <1>3, <1>7, <3>1
  <2> QED
    BY <2>2 DEF AnswerInv
<1> QED
  BY <1>2, <1>3, <1>7, <1>8

-----------------------------------------------------------------------------
(* The event loops. *)

LoopInv == FeedTypeOK /\ EventsInv /\ LateInv /\ RequestInv

\* Time only takes promises away: a reply stays as faithful as it was.
LEMMA RepliesKept ==
  ASSUME FeedInv, [FeedNext]_allVars, replies' = replies
  PROVE  ReplyInv'
<1>1. Len(log) \in Nat /\ Len(log') \in Nat /\ Len(log') >= Len(log)
  BY RingSide
<1>2. ASSUME NEW y \in replies, NEW j \in 1 .. N, ReplyFrom(y, j)
      PROVE  ReplyFrom(y, j)'
  <2>1. y.packet.seq \in Nat /\ BufferSize \in Nat
    BY BufferAssumption DEF FeedInv, FeedTypeOK
  <2>2. Len(log') < y.packet.seq + BufferSize => Len(log) < y.packet.seq + BufferSize
    BY <1>1, <2>1
  <2> QED
    BY <1>2, <2>2 DEF ReplyFrom, MessagesFrom, NoMoreFit, N
<1>3. N' = N
  BY DEF N
<1> QED
  BY <1>2, <1>3 DEF FeedInv, ReplyInv

\* A step that leaves the feeds and their arguments alone.
LEMMA LoopUnchanged ==
  ASSUME FeedInv, TypeOK', UNCHANGED feedVars, seq_num' = seq_num
  PROVE  LoopInv'
<1>1. UNCHANGED <<shutdown, arrived, inbox, fpc, events, request, replies, late>>
  BY DEF feedVars
<1>2. FeedTypeOK'
  BY <1>1 DEF FeedInv, FeedTypeOK
<1>3. EventsInv' /\ LateInv'
  BY <1>1 DEF FeedInv, EventsInv, LateInv, EventLists
<1>4. RequestInv'
  BY <1>1 DEF FeedInv, RequestInv
<1> QED
  BY <1>2, <1>3, <1>4 DEF LoopInv

\* A datagram arrives.
LEMMA ArriveLoop ==
  ASSUME FeedInv, TypeOK', NEW r \in Readers, NEW q \in Requests, Arrive(r, q)
  PROVE  LoopInv'
<1>1. /\ arrived < MaxRequests /\ arrived' = arrived + 1
      /\ inbox' = [inbox EXCEPT ![r] = Append(@, q)]
      /\ UNCHANGED <<seq_num, shutdown, fpc, events, request, replies, late>>
  BY DEF Arrive, bufferVars, readerVars
<1>2. inbox \in [Readers -> Seq(Requests)]
  BY DEF FeedInv, FeedTypeOK
<1>3. inbox' \in [Readers -> Seq(Requests)]
  BY <1>1, <1>2
<1>4. arrived' \in 0 .. MaxRequests
  BY <1>1, RetransmissionAssumption DEF FeedInv, FeedTypeOK
<1>5. FeedTypeOK'
  BY <1>1, <1>3, <1>4 DEF FeedInv, FeedTypeOK
<1>6. \A t \in Readers : inbox[t] # <<>> => inbox'[t] # <<>>
  <2> SUFFICES ASSUME NEW t \in Readers, inbox[t] # <<>> PROVE inbox'[t] # <<>>
    OBVIOUS
  <2>1. CASE t # r
    BY <1>1, <1>2, <2>1
  <2>2. CASE t = r
    <3>1. inbox'[r] = Append(inbox[r], q) /\ inbox[r] \in Seq(Requests)
      BY <1>1, <1>2
    <3> QED
      BY <2>2, <3>1, AppendProperties
  <2> QED
    BY <2>1, <2>2
<1>7. EventsInv'
  BY <1>1, <1>6 DEF FeedInv, EventsInv, EventLists
<1>8. LateInv' /\ RequestInv'
  BY <1>1 DEF FeedInv, LateInv, RequestInv
<1> QED
  BY <1>5, <1>7, <1>8 DEF LoopInv

\* The pool is told to stop: no datagram has been taken late yet.
LEMMA StopLoop ==
  ASSUME FeedInv, TypeOK', Stop
  PROVE  LoopInv'
<1>1. /\ ~shutdown /\ shutdown' = TRUE
      /\ UNCHANGED <<seq_num, arrived, inbox, fpc, events, request, replies, late>>
  BY DEF Stop, bufferVars, readerVars
<1>2. FeedTypeOK'
  BY <1>1 DEF FeedInv, FeedTypeOK
<1>3. EventsInv' /\ RequestInv'
  BY <1>1 DEF FeedInv, EventsInv, EventLists, RequestInv
<1>4. LateInv'
  <2>1. \A r \in Readers : late[r] = 0
    BY <1>1 DEF FeedInv, LateInv
  <2> QED
    BY <1>1, <2>1 DEF LateInv
<1> QED
  BY <1>2, <1>3, <1>4 DEF LoopInv

\* What epoll_wait() returns: every event that is ready, once.
LEMMA EpollReturns ==
  ASSUME FeedInv, NEW r \in Readers, Ready(r) # {}, NEW es \in EpollResults(r)
  PROVE  /\ es \in EventLists /\ es # <<>>
         /\ shutdown => es # <<"socket">>
         /\ es # <<"shutdown">> => inbox[r] # <<>>
<1> DEFINE S == Ready(r)
           n == Cardinality(S)
<1>1. /\ es \in [1 .. n -> S] /\ {es[k] : k \in DOMAIN es} = S /\ S # {}
  BY DEF EpollResults
<1>2. /\ S \subseteq {"socket", "shutdown"}
      /\ "socket" \in S <=> inbox[r] # <<>>
      /\ "shutdown" \in S <=> shutdown
  BY DEF Ready, FeedInv, FeedTypeOK
<1> HIDE DEF S
<1>3. CASE S = {"socket", "shutdown"}
  <2>1. n = 2
    <3>1. IsFiniteSet({"socket"}) /\ Cardinality({"socket"}) = 1
      BY FS_Singleton
    <3>2. Cardinality({"socket"} \cup {"shutdown"}) = 1 + 1
      BY <3>1, FS_AddElement
    <3>3. {"socket"} \cup {"shutdown"} = {"socket", "shutdown"}
      OBVIOUS
    <3> QED
      BY <1>3, <3>2, <3>3
  <2>2. es \in [1 .. 2 -> {"socket", "shutdown"}] /\ DOMAIN es = {1, 2}
    BY <1>1, <1>3, <2>1
  <2>3. es = <<es[1], es[2]>>
    BY <2>2
  <2>4. {es[1], es[2]} = {"socket", "shutdown"}
    BY <1>1, <1>3, <2>2
  <2>5. es = <<"socket", "shutdown">> \/ es = <<"shutdown", "socket">>
    BY <2>3, <2>4
  <2> QED
    BY <1>2, <1>3, <2>5 DEF EventLists
<1>4. ASSUME NEW e, S = {e} PROVE es = <<e>>
  <2>1. n = 1
    BY <1>4, FS_Singleton
  <2>2. es \in [1 .. 1 -> {e}]
    BY <1>1, <1>4, <2>1
  <2> QED
    BY <2>2
<1>5. CASE S = {"socket"}
  <2>1. es = <<"socket">>
    BY <1>4, <1>5
  <2>2. ~shutdown
    BY <1>2, <1>5
  <2> QED
    BY <1>2, <1>5, <2>1, <2>2 DEF EventLists
<1>6. CASE S = {"shutdown"}
  <2>1. es = <<"shutdown">>
    BY <1>4, <1>6
  <2> QED
    BY <2>1 DEF EventLists
<1>7. S = {"socket", "shutdown"} \/ S = {"socket"} \/ S = {"shutdown"}
  BY <1>1, <1>2
<1> QED
  BY <1>3, <1>5, <1>6, <1>7

\* epoll_wait() returns: a round begun after the shutdown knows of it.
LEMMA WaitLoop ==
  ASSUME FeedInv, TypeOK', NEW r \in Readers, Wait(r)
  PROVE  LoopInv'
<1>1. PICK es \in EpollResults(r) : events' = [events EXCEPT ![r] = es]
  BY DEF Wait
<1>2. /\ fpc[r] = "wait" /\ Ready(r) # {}
      /\ fpc' = [fpc EXCEPT ![r] = "dispatch"]
      /\ UNCHANGED <<seq_num, shutdown, arrived, inbox, request, replies, late>>
  BY DEF Wait, bufferVars, readerVars
<1>3. /\ es \in EventLists /\ es # <<>>
      /\ shutdown => es # <<"socket">>
      /\ es # <<"shutdown">> => inbox[r] # <<>>
  BY <1>2, EpollReturns
<1>4. /\ events \in [Readers -> Seq({"socket", "shutdown"})]
      /\ fpc \in [Readers -> {"wait", "dispatch", "lookup", "stopped"}]
      /\ shutdown \in BOOLEAN
  BY DEF FeedInv, FeedTypeOK
<1>5. /\ events'[r] = es /\ fpc'[r] = "dispatch"
      /\ \A t \in Readers \ {r} : events'[t] = events[t] /\ fpc'[t] = fpc[t]
  BY <1>1, <1>2, <1>4
<1>6. FeedTypeOK'
  <2>1. es \in Seq({"socket", "shutdown"})
    BY <1>3, EventFacts
  <2>2. events' \in [Readers -> Seq({"socket", "shutdown"})]
    BY <1>1, <1>4, <2>1
  <2> QED
    BY <1>2, <1>4, <2>2 DEF FeedInv, FeedTypeOK
<1>7. EventsInv'
  BY <1>2, <1>3, <1>5 DEF FeedInv, EventsInv, EventLists
<1>8. LateInv'
  <2>1. late[r] <= 1 /\ late[r] <= 2 /\ (~shutdown => late[r] = 0)
    <3>1. events[r] = <<>>
      BY <1>2 DEF FeedInv, EventsInv
    <3> QED
      BY <1>2, <3>1 DEF FeedInv, LateInv
  <2>2. /\ fpc'[r] # "stopped" /\ events'[r] # <<"shutdown">> => late'[r] <= 1
        /\ fpc'[r] = "dispatch" /\ events'[r] = <<"socket">> => late'[r] = 0
        /\ late'[r] <= 2 /\ (~shutdown' => late'[r] = 0)
    BY <1>2, <1>3, <1>4, <1>5, <2>1
  <2>3. \A t \in Readers \ {r} :
          /\ late'[t] <= 2 /\ (~shutdown' => late'[t] = 0)
          /\ fpc'[t] # "stopped" /\ events'[t] # <<"shutdown">> => late'[t] <= 1
          /\ fpc'[t] = "dispatch" /\ events'[t] = <<"socket">> => late'[t] = 0
    BY <1>2, <1>5 DEF FeedInv, LateInv
  <2> QED
    BY <2>2, <2>3 DEF LateInv
<1>9. RequestInv'
  BY <1>2, <1>5 DEF FeedInv, RequestInv
<1> QED
  BY <1>6, <1>7, <1>8, <1>9 DEF LoopInv

\* The loop is left, goes on, or a request has been dealt with: only the
\* place in start() changes.
LEMMA PlaceLoop ==
  ASSUME FeedInv, TypeOK', NEW r \in Readers,
         UNCHANGED <<seq_num, shutdown, arrived, inbox, events, request, late>>,
         replies' \subseteq [asked : Nat,
                             packet : [seq : Nat, count : Nat, msgs : Seq(Nat)]],
         \/ /\ fpc[r] = "dispatch" /\ fpc' = [fpc EXCEPT ![r] = "stopped"]
         \/ /\ fpc[r] = "dispatch" /\ events[r] = <<>>
            /\ fpc' = [fpc EXCEPT ![r] = "wait"]
         \/ /\ fpc[r] = "lookup" /\ fpc' = [fpc EXCEPT ![r] = "dispatch"]
  PROVE  LoopInv'
<1>1. fpc \in [Readers -> {"wait", "dispatch", "lookup", "stopped"}]
  BY DEF FeedInv, FeedTypeOK
<1>2. /\ \A t \in Readers \ {r} : fpc'[t] = fpc[t]
      /\ \/ fpc[r] = "dispatch" /\ fpc'[r] = "stopped"
         \/ fpc[r] = "dispatch" /\ events[r] = <<>> /\ fpc'[r] = "wait"
         \/ fpc[r] = "lookup" /\ fpc'[r] = "dispatch"
  BY <1>1
<1>3. FeedTypeOK'
  BY <1>1 DEF FeedInv, FeedTypeOK
<1>4. EventsInv'
  BY <1>2 DEF FeedInv, EventsInv, EventLists
<1>5. LateInv'
  <2>1. fpc[r] = "lookup" => events[r] # <<"socket">>
    BY DEF FeedInv, EventsInv
  <2>2. ASSUME NEW t \in Readers
        PROVE  /\ late[t] <= 2 /\ (~shutdown => late[t] = 0)
               /\ fpc'[t] # "stopped" /\ events[t] # <<"shutdown">> => late[t] <= 1
               /\ fpc'[t] = "dispatch" /\ events[t] = <<"socket">> => late[t] = 0
    <3>1. CASE t = r
      BY <1>2, <2>1, <3>1 DEF FeedInv, LateInv
    <3>2. CASE t # r
      BY <1>2, <3>2 DEF FeedInv, LateInv
    <3> QED
      BY <3>1, <3>2
  <2> QED
    BY <2>2 DEF LateInv
<1>6. RequestInv'
  BY <1>2 DEF FeedInv, RequestInv
<1> QED
  BY <1>3, <1>4, <1>5, <1>6 DEF LoopInv

\* A datagram is taken from the socket, and ignored or looked up: this was
\* the only one of the round.
LEMMA TakeLoop ==
  ASSUME FeedInv, TypeOK', NEW r \in Readers, TakeDatagram(r),
         UNCHANGED <<shutdown, arrived, replies>>,
         \/ UNCHANGED <<fpc, request, seq_num>>
         \/ LET q == Head(inbox[r]) IN
              /\ fpc' = [fpc EXCEPT ![r] = "lookup"]
              /\ request' = [request EXCEPT ![r] = [seq |-> q.seq, count |-> q.count]]
              /\ seq_num' = [seq_num EXCEPT ![r] = q.seq]
  PROVE  LoopInv'
<1> DEFINE q == Head(inbox[r])
<1>1. /\ fpc[r] = "dispatch" /\ events[r] # <<>> /\ Head(events[r]) = "socket"
      /\ events' = [events EXCEPT ![r] = Tail(@)]
      /\ inbox' = [inbox EXCEPT ![r] = Tail(@)]
      /\ late' = [late EXCEPT ![r] = IF shutdown THEN @ + 1 ELSE @]
  BY DEF TakeDatagram
<1>2. /\ Tail(inbox[r]) \in Seq(Requests)
      /\ q.seq \in SequenceNumber /\ q.count \in 0 .. EndOfSessionCount
  BY HeadRequest
<1>3. /\ events \in [Readers -> Seq({"socket", "shutdown"})]
      /\ fpc \in [Readers -> {"wait", "dispatch", "lookup", "stopped"}]
      /\ shutdown \in BOOLEAN /\ inbox \in [Readers -> Seq(Requests)]
      /\ late \in [Readers -> Nat]
      /\ request \in [Readers -> [seq : SequenceNumber, count : Nat]]
      /\ seq_num \in [Readers -> Nat]
  BY DEF FeedInv, FeedTypeOK, TypeOK
<1>4. /\ events[r] \in {<<"socket">>, <<"socket", "shutdown">>}
      /\ events[r] = <<"socket">> => Tail(events[r]) = <<>>
      /\ events[r] = <<"socket", "shutdown">> => Tail(events[r]) = <<"shutdown">>
      /\ Tail(events[r]) \in {<<>>, <<"shutdown">>}
  BY <1>1, EventFacts DEF FeedInv, EventsInv
<1>5. /\ events'[r] = Tail(events[r])
      /\ fpc'[r] \in {"dispatch", "lookup"}
      /\ \A t \in Readers \ {r} :
           /\ events'[t] = events[t] /\ fpc'[t] = fpc[t]
           /\ inbox'[t] = inbox[t] /\ late'[t] = late[t]
  BY <1>1, <1>3
<1>6. late'[r] = IF shutdown THEN late[r] + 1 ELSE late[r]
  BY <1>1, <1>3
<1> DEFINE ask == [seq |-> q.seq, count |-> q.count]
<1>7. ask \in [seq : SequenceNumber, count : Nat] /\ ask.seq = q.seq
      /\ ask.count = q.count
  BY <1>2
<1>8. FeedTypeOK'
  <2>1. Tail(events[r]) \in Seq({"socket", "shutdown"})
    <3>1. Tail(events[r]) \in EventLists
      BY <1>4 DEF EventLists
    <3> QED
      BY <3>1, EventFacts
  <2>2. events' \in [Readers -> Seq({"socket", "shutdown"})]
    BY <1>1, <1>3, <2>1
  <2>3. inbox' \in [Readers -> Seq(Requests)]
    BY <1>1, <1>2, <1>3
  <2>4. late' \in [Readers -> Nat]
    BY <1>1, <1>3
  <2>5. request' \in [Readers -> [seq : SequenceNumber, count : Nat]]
    <3> HIDE DEF ask
    <3> QED
      BY <1>3, <1>7 DEF ask
  <2>6. fpc' \in [Readers -> {"wait", "dispatch", "lookup", "stopped"}]
    BY <1>3
  <2> QED
    BY <2>2, <2>3, <2>4, <2>5, <2>6 DEF FeedInv, FeedTypeOK
<1>9. EventsInv'
  BY <1>4, <1>5 DEF FeedInv, EventsInv, EventLists
<1>10. LateInv'
  <2>1. late[r] \in Nat /\ late[r] <= 1 /\ (~shutdown => late[r] = 0)
        /\ (events[r] = <<"socket">> => late[r] = 0)
    BY <1>1, <1>3, <1>4 DEF FeedInv, LateInv
  <2>2. late'[r] <= 2 /\ (events[r] = <<"socket">> => late'[r] <= 1)
    BY <1>6, <2>1
  <2>3. ~shutdown => late'[r] = 0
    BY <1>6, <2>1
  <2>4. events'[r] # <<"shutdown">> => late'[r] <= 1
    <3>1. CASE events[r] = <<"socket">>
      BY <2>2, <3>1
    <3>2. CASE events[r] # <<"socket">>
      BY <1>4, <1>5, <3>2
    <3> QED
      BY <3>1, <3>2
  <2>5. events'[r] # <<"socket">>
    BY <1>4, <1>5
  <2>6. \A t \in Readers \ {r} :
          /\ late'[t] <= 2 /\ (~shutdown' => late'[t] = 0)
          /\ fpc'[t] # "stopped" /\ events'[t] # <<"shutdown">> => late'[t] <= 1
          /\ fpc'[t] = "dispatch" /\ events'[t] = <<"socket">> => late'[t] = 0
    BY <1>5 DEF FeedInv, LateInv
  <2> QED
    BY <2>2, <2>3, <2>4, <2>5, <2>6 DEF LateInv
<1>11. RequestInv'
  <2>1. CASE UNCHANGED <<fpc, request, seq_num>>
    BY <2>1 DEF FeedInv, RequestInv
  <2>2. CASE /\ fpc' = [fpc EXCEPT ![r] = "lookup"]
             /\ request' = [request EXCEPT ![r] = ask]
             /\ seq_num' = [seq_num EXCEPT ![r] = q.seq]
    <3> HIDE DEF ask, q
    <3>1. request'[r] = ask /\ seq_num'[r] = q.seq
      BY <1>3, <2>2
    <3>2. \A t \in Readers \ {r} : request'[t] = request[t] /\ seq_num'[t] = seq_num[t]
      BY <1>3, <2>2
    <3> QED
      BY <1>2, <1>5, <1>7, <3>1, <3>2 DEF FeedInv, RequestInv
  <2> QED
    BY <2>1, <2>2
<1> QED
  BY <1>8, <1>9, <1>10, <1>11 DEF LoopInv

\* recvfrom() fails: the event is used up and nothing is taken.
LEMMA FailLoop ==
  ASSUME FeedInv, TypeOK', NEW r \in Readers, ReceiveFails(r)
  PROVE  LoopInv'
<1>1. /\ fpc[r] = "dispatch" /\ events[r] # <<>> /\ Head(events[r]) = "socket"
      /\ events' = [events EXCEPT ![r] = Tail(@)]
      /\ UNCHANGED <<shutdown, arrived, inbox, fpc, request, replies, late, seq_num>>
  BY DEF ReceiveFails, bufferVars, readerVars
<1>2. /\ events[r] \in {<<"socket">>, <<"socket", "shutdown">>}
      /\ events[r] = <<"socket">> => Tail(events[r]) = <<>>
      /\ events[r] = <<"socket", "shutdown">> => Tail(events[r]) = <<"shutdown">>
      /\ Tail(events[r]) \in {<<>>, <<"shutdown">>}
  BY <1>1, EventFacts DEF FeedInv, EventsInv
<1>3. events \in [Readers -> Seq({"socket", "shutdown"})]
  BY DEF FeedInv, FeedTypeOK
<1>4. /\ events'[r] = Tail(events[r])
      /\ \A t \in Readers \ {r} : events'[t] = events[t]
  BY <1>1, <1>3
<1>5. FeedTypeOK'
  <2>1. Tail(events[r]) \in EventLists
    BY <1>2 DEF EventLists
  <2>2. Tail(events[r]) \in Seq({"socket", "shutdown"})
    BY <2>1, EventFacts
  <2>3. events' \in [Readers -> Seq({"socket", "shutdown"})]
    BY <1>1, <1>3, <2>2
  <2> QED
    BY <1>1, <2>3 DEF FeedInv, FeedTypeOK
<1>6. EventsInv'
  BY <1>1, <1>2, <1>4 DEF FeedInv, EventsInv, EventLists
<1>7. LateInv'
  <2>1. events[r] = <<"socket">> => late[r] = 0
    BY <1>1 DEF FeedInv, LateInv
  <2>2. events'[r] # <<"socket">> /\ (events'[r] # <<"shutdown">> => late[r] <= 1)
    BY <1>2, <1>4, <2>1
  <2>3. \A t \in Readers \ {r} :
          /\ late[t] <= 2 /\ (~shutdown => late[t] = 0)
          /\ fpc[t] # "stopped" /\ events'[t] # <<"shutdown">> => late[t] <= 1
          /\ fpc[t] = "dispatch" /\ events'[t] = <<"socket">> => late[t] = 0
    BY <1>4 DEF FeedInv, LateInv
  <2>4. late[r] <= 2 /\ (~shutdown => late[r] = 0)
    BY DEF FeedInv, LateInv
  <2> QED
    BY <1>1, <2>2, <2>3, <2>4 DEF LateInv
<1>8. RequestInv'
  BY <1>1 DEF FeedInv, RequestInv
<1> QED
  BY <1>5, <1>6, <1>7, <1>8 DEF LoopInv

-----------------------------------------------------------------------------
(* The replies. *)

\* What file_position_for() found is a message of the file, and the one asked
\* for unless the writer has claimed its slot.
LEMMA AnswerFacts ==
  ASSUME FeedInv, NEW r \in Readers, rpc[r] = "returned", answer[r] # Nullopt
  PROVE  \E j \in 1 .. N :
           /\ answer[r] = File.starts[j]
           /\ seq_num[r] > 0 /\ Len(log) < seq_num[r] + BufferSize =>
                j = Skipped + seq_num[r]
<1> DEFINE s == seq_num[r]
<1>1. /\ s \in Nat /\ log \in Seq(Nat) /\ Len(log) \in Nat
      /\ Len(log) > 0 /\ Len(log) <= Len(Sequenced)
      /\ \A k \in 1 .. Len(log) : log[k] = Sequenced[k]
      /\ HeldSince(s, answer[r])
  <2>1. TypeOK /\ AnswerInv /\ LogInv /\ AnswersHeld
    BY DEF FeedInv, RingInv
  <2>2. s \in Nat /\ log \in Seq(Nat) /\ Len(log) \in Nat
    BY <2>1 DEF TypeOK
  <2>3. HeldSince(s, answer[r])
    BY <2>1 DEF AnswersHeld
  <2> QED BY <2>1, <2>2, <2>3 DEF AnswerInv, LogInv
<1> HIDE DEF s
<1>2. PICK t \in s .. Len(log) :
        index_for(t) = index_for(s) /\ answer[r] = PositionAt(t)
  BY <1>1 DEF HeldSince
<1>3. t \in Nat /\ t >= s /\ t <= Len(log) /\ Len(Sequenced) \in Nat /\ Skipped \in Nat
  BY <1>1, <1>2, SequencedFacts
<1>4. s > 0 /\ Len(log) < s + BufferSize => t = s
  <2>1. BufferSize \in Nat
    BY BufferAssumption
  <2>2. s < t /\ t < s + BufferSize => index_for(s) # index_for(t)
    BY <1>1, <1>3, IndexDistinct
  <2> QED
    BY <1>1, <1>2, <1>3, <2>1, <2>2
<1>5. CASE t = 0
  <2>1. answer[r] = 0 /\ s = 0
    BY <1>1, <1>2, <1>3, <1>5 DEF PositionAt
  <2>2. 1 \in 1 .. N
    BY <1>1, <1>3, SequencedFacts
  <2>3. File.starts[1] = 0
    BY <2>2, FileFacts DEF MessageAt
  <2> QED
    BY <2>1, <2>2, <2>3 DEF s
<1>6. CASE t # 0
  <2>1. t \in 1 .. Len(log) /\ t \in 1 .. Len(Sequenced)
    BY <1>1, <1>3, <1>6
  <2>2. answer[r] = Sequenced[t]
    BY <1>1, <1>2, <1>6, <2>1 DEF PositionAt
  <2>3. Skipped + t \in 1 .. N /\ Sequenced[t] = File.starts[Skipped + t]
    BY <2>1, SequencedFacts
  <2> QED
    BY <1>4, <2>2, <2>3 DEF s
<1> QED
  BY <1>5, <1>6

\* build_packet(), finalize() and sendmsg().
LEMMA ReplyStep ==
  ASSUME FeedInv, [FeedNext]_allVars, NEW r \in Readers, Reply(r)
  PROVE  /\ ReplyInv'
         /\ replies' \subseteq [asked : Nat,
                                packet : [seq : Nat, count : Nat, msgs : Seq(Nat)]]
<1> DEFINE s == request[r].seq
           c == request[r].count
           p == build_packet(s, answer[r], c)
           n == Len(p.msgs)
           out == [seq |-> s, count |-> n, msgs |-> p.msgs]
           y == [asked |-> c, packet |-> out]
<1>1. /\ fpc[r] = "lookup" /\ rpc[r] = "returned" /\ answer[r] # Nullopt
      /\ UNCHANGED <<log, seq_num>>
  BY DEF Reply, bufferVars, writerVars, readerVars
<1>2. /\ s = seq_num[r] /\ s \in Nat /\ c \in Nat /\ c <= EndOfSessionCount
  <2>1. s \in SequenceNumber /\ c \in Nat
    BY DEF FeedInv, FeedTypeOK
  <2>2. s = seq_num[r]
    BY <1>1 DEF FeedInv, RequestInv
  <2>3. c \in 0 .. EndOfSessionCount
    BY DEF FeedInv, RequestInv
  <2> HIDE DEF s, c
  <2>4. s \in Nat
    BY <2>1 DEF SequenceNumber
  <2>5. c <= EndOfSessionCount
    <3>1. EndOfSessionCount \in Nat
      BY DEF EndOfSessionCount
    <3> QED
      BY <2>3, <3>1
  <2> QED
    BY <2>1, <2>2, <2>4, <2>5
<1>3. PICK j \in 1 .. N :
        /\ answer[r] = File.starts[j]
        /\ s > 0 /\ Len(log) < s + BufferSize => j = Skipped + s
  BY <1>1, <1>2, AnswerFacts
<1>4. /\ p.seq = s /\ MessagesFrom(j, p.msgs, n) /\ n <= c
      /\ n < c => NoMoreFit(j, n)
  <2> HIDE DEF s, c
  <2> QED
    BY <1>2, <1>3, BuildPacketIs
<1>5. p.msgs \in Seq(Nat) /\ n \in Nat
  BY <1>4 DEF MessagesFrom
<1>6. finalize(p) = out
  <2>1. n % (EndOfSessionCount + 1) = n
    <3> HIDE DEF n, c
    <3> QED
      BY <1>2, <1>4, <1>5, SMTT(30) DEF EndOfSessionCount
  <2> HIDE DEF p, s
  <2> QED
    BY <1>4, <2>1 DEF finalize
<1>7. replies' = replies \cup {y} \/ replies' = replies
  <2> HIDE DEF p, out
  <2> QED
    BY <1>6 DEF Reply, p
<1>8. /\ y.asked = c /\ y.packet.seq = s /\ y.packet.count = n
      /\ y.packet.msgs = p.msgs
  OBVIOUS
<1>9. y \in [asked : Nat, packet : [seq : Nat, count : Nat, msgs : Seq(Nat)]]
  <2> HIDE DEF s, c, p, n
  <2> QED
    BY <1>2, <1>5
<1> HIDE DEF y, s, c, p, n
<1>10. Len(y.packet.msgs) = n
  BY <1>8 DEF n
<1>11. ReplyFrom(y, j)
  BY <1>3, <1>4, <1>8, <1>10 DEF ReplyFrom
<1>12. N' = N
  BY DEF N
<1>13. ASSUME NEW z, NEW i PROVE ReplyFrom(z, i)' <=> ReplyFrom(z, i)
  BY <1>1 DEF ReplyFrom, MessagesFrom, NoMoreFit, N
<1>14. ReplyInv'
  BY <1>7, <1>8, <1>10, <1>11, <1>12, <1>13 DEF FeedInv, ReplyInv
<1> QED
  BY <1>7, <1>9, <1>14 DEF FeedInv, FeedTypeOK

-----------------------------------------------------------------------------
\* Every step preserves the invariant.
LEMMA FeedInvStep == FeedInv /\ [FeedNext]_allVars => FeedInv'
<1> SUFFICES ASSUME FeedInv, [FeedNext]_allVars PROVE FeedInv'
  OBVIOUS
<1>1. RingInv' /\ LogInv' /\ AnswerInv' /\ TypeOK'
  BY RingSide DEF RingInv
<1>2. CASE PushNext \/ PushStep
  <2>1. UNCHANGED feedVars /\ seq_num' = seq_num
    BY <1>2 DEF PushNext, PushStep, PushBegin, PushStoreSeq, PushStorePos,
                PushPublish, readerVars
  <2>2. LoopInv'
    BY <1>1, <2>1, LoopUnchanged
  <2>3. ReplyInv'
    BY <2>1, RepliesKept DEF feedVars
  <2> QED
    BY <1>1, <2>2, <2>3 DEF FeedInv, LoopInv
<1>3. CASE Stop
  <2>1. LoopInv' /\ ReplyInv'
    BY <1>1, <1>3, StopLoop, RepliesKept DEF Stop
  <2> QED
    BY <1>1, <2>1 DEF FeedInv, LoopInv
<1>4. ASSUME NEW r \in Readers, NEW q \in Requests, Arrive(r, q) PROVE FeedInv'
  <2>1. LoopInv' /\ ReplyInv'
    BY <1>1, <1>4, ArriveLoop, RepliesKept DEF Arrive
  <2> QED
    BY <1>1, <2>1 DEF FeedInv, LoopInv
<1>5. ASSUME NEW r \in Readers, Wait(r) PROVE FeedInv'
  <2>1. LoopInv' /\ ReplyInv'
    BY <1>1, <1>5, WaitLoop, RepliesKept DEF Wait
  <2> QED
    BY <1>1, <2>1 DEF FeedInv, LoopInv
<1>6. ASSUME NEW r \in Readers, SeeShutdown(r) \/ DispatchDone(r) \/ OutOfBuffer(r)
      PROVE  FeedInv'
  <2>1. UNCHANGED <<seq_num, shutdown, arrived, inbox, events, request, late, replies>>
    BY <1>6 DEF SeeShutdown, DispatchDone, OutOfBuffer, bufferVars, readerVars
  <2>2. \/ fpc[r] = "dispatch" /\ fpc' = [fpc EXCEPT ![r] = "stopped"]
        \/ /\ fpc[r] = "dispatch" /\ events[r] = <<>>
           /\ fpc' = [fpc EXCEPT ![r] = "wait"]
        \/ fpc[r] = "lookup" /\ fpc' = [fpc EXCEPT ![r] = "dispatch"]
    BY <1>6 DEF SeeShutdown, DispatchDone, OutOfBuffer
  <2>3. replies' \subseteq [asked : Nat,
                            packet : [seq : Nat, count : Nat, msgs : Seq(Nat)]]
    BY <2>1 DEF FeedInv, FeedTypeOK
  <2>4. LoopInv'
    BY <1>1, <2>1, <2>2, <2>3, PlaceLoop
  <2>5. ReplyInv'
    BY <2>1, RepliesKept
  <2> QED
    BY <1>1, <2>4, <2>5 DEF FeedInv, LoopInv
<1>7. ASSUME NEW r \in Readers, IgnoreRequest(r) PROVE FeedInv'
  <2>1. /\ TakeDatagram(r)
        /\ UNCHANGED <<shutdown, arrived, replies>>
        /\ UNCHANGED <<fpc, request, seq_num>>
    BY <1>7 DEF IgnoreRequest, bufferVars, readerVars
  <2>2. LoopInv' /\ ReplyInv'
    BY <1>1, <2>1, TakeLoop, RepliesKept
  <2> QED
    BY <1>1, <2>2 DEF FeedInv, LoopInv
<1>8. ASSUME NEW r \in Readers, ParseRequest(r) PROVE FeedInv'
  <2>1. /\ TakeDatagram(r)
        /\ UNCHANGED <<shutdown, arrived, replies>>
        /\ LET q == Head(inbox[r]) IN
             /\ fpc' = [fpc EXCEPT ![r] = "lookup"]
             /\ request' = [request EXCEPT ![r] = [seq |-> q.seq, count |-> q.count]]
             /\ seq_num' = [seq_num EXCEPT ![r] = q.seq]
    BY <1>8 DEF ParseRequest, LookupLoad
  <2>2. LoopInv' /\ ReplyInv'
    BY <1>1, <2>1, TakeLoop, RepliesKept
  <2> QED
    BY <1>1, <2>2 DEF FeedInv, LoopInv
<1>9. ASSUME NEW r \in Readers, LookupStep(r) PROVE FeedInv'
  <2>1. UNCHANGED feedVars /\ seq_num' = seq_num
    BY <1>9 DEF LookupStep, LookupCompare, LookupFetch
  <2>2. LoopInv'
    BY <1>1, <2>1, LoopUnchanged
  <2>3. ReplyInv'
    BY <2>1, RepliesKept DEF feedVars
  <2> QED
    BY <1>1, <2>2, <2>3 DEF FeedInv, LoopInv
<1>10. ASSUME NEW r \in Readers, Reply(r) PROVE FeedInv'
  <2>1. /\ ReplyInv'
        /\ replies' \subseteq [asked : Nat,
                               packet : [seq : Nat, count : Nat, msgs : Seq(Nat)]]
    BY <1>10, ReplyStep
  <2>2. /\ UNCHANGED <<seq_num, shutdown, arrived, inbox, events, request, late>>
        /\ fpc[r] = "lookup" /\ fpc' = [fpc EXCEPT ![r] = "dispatch"]
    BY <1>10 DEF Reply, bufferVars, readerVars
  <2>3. LoopInv'
    BY <1>1, <2>1, <2>2, PlaceLoop
  <2> QED
    BY <1>1, <2>1, <2>3 DEF FeedInv, LoopInv
<1>11. CASE UNCHANGED allVars
  <2>1. UNCHANGED feedVars /\ seq_num' = seq_num
    BY <1>11 DEF allVars, bufferVars, readerVars
  <2>2. LoopInv'
    BY <1>1, <2>1, LoopUnchanged
  <2>3. ReplyInv'
    BY <2>1, RepliesKept DEF feedVars
  <2> QED
    BY <1>1, <2>2, <2>3 DEF FeedInv, LoopInv
<1>12. ASSUME NEW r \in Readers, ReceiveFails(r) PROVE FeedInv'
  <2>1. replies' = replies
    BY <1>12 DEF ReceiveFails
  <2>2. LoopInv' /\ ReplyInv'
    BY <1>1, <1>12, <2>1, FailLoop, RepliesKept
  <2> QED
    BY <1>1, <2>2 DEF FeedInv, LoopInv
<1> QED
  BY <1>2, <1>3, <1>4, <1>5, <1>6, <1>7, <1>8, <1>9, <1>10, <1>11, <1>12
  DEF FeedNext, FeedStep

\* The invariant holds in every state of every execution of the feeds.
THEOREM FeedInvariant == FeedSpec => []FeedInv
<1>1. FeedInit => FeedInv
  BY FeedInvInit
<1>2. FeedInv /\ [FeedNext]_allVars => FeedInv'
  BY FeedInvStep
<1> QED
  BY <1>1, <1>2, PTL DEF FeedSpec

\* Type correctness of the feeds' state.
THEOREM FeedTypeCorrect == FeedSpec => []FeedTypeOK
<1>1. FeedInv => FeedTypeOK
  BY DEF FeedInv
<1> QED
  BY <1>1, FeedInvariant, PTL

\* The retransmission feeds and the downstream thread together only do to the
\* ring what RetransmissionBuffer specifies, so what is proved of push() and
\* file_position_for() there holds of them.
THEOREM FeedsUseTheRing == FeedSpec => BufferSpec
<1>1. FeedInit => BufferInit
  BY DEF FeedInit
<1>2. FeedInv /\ [FeedNext]_allVars => [BufferNext]_bufferVars
  BY UsesRing
<1> QED
  BY <1>1, <1>2, FeedInvariant, PTL DEF FeedSpec, BufferSpec

\* What the ring promises holds of it while the retransmission feeds look up
\* in it and the downstream feed pushes: the window is intact, and
\* file_position_for() finds what stays in it and is never off by less than
\* whole laps.
THEOREM RingHoldsUnderFeeds ==
  FeedSpec => [](WindowIntact /\ LookupComplete /\ LookupWithinLaps)
<1> QED
  BY FeedsUseTheRing, WindowIsIntact, LookupIsComplete, LookupIsWithinLaps, PTL

\* FeedPool::stop() is seen by every feed after at most two more datagrams.
THEOREM FewLateRequestsAlways == FeedSpec => []FewLateRequests
<1>1. FeedInv => FewLateRequests
  BY DEF FeedInv, LateInv, FewLateRequests
<1> QED
  BY <1>1, FeedInvariant, PTL

\* Torn reads or not, a reply consists of whole messages of the file and fits
\* the MTU.
THEOREM ReplyIsWellFormedAlways == FeedSpec => []ReplyIsWellFormed
<1>1. ASSUME FeedInv PROVE ReplyIsWellFormed
  <2> SUFFICES ASSUME NEW y \in replies
               PROVE  LET m == y.packet.msgs IN
                 /\ \A k \in 1 .. Len(m) :
                      \E j \in 1 .. Len(File.starts) : m[k] = File.starts[j]
                 /\ m # <<>> =>
                      HeaderLength + ((m[Len(m)] + MessageSize(File, m[Len(m)]))
                                        - m[1]) <= MTU
    BY DEF ReplyIsWellFormed
  <2> DEFINE m == y.packet.msgs
             n == Len(m)
  <2>1. PICK j \in 1 .. N : ReplyFrom(y, j)
    BY <1>1 DEF FeedInv, ReplyInv
  <2>2. MessagesFrom(j, m, n)
    BY <2>1 DEF ReplyFrom
  <2> HIDE DEF m, n
  <2>3. /\ m \in Seq(Nat) /\ Len(m) = n /\ n \in Nat /\ N \in Nat
        /\ j + n <= N + 1
        /\ \A k \in 1 .. n : m[k] = File.starts[(j + k) - 1]
    BY <2>2, FileFacts DEF MessagesFrom
  <2>4. ASSUME NEW k \in 1 .. n
        PROVE  \E i \in 1 .. Len(File.starts) : m[k] = File.starts[i]
    <3>1. (j + k) - 1 \in 1 .. N
      BY <2>3
    <3> QED
      BY <2>3, <3>1 DEF N
  <2>5. ASSUME m # <<>>
        PROVE  HeaderLength + ((m[n] + MessageSize(File, m[n])) - m[1]) <= MTU
    <3>1. n > 0
      BY <2>3, <2>5
    <3> DEFINE i == (j + n) - 1
    <3>2. i \in 1 .. N /\ i + 1 = j + n /\ 1 \in 1 .. n /\ n \in 1 .. n
          /\ (j + 1) - 1 = j
      BY <2>3, <3>1
    <3> HIDE DEF i
    <3>3. m[n] = File.starts[i] /\ m[1] = File.starts[j]
      BY <2>3, <3>2 DEF i
    <3>4. /\ MessageAt(File, j + n) = m[n] + MessageSize(File, m[n])
          /\ MessageAt(File, j) = m[1]
      BY <3>2, <3>3, FileFacts
    <3>5. /\ MessageAt(File, j + n) - MessageAt(File, j) <= Payload
          /\ MessageAt(File, j) \in Nat /\ MessageAt(File, j + n) \in Nat
      BY <2>2, <2>3, FileFacts DEF MessagesFrom
    <3> DEFINE a == MessageAt(File, j + n)
               b == MessageAt(File, j)
    <3>6. a \in Nat /\ b \in Nat /\ a - b <= MTU - HeaderLength
      BY <3>5 DEF Payload
    <3> HIDE DEF a, b
    <3>7. HeaderLength + (a - b) <= MTU
      BY <3>6, MTUAssumption DEF HeaderLength
    <3> QED
      BY <3>4, <3>7 DEF a, b
  <2> QED
    BY <2>3, <2>4, <2>5 DEF m
<1> QED
  BY <1>1, FeedInvariant, PTL

\* The bytes of sequenced messages in terms of the file's.
LEMMA BytesAre ==
  ASSUME NEW s \in 1 .. Len(Sequenced), NEW n \in Nat,
         s + n <= Len(Sequenced) + 1
  PROVE  /\ Bytes(s, n) = MessageAt(File, (Skipped + s) + n)
                            - MessageAt(File, Skipped + s)
         /\ MessageAt(File, (Skipped + s) + n) \in Nat
         /\ MessageAt(File, Skipped + s) \in Nat
<1>1. /\ Len(Sequenced) \in Nat /\ Skipped \in Nat
      /\ N = Skipped + Len(Sequenced) /\ s \in Nat
  BY SequencedFacts
<1>2. (Skipped + s) + n \in 1 .. N + 1 /\ Skipped + s \in 1 .. N
  BY <1>1
<1>3. /\ MessageAt(File, (Skipped + s) + n) \in Nat
      /\ MessageAt(File, Skipped + s) \in Nat
  BY <1>2, FileFacts
<1>4. CASE n = 0
  <2>1. (Skipped + s) + n = Skipped + s
    BY <1>1, <1>4
  <2> QED
    BY <1>3, <1>4, <2>1 DEF Bytes
<1>5. CASE n # 0
  <2> DEFINE k == s + n - 1
  <2>1. /\ k \in 1 .. Len(Sequenced) /\ (Skipped + s) + n = (Skipped + k) + 1
    BY <1>1, <1>5
  <2> HIDE DEF k
  <2>2. /\ Skipped + k \in 1 .. N /\ Sequenced[k] = File.starts[Skipped + k]
        /\ Sequenced[s] = File.starts[Skipped + s]
    BY <2>1, SequencedFacts
  <2>3. /\ MessageAt(File, (Skipped + k) + 1) =
             Sequenced[k] + MessageSize(File, Sequenced[k])
        /\ MessageAt(File, Skipped + s) = Sequenced[s]
    BY <1>2, <2>2, FileFacts
  <2>4. Bytes(s, n) = (Sequenced[k] + MessageSize(File, Sequenced[k])) - Sequenced[s]
    BY <1>5 DEF Bytes, k
  <2> QED
    BY <1>3, <2>1, <2>3, <2>4
<1> QED
  BY <1>4, <1>5

\* A reply carries the messages that were asked for, as many as asked for,
\* fit and exist, as long as the writer has not claimed the slot of the first:
\* then the ring's answer was that message, and build_packet() read on in the
\* file in the order in which the downstream feed numbered.
THEOREM ReplyFaithfulAlways == FeedSpec => []ReplyFaithful
<1>1. ASSUME FeedInv PROVE ReplyFaithful
  <2> SUFFICES ASSUME NEW y \in replies,
                      y.packet.seq > 0, Len(log) < y.packet.seq + BufferSize
               PROVE  LET p == y.packet
                          n == Len(p.msgs)
                      IN /\ p.msgs = SubSeq(Sequenced, p.seq, p.seq + n - 1)
                         /\ p.count = n /\ n <= y.asked
                         /\ Fit(p.seq, n)
                         /\ n < y.asked => ~Fit(p.seq, n + 1)
    BY DEF ReplyFaithful
  <2> DEFINE m == y.packet.msgs
             n == Len(m)
             s == y.packet.seq
  <2>1. PICK j \in 1 .. N : ReplyFrom(y, j)
    BY <1>1 DEF FeedInv, ReplyInv
  <2>2. /\ MessagesFrom(j, m, n) /\ n <= y.asked
        /\ n < y.asked => NoMoreFit(j, n)
        /\ j = Skipped + s
    BY <2>1 DEF ReplyFrom
  <2>3. y.packet.count = n /\ s \in Nat /\ s > 0
    BY <1>1 DEF FeedInv, ReplyInv, FeedTypeOK
  <2> HIDE DEF m, n, s
  <2>4. /\ m \in Seq(Nat) /\ Len(m) = n /\ n \in Nat
        /\ j + n <= N + 1
        /\ \A k \in 1 .. n : m[k] = File.starts[(j + k) - 1]
        /\ MessageAt(File, j + n) - MessageAt(File, j) <= Payload
    BY <2>2 DEF MessagesFrom
  <2>5. /\ Len(Sequenced) \in Nat /\ Skipped \in Nat
        /\ N = Skipped + Len(Sequenced)
    BY SequencedFacts
  <2>6. /\ s \in 1 .. Len(Sequenced) /\ s + n <= Len(Sequenced) + 1
        /\ s \in 1 .. Len(Sequenced) + 1 /\ s + n - 1 \in s - 1 .. Len(Sequenced)
        /\ s + n - 1 <= Len(Sequenced)
    BY <2>2, <2>3, <2>4, <2>5
  <2>7. m = SubSeq(Sequenced, s, s + n - 1)
    <3>1. Sequenced \in Seq(Nat)
      <4>1. File.starts \in Seq(Nat) /\ Skipped + 1 \in 1 .. Len(File.starts) + 1
        BY <2>5, RetransmissionAssumption DEF StartsAreMessages, N
      <4> QED
        BY <4>1, SubSeqProperties DEF Sequenced
    <3> DEFINE e == s + n - 1
               x == SubSeq(Sequenced, s, e)
    <3>2. e \in s - 1 .. Len(Sequenced) /\ (e - s) + 1 = n
      BY <2>3, <2>4, <2>6
    <3> HIDE DEF e
    <3>3. /\ x \in Seq(Nat)
          /\ Len(x) = IF s <= e THEN (e - s) + 1 ELSE 0
          /\ \A k \in 1 .. (e - s) + 1 : x[k] = Sequenced[(s + k) - 1]
      BY <2>6, <3>1, <3>2, SubSeqIs, SMTT(30)
    <3>4. Len(x) = n
      BY <2>3, <2>4, <3>2, <3>3
    <3>5. ASSUME NEW k \in 1 .. n PROVE m[k] = x[k]
      <4> DEFINE i == (s + k) - 1
      <4>1. i \in 1 .. Len(Sequenced) /\ Skipped + i = (j + k) - 1
        BY <2>2, <2>3, <2>4, <2>5, <2>6
      <4>2. x[k] = Sequenced[i]
        BY <3>2, <3>3
      <4> HIDE DEF i
      <4> QED
        BY <2>4, <4>1, <4>2, SequencedFacts
    <3> HIDE DEF x
    <3>6. m = x
      BY <2>4, <3>3, <3>4, <3>5, SeqEqual
    <3> QED
      BY <3>6 DEF x, e
  <2> DEFINE a == MessageAt(File, j + n)
             b == MessageAt(File, j)
  <2>8. Bytes(s, n) = a - b /\ a \in Nat /\ b \in Nat
    BY <2>2, <2>4, <2>6, BytesAre
  <2>9. Fit(s, n)
    <3>1. a - b <= MTU - HeaderLength
      BY <2>4 DEF Payload
    <3> HIDE DEF a, b
    <3>2. HeaderLength + (a - b) <= MTU
      BY <2>8, <3>1, MTUAssumption DEF HeaderLength
    <3> QED
      BY <2>6, <2>8, <3>2 DEF Fit
  <2>10. n < y.asked => ~Fit(s, n + 1)
    <3> SUFFICES ASSUME n < y.asked PROVE ~Fit(s, n + 1)
      OBVIOUS
    <3>1. CASE j + n = N + 1
      <4>1. ~(s + (n + 1) - 1 <= Len(Sequenced))
        BY <2>2, <2>3, <2>4, <2>5, <3>1
      <4> QED
        BY <4>1 DEF Fit
    <3>2. CASE j + n # N + 1 /\ MessageAt(File, j + n + 1) - b > Payload
      <4>1. s + (n + 1) <= Len(Sequenced) + 1 /\ n + 1 \in Nat
            /\ j + (n + 1) = j + n + 1
        <5>1. j + n <= N + 1 /\ j + n # N + 1
          BY <2>4, <3>2
        <5> QED
          BY <2>2, <2>3, <2>4, <2>5, <5>1
      <4> DEFINE d == MessageAt(File, j + n + 1)
      <4>2. Bytes(s, n + 1) = d - b /\ d \in Nat
        BY <2>2, <2>6, <4>1, BytesAre
      <4>3. d - b > MTU - HeaderLength
        BY <3>2 DEF Payload
      <4> HIDE DEF a, b, d
      <4>4. ~(HeaderLength + (d - b) <= MTU)
        BY <2>8, <4>2, <4>3, MTUAssumption DEF HeaderLength
      <4> QED
        BY <4>2, <4>4 DEF Fit
    <3> QED
      BY <2>2, <3>1, <3>2 DEF NoMoreFit
  <2> QED
    BY <2>2, <2>3, <2>7, <2>9, <2>10 DEF m, n, s
<1> QED
  BY <1>1, FeedInvariant, PTL

=============================================================================
