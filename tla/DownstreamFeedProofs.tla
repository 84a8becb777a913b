------------------------ MODULE DownstreamFeedProofs ------------------------
(***************************************************************************)
(* Proofs about DownstreamFeed, for every file, MTU and skip time and for  *)
(* all interleavings of the downstream thread, the heartbeat thread and    *)
(* the stop: the numbers of the packets, what they carry, what heartbeats  *)
(* and end of session announce, and that the feed implements MoldSession.  *)
(***************************************************************************)
EXTENDS DownstreamFeed, SequenceTheorems, TLAPS

(* The operators of MessageFile and PacketBuilder. *)

\* What read_message() returns and where it leaves the position stay inside
\* the file, and a message is at least its prefix.
LEMMA ReadStaysInFile ==
  ASSUME NEW f, IsFile(f), NEW p \in 0 .. f.size
  PROVE  /\ MessageSize(f, p) \in Nat
         /\ PositionAfter(f, p) \in 0 .. f.size
         /\ MessageSize(f, p) # 0 =>
              /\ MessageSize(f, p) >= 2
              /\ PositionAfter(f, p) = p + MessageSize(f, p)
<1>1. f.size \in Nat /\ f.len[p] \in Nat
  BY DEF IsFile
<1>2. CASE Readable(f, p)
  BY <1>1, <1>2 DEF MessageSize, PositionAfter, Readable, LengthPrefixSize
<1>3. CASE ~Readable(f, p)
  BY <1>1, <1>3 DEF MessageSize, PositionAfter, LengthPrefixSize
<1> QED BY <1>2, <1>3

\* The header's message count has 16 bits.
LEMMA CountInRange ==
  \A n \in Nat : /\ n % (EndOfSessionCount + 1) \in Nat
                 /\ n < EndOfSessionCount =>
                      n % (EndOfSessionCount + 1) # EndOfSessionCount
<1> SUFFICES ASSUME NEW n \in Nat
             PROVE  /\ n % (EndOfSessionCount + 1) \in Nat
                    /\ n < EndOfSessionCount =>
                         n % (EndOfSessionCount + 1) # EndOfSessionCount
  OBVIOUS
<1>1. EndOfSessionCount + 1 = 65536 /\ EndOfSessionCount = 65535
  BY DEF EndOfSessionCount
<1>2. n % 65536 \in Nat
  OBVIOUS
<1>3. n < 65535 => n % 65536 = n
  OBVIOUS
<1>4. n < 65535 => n % 65536 # 65535
  BY <1>3
<1> QED BY <1>1, <1>2, <1>4

Packets == [seq : Nat, msgs : Seq(Nat), bytes_remaining : Nat]

\* try_add() appends to a packet's messages and takes their bytes off.
LEMMA AddedFields ==
  ASSUME NEW p \in Packets, NEW pos \in Nat, NEW n \in Nat,
         n <= p.bytes_remaining
  PROVE  /\ Added(p, pos, n) \in Packets
         /\ Added(p, pos, n).seq = p.seq
         /\ Added(p, pos, n).bytes_remaining = p.bytes_remaining - n
         /\ Len(Added(p, pos, n).msgs) = Len(p.msgs) + 1
         /\ \A k \in 1 .. Len(p.msgs) : Added(p, pos, n).msgs[k] = p.msgs[k]
         /\ Added(p, pos, n).msgs[Len(p.msgs) + 1] = pos
         /\ Added(p, pos, n).msgs # <<>>
<1> DEFINE m == Append(p.msgs, pos)
<1>1. /\ m \in Seq(Nat) /\ m # <<>> /\ Len(m) = Len(p.msgs) + 1
      /\ \A k \in 1 .. Len(p.msgs) : m[k] = p.msgs[k]
      /\ m[Len(p.msgs) + 1] = pos
  BY AppendProperties DEF Packets
<1>2. p.bytes_remaining - n \in Nat
  BY DEF Packets
<1>3. /\ Added(p, pos, n) \in Packets
      /\ Added(p, pos, n).seq = p.seq
      /\ Added(p, pos, n).bytes_remaining = p.bytes_remaining - n
      /\ Added(p, pos, n).msgs = m
  <2> HIDE DEF m
  <2>1. Added(p, pos, n) = [p EXCEPT !.msgs = m, !.bytes_remaining = @ - n]
    BY DEF Added, m
  <2> QED BY <1>1, <1>2, <2>1 DEF Packets
<1> QED BY <1>1, <1>3

-----------------------------------------------------------------------------
(* The inductive invariant. *)

Building == dpc \in {"build", "delay", "send"}

\* The heartbeat thread: what it has loaded was announced, and it has ended
\* when the end of the session begins.
ThreadsInv ==
  /\ hpc = "send" => hseq >= 1
  /\ hseq <= sent_sequence_number
  /\ dpc \in {"end_of_session", "done"} => hpc = "finished"

\* Every number given out was pushed; sent_sequence_number_ is the number
\* after what was handed over, or runs ahead by the packet about to be sent.
NumbersInv ==
  /\ Len(log) = sequence_number - 1
  /\ sent_sequence_number =
       IF dpc = "send" THEN sequence_number ELSE HandedOver + 1

\* The packet being built carries the newest numbers.
PacketInv ==
  Building =>
    /\ packet.seq >= 1
    /\ packet.seq + Len(packet.msgs) = sequence_number
    /\ \A k \in 1 .. Len(packet.msgs) :
         packet.msgs[k] = log[packet.seq + k - 1]

\* Its messages are adjacent in the file, the next one begins where they end,
\* and bytes_remaining_ is what they leave of the MTU.
Payload == MTU - HeaderLength - packet.bytes_remaining

PacketBytesInv ==
  Building =>
    /\ 2 * Len(packet.msgs) <= Payload
    /\ packet.msgs = <<>> => Payload = 0
    /\ packet.msgs # <<>> =>
         LET last == packet.msgs[Len(packet.msgs)] IN
           /\ last + MessageSize(file, last) = packet.msgs[1] + Payload
           /\ dpc = "build" => file_pos = packet.msgs[1] + Payload

\* The blocks handed over are below the packet being built.
BlocksInv ==
  /\ \A d \in Handed :
       /\ d.seq >= 1
       /\ d.seq <= sent_sequence_number
       /\ d.msgs # <<>> => d.seq + Len(d.msgs) <= HandedOver + 1
  /\ \A s \in 1 .. HandedOver : \E d \in Handed : s \in Block(d)
  /\ \A d, e \in Handed : d # e => Block(d) \cap Block(e) = {}

FeedInv ==
  /\ TypeOK
  /\ ThreadsInv
  /\ NumbersInv
  /\ PacketInv
  /\ PacketBytesInv
  /\ BlocksInv
  /\ WireMatchesBuffer
  /\ WithinMTU

\* Only the end of the session announces the end, if 65535 messages do not
\* fit a packet.
EndInv ==
  /\ FeedInv
  /\ \A d \in wire : EndsSession(d) =>
       /\ dpc \in {"end_of_session", "done"}
       /\ d.seq = sequence_number

-----------------------------------------------------------------------------
\* The file being replayed is one of Files, with a value everywhere.
LEMMA FileIsFile == ASSUME TypeOK PROVE IsFile(file)
BY FeedAssumption DEF TypeOK

\* The feed starts in the invariant: nothing is numbered, built or sent.
LEMMA FeedInit == Init => FeedInv
<1> SUFFICES ASSUME Init PROVE FeedInv
  OBVIOUS
<1>1. TypeOK
  <2>1. reset(0) \in [seq : Nat, msgs : Seq(Nat), bytes_remaining : Nat]
    BY MTUAssumption, EmptySeq DEF reset, HeaderLength
  <2>2. file_pos \in 0 .. file.size
    BY FeedAssumption DEF Init, IsFile
  <2>3. log \in Seq(Nat)
    BY EmptySeq DEF Init
  <2>4. /\ stop_requested \in BOOLEAN /\ eos_over \in BOOLEAN /\ hstop \in BOOLEAN
        /\ asserts \in BOOLEAN /\ aborted \in BOOLEAN
    BY DEF Init
  <2> QED BY <2>1, <2>2, <2>3, <2>4 DEF Init, TypeOK
<1>2. ThreadsInv /\ NumbersInv /\ PacketInv /\ PacketBytesInv
  BY DEF Init, ThreadsInv, NumbersInv, PacketInv, PacketBytesInv, Building,
         HandedOver
<1>3. BlocksInv /\ WireMatchesBuffer /\ WithinMTU
  BY DEF Init, BlocksInv, WireMatchesBuffer, WithinMTU, Handed, HandedOver
<1> QED BY <1>1, <1>2, <1>3 DEF FeedInv

\* A step that neither numbers, announces nor sends anything, and neither
\* begins nor ends a packet, leaves what is known of them as it is.
LEMMA Unmoved ==
  ASSUME FeedInv,
         UNCHANGED <<file, sequence_number, packet, log, sent_sequence_number,
                     wire, lost>>,
         Building' <=> Building,
         dpc' = "send" <=> dpc = "send",
         dpc' = "build" => dpc = "build" /\ file_pos' = file_pos
  PROVE  /\ NumbersInv' /\ PacketInv' /\ PacketBytesInv'
         /\ BlocksInv' /\ WireMatchesBuffer' /\ WithinMTU'
<1>1. HandedOver' = HandedOver
  BY DEF HandedOver, Building
<1>2. NumbersInv' /\ PacketInv'
  BY <1>1 DEF FeedInv, NumbersInv, PacketInv
<1>3. PacketBytesInv'
  BY DEF FeedInv, PacketBytesInv, Payload
<1>4. BlocksInv'
  BY <1>1 DEF FeedInv, BlocksInv, Handed
<1>5. WireMatchesBuffer' /\ WithinMTU'
  BY DEF FeedInv, WireMatchesBuffer, WithinMTU, Handed
<1> QED BY <1>2, <1>3, <1>4, <1>5

\* The downstream thread's steps that only move it or its position.
MoveStep ==
  \/ Start \/ LoopExit \/ LoopSkip \/ BuildFull \/ BuildUnreadable \/ BuildEof
  \/ StopHeartbeat \/ JoinHeartbeat \/ Finish

\* They preserve the invariant.
LEMMA MoveStepInv == FeedInv /\ MoveStep => FeedInv'
<1> SUFFICES ASSUME FeedInv, MoveStep PROVE FeedInv'
  OBVIOUS
<1>1. IsFile(file)
  BY FileIsFile DEF FeedInv
<1>2. TypeOK'
  <2>1. CASE LoopSkip
    BY <1>1, <2>1, ReadStaysInFile
      DEF FeedInv, TypeOK, LoopSkip, outsideVars, buildVars, heartbeatVars, networkVars
  <2>2. CASE BuildUnreadable
    BY <1>1, <2>2, ReadStaysInFile
      DEF FeedInv, TypeOK, BuildUnreadable, outsideVars, buildVars, heartbeatVars, networkVars
  <2>3. CASE Start \/ LoopExit \/ BuildFull \/ BuildEof
    BY <2>3 DEF FeedInv, TypeOK, Start, LoopExit, BuildFull, BuildEof, outsideVars,
      buildVars, downstreamVars, cursorVars, heartbeatVars, networkVars
  <2>4. CASE StopHeartbeat \/ JoinHeartbeat \/ Finish
    BY <2>4 DEF FeedInv, TypeOK, StopHeartbeat, JoinHeartbeat, Finish, outsideVars,
      buildVars, downstreamVars, cursorVars, heartbeatVars, networkVars
  <2> QED BY <2>1, <2>2, <2>3, <2>4 DEF MoveStep
<1>3. ThreadsInv'
  BY DEF MoveStep, FeedInv, ThreadsInv, Start, LoopExit, LoopSkip, BuildFull,
    BuildUnreadable, BuildEof, StopHeartbeat, JoinHeartbeat, Finish,
    downstreamVars, cursorVars, heartbeatVars, networkVars
<1>4. /\ UNCHANGED <<file, sequence_number, packet, log, sent_sequence_number,
                      wire, lost>>
      /\ Building' <=> Building
      /\ dpc' = "send" <=> dpc = "send"
      /\ dpc' # "build"
  BY DEF MoveStep, Building, Start, LoopExit, LoopSkip, BuildFull,
    BuildUnreadable, BuildEof, StopHeartbeat, JoinHeartbeat, Finish,
    outsideVars, buildVars, downstreamVars, cursorVars, heartbeatVars, networkVars
<1> QED BY <1>2, <1>3, <1>4, Unmoved DEF FeedInv

\* The steps that leave the downstream thread where it is and send nothing.
OtherStep ==
  HeartbeatCheck \/ HeartbeatLoad \/ RequestStop \/ EndOfSessionElapses \/ Abort

\* They preserve the invariant: the number loaded is one announced.
LEMMA OtherStepInv == FeedInv /\ OtherStep => FeedInv'
<1> SUFFICES ASSUME FeedInv, OtherStep PROVE FeedInv'
  OBVIOUS
<1>1. TypeOK'
  <2> USE DEF FeedInv, TypeOK, buildVars, downstreamVars, cursorVars,
    heartbeatVars, networkVars
  <2>1. CASE HeartbeatCheck \/ HeartbeatLoad
    BY <2>1 DEF HeartbeatCheck, HeartbeatLoad, outsideVars
  <2>2. CASE RequestStop \/ EndOfSessionElapses
    BY <2>2 DEF RequestStop, EndOfSessionElapses
  <2>3. CASE Abort
    BY <2>3 DEF Abort
  <2> QED BY <2>1, <2>2, <2>3 DEF OtherStep
<1>2. ThreadsInv'
  BY DEF OtherStep, FeedInv, TypeOK, ThreadsInv, HeartbeatCheck, HeartbeatLoad,
    RequestStop, EndOfSessionElapses, Abort, outsideVars, buildVars, downstreamVars, cursorVars,
    heartbeatVars, networkVars
<1>3. UNCHANGED <<file, file_pos, sequence_number, packet, log,
                  sent_sequence_number, wire, lost, dpc>>
  BY DEF OtherStep, HeartbeatCheck, HeartbeatLoad, RequestStop,
    EndOfSessionElapses, Abort, outsideVars, buildVars, downstreamVars, cursorVars, heartbeatVars,
    networkVars
<1>4. Building' <=> Building
  BY <1>3 DEF Building
<1> QED BY <1>1, <1>2, <1>3, <1>4, Unmoved DEF FeedInv

-----------------------------------------------------------------------------
\* reset() begins an empty packet at the next number.
LEMMA LoopBuildInv == FeedInv /\ LoopBuild => FeedInv'
<1> SUFFICES ASSUME FeedInv, LoopBuild PROVE FeedInv'
  OBVIOUS
<1> USE DEF FeedInv, LoopBuild, outsideVars, buildVars, heartbeatVars, networkVars
<1>1. packet' = [seq |-> sequence_number, msgs |-> <<>>,
                 bytes_remaining |-> MTU - HeaderLength]
  BY DEF reset
<1>2. TypeOK'
  <2>1. packet' \in [seq : Nat, msgs : Seq(Nat), bytes_remaining : Nat]
    BY <1>1, EmptySeq, MTUAssumption DEF TypeOK, HeaderLength
  <2> QED BY <2>1 DEF TypeOK
<1>3. HandedOver' = HandedOver
  BY <1>1 DEF HandedOver
<1>4. ThreadsInv' /\ NumbersInv'
  BY <1>3 DEF ThreadsInv, NumbersInv
<1>5. PacketInv'
  BY <1>1 DEF PacketInv, TypeOK
<1>6. PacketBytesInv'
  BY <1>1, MTUAssumption DEF PacketBytesInv, Payload, HeaderLength
<1>7. BlocksInv' /\ WireMatchesBuffer' /\ WithinMTU'
  BY <1>3 DEF BlocksInv, WireMatchesBuffer, WithinMTU, Handed
<1> QED BY <1>2, <1>4, <1>5, <1>6, <1>7

\* A message is added, pushed and numbered in one: the packet's block grows at
\* its end, and nothing that was pushed before changes.
LEMMA BuildAddInv == FeedInv /\ BuildAdd => FeedInv'
<1> SUFFICES ASSUME FeedInv, BuildAdd PROVE FeedInv'
  OBVIOUS
<1> DEFINE n == MessageSize(file, file_pos)
           m == packet.msgs
           q == packet'.msgs
<1>1. /\ TypeOK /\ ThreadsInv /\ NumbersInv /\ PacketInv /\ PacketBytesInv
      /\ BlocksInv /\ WireMatchesBuffer /\ WithinMTU
  BY DEF FeedInv
<1>2. /\ dpc = "build" /\ dpc' = dpc
      /\ CanAdd(packet, n)
      /\ packet' = Added(packet, file_pos, n)
      /\ log' = Append(log, file_pos)
      /\ sequence_number' = sequence_number + 1
      /\ file_pos' = PositionAfter(file, file_pos)
      /\ UNCHANGED <<file, asserts, aborted, stop_requested, eos_over, sent_sequence_number,
                     hpc, hseq, hstop, wire, lost>>
  BY DEF BuildAdd, outsideVars, buildVars, heartbeatVars, networkVars
<1>3. packet \in Packets /\ m \in Seq(Nat) /\ log \in Seq(Nat)
  BY <1>1 DEF TypeOK, Packets
<1>4. /\ packet.seq \in Nat /\ packet.bytes_remaining \in Nat
      /\ Len(m) \in Nat /\ Len(log) \in Nat
      /\ sequence_number \in Nat /\ sequence_number >= 1
  BY <1>1, <1>3, LenProperties DEF TypeOK, Packets
<1>5. file.size \in Nat /\ file_pos \in 0 .. file.size
  BY <1>1, FileIsFile DEF TypeOK, IsFile
<1>6. n \in Nat /\ n >= 2 /\ n <= packet.bytes_remaining
  BY <1>1, <1>2, <1>5, FileIsFile, ReadStaysInFile DEF CanAdd
<1>7. file_pos' \in 0 .. file.size /\ file_pos' = file_pos + n
  BY <1>1, <1>2, <1>5, <1>6, FileIsFile, ReadStaysInFile
<1> HIDE DEF n
<1>8. /\ packet' \in Packets
      /\ packet'.seq = packet.seq
      /\ packet'.bytes_remaining = packet.bytes_remaining - n
      /\ Len(q) = Len(m) + 1
      /\ \A k \in 1 .. Len(m) : q[k] = m[k]
      /\ q[Len(m) + 1] = file_pos
      /\ q # <<>>
  <2>1. file_pos \in Nat
    BY <1>5
  <2> DEFINE p == Added(packet, file_pos, n)
  <2>2. /\ p \in Packets
        /\ p.seq = packet.seq
        /\ p.bytes_remaining = packet.bytes_remaining - n
        /\ Len(p.msgs) = Len(m) + 1
        /\ \A k \in 1 .. Len(m) : p.msgs[k] = m[k]
        /\ p.msgs[Len(m) + 1] = file_pos
        /\ p.msgs # <<>>
    BY <1>3, <1>6, <2>1, AddedFields
  <2> HIDE DEF p
  <2>3. packet' = p
    BY <1>2 DEF p
  <2> QED BY <2>2, <2>3
<1>9. /\ log' \in Seq(Nat)
      /\ Len(log') = Len(log) + 1
      /\ \A k \in 1 .. Len(log) : log'[k] = log[k]
      /\ log'[Len(log) + 1] = file_pos
  BY <1>2, <1>3, <1>5, AppendProperties
<1>10. TypeOK'
  BY <1>1, <1>2, <1>4, <1>7, <1>8, <1>9 DEF TypeOK, Packets
<1>11. /\ packet.seq >= 1
       /\ packet.seq + Len(m) = sequence_number
       /\ Len(log) = sequence_number - 1
  BY <1>1, <1>2 DEF PacketInv, NumbersInv, Building
<1>12. HandedOver' = HandedOver /\ HandedOver = packet.seq - 1
  BY <1>2, <1>8 DEF HandedOver
<1>13. ThreadsInv' /\ NumbersInv'
  BY <1>1, <1>2, <1>4, <1>9, <1>12 DEF ThreadsInv, NumbersInv
<1>14. PacketInv'
  <2>1. ASSUME NEW k \in 1 .. Len(q)
        PROVE  q[k] = log'[packet.seq + k - 1]
    <3>1. CASE k = Len(m) + 1
      <4>1. packet.seq + k - 1 = Len(log) + 1
        BY <1>4, <1>11, <3>1
      <4> QED BY <1>8, <1>9, <3>1, <4>1
    <3>2. CASE k # Len(m) + 1
      <4>1. Len(q) = Len(m) + 1
        BY <1>8
      <4>2. k \in 1 .. Len(m)
        BY <1>4, <3>2, <4>1
      <4>3. packet.seq + k - 1 \in 1 .. Len(log)
        BY <1>4, <1>11, <4>2
      <4>4. m[k] = log[packet.seq + k - 1]
        BY <1>1, <1>2, <4>2 DEF PacketInv, Building
      <4> QED BY <1>8, <1>9, <4>2, <4>3, <4>4
    <3> QED BY <3>1, <3>2
  <2>2. packet.seq + Len(q) = sequence_number'
    <3>1. Len(q) = Len(m) + 1 /\ sequence_number' = sequence_number + 1
      BY <1>2, <1>8
    <3> QED BY <1>4, <1>11, <3>1
  <2> QED BY <1>8, <1>11, <2>1, <2>2 DEF PacketInv
<1>15. PacketBytesInv'
  <2>1. Payload' = Payload + n /\ Payload \in Int
    BY <1>4, <1>6, <1>8, MTUAssumption DEF Payload, HeaderLength
  <2>2. /\ 2 * Len(m) <= Payload
        /\ m = <<>> => Payload = 0
        /\ m # <<>> => file_pos = m[1] + Payload
    BY <1>1, <1>2 DEF PacketBytesInv, Building
  <2>3. q[1] \in Int /\ file_pos = q[1] + Payload
    <3>1. CASE m = <<>>
      <4>1. Len(m) = 0
        BY <3>1
      <4>2. q[1] = file_pos
        BY <1>8, <4>1
      <4> QED BY <1>5, <2>2, <3>1, <4>2
    <3>2. CASE m # <<>>
      <4>1. 1 \in 1 .. Len(m)
        BY <1>3, <1>4, <3>2, EmptySeq
      <4>2. q[1] = m[1] /\ m[1] \in Nat
        BY <1>3, <1>8, <4>1, ElementOfSeq
      <4> QED BY <2>2, <3>2, <4>2
    <3> QED BY <3>1, <3>2
  <2>4. q[Len(q)] = file_pos
    BY <1>8
  <2>5. 2 * Len(q) <= Payload'
    <3>1. Len(q) = Len(m) + 1
      BY <1>8
    <3> HIDE DEF Payload, m, q
    <3> QED BY <1>4, <1>6, <2>1, <2>2, <3>1
  <2>6. file_pos + n = q[1] + Payload'
    BY <1>5, <1>6, <2>1, <2>3
  <2>7. q[Len(q)] + MessageSize(file', q[Len(q)]) = q[1] + Payload'
    BY <1>2, <2>4, <2>6 DEF n
  <2> QED BY <1>7, <1>8, <2>5, <2>6, <2>7 DEF PacketBytesInv
<1>16. BlocksInv'
  BY <1>1, <1>2, <1>12 DEF BlocksInv, Handed
<1>17. WireMatchesBuffer'
  <2> SUFFICES ASSUME NEW d \in Handed, NEW k \in 1 .. Len(d.msgs)
               PROVE  d.msgs[k] = log'[d.seq + k - 1]
    BY <1>2 DEF WireMatchesBuffer, Handed
  <2>1. d.msgs \in Seq(Nat) /\ d.seq \in Nat
    BY <1>1 DEF Handed, TypeOK, Headers
  <2>2. Len(d.msgs) \in Nat
    BY <2>1
  <2>3. d.msgs # <<>>
    BY <2>1, <2>2
  <2>4. d.seq >= 1 /\ d.seq + Len(d.msgs) <= HandedOver + 1
    BY <1>1, <2>3 DEF BlocksInv
  <2>5. d.seq \in Nat
    BY <2>1
  <2>6. d.seq + Len(d.msgs) <= packet.seq
    BY <1>4, <1>12, <2>4
  <2>7. d.seq + Len(d.msgs) <= Len(log) + 1
    BY <1>4, <1>11, <2>2, <2>5, <2>6
  <2>8. d.seq + k - 1 \in 1 .. Len(log)
    BY <1>4, <2>2, <2>4, <2>5, <2>7
  <2> QED BY <1>1, <1>9, <2>8 DEF WireMatchesBuffer
<1>18. WithinMTU'
  BY <1>1, <1>2 DEF WithinMTU, Handed
<1> QED BY <1>10, <1>13, <1>14, <1>15, <1>16, <1>17, <1>18 DEF FeedInv

\* The announcement covers the packet that is about to be sent.
LEMMA DelayAndAnnounceInv == FeedInv /\ DelayAndAnnounce => FeedInv'
<1> SUFFICES ASSUME FeedInv, DelayAndAnnounce PROVE FeedInv'
  OBVIOUS
<1> USE DEF FeedInv, DelayAndAnnounce, outsideVars, buildVars, cursorVars, heartbeatVars,
            networkVars
<1>1. TypeOK'
  BY DEF TypeOK
<1>2. HandedOver' = HandedOver /\ sent_sequence_number <= sequence_number
  BY DEF HandedOver, NumbersInv, PacketInv, Building, TypeOK
<1>3. ThreadsInv' /\ NumbersInv'
  BY <1>2 DEF ThreadsInv, NumbersInv, TypeOK
<1>4. PacketInv' /\ PacketBytesInv'
  BY DEF PacketInv, PacketBytesInv, Payload, Building
<1>5. BlocksInv'
  BY <1>2 DEF BlocksInv, Handed, TypeOK, Headers
<1>6. WireMatchesBuffer' /\ WithinMTU'
  BY DEF WireMatchesBuffer, WithinMTU, Handed
<1> QED BY <1>1, <1>3, <1>4, <1>5, <1>6

\* sendmsg() hands the packet over, whether the kernel takes it or not.
LEMMA SendInv == FeedInv /\ Send => FeedInv'
<1> SUFFICES ASSUME FeedInv, Send PROVE FeedInv'
  OBVIOUS
<1> DEFINE p == finalize(packet)
<1>1. /\ TypeOK /\ ThreadsInv /\ NumbersInv /\ PacketInv /\ PacketBytesInv
      /\ BlocksInv /\ WireMatchesBuffer /\ WithinMTU
  BY DEF FeedInv
<1>2. /\ dpc = "send" /\ dpc' = "loop"
      /\ \/ wire' = wire \cup {p} /\ lost' = lost
         \/ lost' = lost \cup {p} /\ wire' = wire
      /\ UNCHANGED <<file, asserts, aborted, stop_requested, eos_over, file_pos, sequence_number,
                     packet, log, sent_sequence_number, hpc, hseq, hstop>>
  BY DEF Send, outsideVars, buildVars, downstreamVars, cursorVars, heartbeatVars
<1>3. /\ packet.seq \in Nat /\ packet.msgs \in Seq(Nat)
      /\ Len(packet.msgs) \in Nat /\ sequence_number \in Nat
      /\ packet.bytes_remaining \in Nat
  BY <1>1, LenProperties DEF TypeOK
<1>4. p \in Headers /\ p.seq = packet.seq /\ p.msgs = packet.msgs
  <2>1. Len(packet.msgs) % (EndOfSessionCount + 1) \in Nat
    BY <1>3, CountInRange
  <2> QED BY <1>3, <2>1 DEF finalize, Headers
<1> HIDE DEF p
<1>5. Handed' = Handed \cup {p}
  BY <1>2 DEF Handed
<1>6. /\ HandedOver = packet.seq - 1
      /\ HandedOver' = sequence_number - 1
      /\ packet.seq >= 1
      /\ packet.seq + Len(packet.msgs) = sequence_number
      /\ sent_sequence_number = sequence_number
  BY <1>1, <1>2 DEF HandedOver, PacketInv, NumbersInv, Building
<1>7. TypeOK'
  BY <1>1, <1>2, <1>4 DEF TypeOK
<1>8. ThreadsInv' /\ NumbersInv' /\ PacketInv' /\ PacketBytesInv'
  BY <1>1, <1>2, <1>3, <1>6
    DEF ThreadsInv, NumbersInv, PacketInv, PacketBytesInv, Building
<1>9. BlocksInv'
  <2>1. ASSUME NEW d \in Handed
        PROVE  /\ d.seq \in Nat /\ Len(d.msgs) \in Nat
               /\ d.seq >= 1 /\ d.seq <= sequence_number
               /\ d.msgs # <<>> => d.seq + Len(d.msgs) <= packet.seq
               /\ d.msgs = <<>> => Len(d.msgs) = 0
    <3>1. d \in Headers
      BY <1>1, <2>1 DEF Handed, TypeOK
    <3>2. d.seq \in Nat /\ d.msgs \in Seq(Nat) /\ Len(d.msgs) \in Nat
      BY <3>1, LenProperties DEF Headers
    <3>3. /\ d.seq >= 1 /\ d.seq <= sent_sequence_number
          /\ d.msgs # <<>> => d.seq + Len(d.msgs) <= HandedOver + 1
      BY <1>1, <2>1 DEF BlocksInv
    <3>4. HandedOver + 1 = packet.seq
      BY <1>3, <1>6
    <3>5. d.msgs = <<>> => Len(d.msgs) = 0
      OBVIOUS
    <3> QED BY <1>6, <3>2, <3>3, <3>4, <3>5
  <2>2. ASSUME NEW d \in Handed'
        PROVE  /\ d.seq >= 1
               /\ d.seq <= sent_sequence_number'
               /\ d.msgs # <<>> => d.seq + Len(d.msgs) <= HandedOver' + 1
    <3>1. CASE d = p
      BY <1>2, <1>3, <1>4, <1>6, <3>1
    <3>2. CASE d \in Handed
      BY <1>2, <1>3, <1>6, <2>1, <3>2
    <3> QED BY <1>5, <3>1, <3>2
  <2>3. ASSUME NEW s \in 1 .. HandedOver'
        PROVE  \E d \in Handed' : s \in Block(d)
    <3>1. CASE s < packet.seq
      <4>1. s \in 1 .. HandedOver
        BY <1>3, <1>6, <3>1
      <4> QED BY <1>1, <1>5, <4>1 DEF BlocksInv
    <3>2. CASE s >= packet.seq
      <4>1. s \in Block(p)
        BY <1>3, <1>4, <1>6, <3>2 DEF Block
      <4> QED BY <1>5, <4>1
    <3> QED BY <1>3, <3>1, <3>2
  <2>4. ASSUME NEW d \in Handed
        PROVE  Block(d) \cap Block(p) = {}
    BY <1>3, <1>4, <2>1, SMTT(30) DEF Block
  <2>5. ASSUME NEW d \in Handed', NEW e \in Handed', d # e
        PROVE  Block(d) \cap Block(e) = {}
    BY <1>1, <1>5, <2>4, <2>5 DEF BlocksInv
  <2> QED BY <2>2, <2>3, <2>5 DEF BlocksInv, Block
<1>10. WireMatchesBuffer'
  BY <1>1, <1>2, <1>4, <1>5 DEF WireMatchesBuffer, PacketInv, Building
<1>11. WithinMTU'
  <2> DEFINE final == p.msgs[Len(p.msgs)]
             end == final + MessageSize(file, final)
  <2>1. ASSUME p.msgs # <<>>
        PROVE  HeaderLength + (end - p.msgs[1]) <= MTU
    <3>1. end = p.msgs[1] + Payload
      BY <1>1, <1>2, <1>4, <2>1 DEF PacketBytesInv, Building
    <3>2. p.msgs[1] \in Nat /\ Payload \in Int /\ Payload <= MTU - HeaderLength
      BY <1>3, <1>4, <2>1, EmptySeq, ElementOfSeq, MTUAssumption
        DEF Payload, HeaderLength
    <3> HIDE DEF end, Payload
    <3> QED BY <3>1, <3>2, MTUAssumption DEF HeaderLength
  <2> DEFINE Fits(d) ==
        d.msgs # <<>> =>
          HeaderLength + ((d.msgs[Len(d.msgs)]
            + MessageSize(file, d.msgs[Len(d.msgs)])) - d.msgs[1]) <= MTU
  <2>2. Fits(p)
    BY <2>1
  <2>3. \A d \in Handed : Fits(d)
    BY <1>1 DEF WithinMTU
  <2>4. \A d \in Handed' : Fits(d)
    <3> HIDE DEF Fits
    <3> QED BY <1>5, <2>2, <2>3
  <2> QED BY <1>2, <2>4 DEF WithinMTU
<1> QED BY <1>7, <1>8, <1>9, <1>10, <1>11 DEF FeedInv

\* A datagram without messages takes no number.
LEMMA EmptyDatagram ==
  ASSUME FeedInv,
         NEW d \in Headers, d.msgs = <<>>,
         d.seq >= 1, d.seq <= sent_sequence_number,
         wire' = wire \cup {d},
         UNCHANGED <<file, file_pos, sequence_number, packet, log,
                     sent_sequence_number, dpc, lost>>
  PROVE  /\ wire' \subseteq Headers
         /\ NumbersInv' /\ PacketInv' /\ PacketBytesInv'
         /\ BlocksInv' /\ WireMatchesBuffer' /\ WithinMTU'
<1>1. HandedOver' = HandedOver /\ Handed' = Handed \cup {d}
  BY DEF HandedOver, Handed
<1>2. Len(d.msgs) = 0 /\ d.seq \in Nat
  BY DEF Headers
<1>3. Block(d) = {}
  BY <1>2 DEF Block
<1>4. NumbersInv' /\ PacketInv' /\ PacketBytesInv'
  BY <1>1 DEF FeedInv, NumbersInv, PacketInv, PacketBytesInv, Building, Payload
<1>5. BlocksInv'
  <2>1. \A e \in Handed' :
          /\ e.seq >= 1
          /\ e.seq <= sent_sequence_number'
          /\ e.msgs # <<>> => e.seq + Len(e.msgs) <= HandedOver' + 1
    BY <1>1 DEF FeedInv, BlocksInv
  <2>2. \A s \in 1 .. HandedOver' : \E e \in Handed' : s \in Block(e)
    BY <1>1 DEF FeedInv, BlocksInv
  <2>3. \A e, g \in Handed' : e # g => Block(e) \cap Block(g) = {}
    BY <1>1, <1>3 DEF FeedInv, BlocksInv
  <2> QED BY <2>1, <2>2, <2>3 DEF BlocksInv, Block
<1>6. WireMatchesBuffer' /\ WithinMTU'
  BY <1>1, <1>2 DEF FeedInv, WireMatchesBuffer, WithinMTU
<1> QED BY <1>4, <1>5, <1>6 DEF FeedInv, TypeOK

\* A heartbeat, however late, has a number that was announced.
LEMMA HeartbeatSendInv == FeedInv /\ HeartbeatSend => FeedInv'
<1> SUFFICES ASSUME FeedInv, HeartbeatSend PROVE FeedInv'
  OBVIOUS
<1> DEFINE d == [seq |-> hseq, msgs |-> <<>>, count |-> 0]
<1>1. /\ hpc = "send" /\ hpc' = "check"
      /\ wire' = wire \cup {d} \/ wire' = wire
      /\ UNCHANGED <<file, asserts, aborted, stop_requested, eos_over, file_pos, sequence_number,
                     packet, log, sent_sequence_number, dpc, hseq, hstop, lost>>
  BY DEF HeartbeatSend, outsideVars, buildVars, downstreamVars, cursorVars
<1>2. /\ d \in Headers /\ d.msgs = <<>>
      /\ d.seq >= 1 /\ d.seq <= sent_sequence_number
  BY <1>1, EmptySeq DEF FeedInv, TypeOK, ThreadsInv, Headers
<1> HIDE DEF d
<1>3. ThreadsInv'
  BY <1>1 DEF FeedInv, ThreadsInv
<1>4. CASE wire' = wire \cup {d}
  <2>1. TypeOK'
    BY <1>1, <1>2, <1>4 DEF FeedInv, TypeOK
  <2> QED BY <1>1, <1>2, <1>3, <1>4, <2>1, EmptyDatagram DEF FeedInv
<1>5. CASE wire' = wire
  <2>1. TypeOK'
    BY <1>1, <1>5 DEF FeedInv, TypeOK
  <2>2. Building' <=> Building
    BY <1>1 DEF Building
  <2> QED BY <1>1, <1>3, <1>5, <2>1, <2>2, Unmoved DEF FeedInv
<1> QED BY <1>1, <1>4, <1>5

\* An end of session packet has the number after the last message.
LEMMA SendEndOfSessionInv == FeedInv /\ SendEndOfSession => FeedInv'
<1> SUFFICES ASSUME FeedInv, SendEndOfSession PROVE FeedInv'
  OBVIOUS
<1> DEFINE d == [seq |-> sequence_number, msgs |-> <<>>,
                 count |-> EndOfSessionCount]
<1>1. /\ dpc = "end_of_session"
      /\ wire' = wire \cup {d} \/ wire' = wire
      /\ UNCHANGED <<file, asserts, aborted, stop_requested, eos_over, file_pos, sequence_number,
                     packet, log, sent_sequence_number, dpc, hpc, hseq, hstop,
                     lost>>
  BY DEF SendEndOfSession, outsideVars, buildVars, downstreamVars, cursorVars, heartbeatVars
<1>2. /\ d \in Headers /\ d.msgs = <<>>
      /\ d.seq >= 1 /\ d.seq <= sent_sequence_number
  BY <1>1, EmptySeq
    DEF FeedInv, TypeOK, NumbersInv, HandedOver, Headers, EndOfSessionCount
<1> HIDE DEF d
<1>3. ThreadsInv'
  BY <1>1 DEF FeedInv, ThreadsInv
<1>4. CASE wire' = wire \cup {d}
  <2>1. TypeOK'
    BY <1>1, <1>2, <1>4 DEF FeedInv, TypeOK
  <2> QED BY <1>1, <1>2, <1>3, <1>4, <2>1, EmptyDatagram DEF FeedInv
<1>5. CASE wire' = wire
  <2>1. TypeOK'
    BY <1>1, <1>5 DEF FeedInv, TypeOK
  <2>2. Building' <=> Building
    BY <1>1 DEF Building
  <2> QED BY <1>1, <1>3, <1>5, <2>1, <2>2, Unmoved DEF FeedInv
<1> QED BY <1>1, <1>4, <1>5

\* Every step of the two threads, of the caller and of the clock preserves the
\* invariant.
LEMMA FeedStepInv == FeedInv /\ [Next]_vars => FeedInv'
<1> SUFFICES ASSUME FeedInv, [Next]_vars PROVE FeedInv'
  OBVIOUS
<1>1. CASE MoveStep
  BY <1>1, MoveStepInv
<1>2. CASE OtherStep
  BY <1>2, OtherStepInv
<1>3. CASE LoopBuild
  BY <1>3, LoopBuildInv
<1>4. CASE BuildAdd
  BY <1>4, BuildAddInv
<1>5. CASE DelayAndAnnounce
  BY <1>5, DelayAndAnnounceInv
<1>6. CASE Send
  BY <1>6, SendInv
<1>7. CASE HeartbeatSend
  BY <1>7, HeartbeatSendInv
<1>8. CASE SendEndOfSession
  BY <1>8, SendEndOfSessionInv
<1>9. CASE UNCHANGED vars
  <2>1. UNCHANGED <<file, asserts, aborted, stop_requested, dpc, file_pos, sequence_number,
                    sent_sequence_number, packet, log, eos_over, hpc, hstop,
                    hseq, wire, lost>>
    BY <1>9 DEF vars, outsideVars, buildVars, downstreamVars, cursorVars, heartbeatVars,
      networkVars
  <2>2. TypeOK' /\ ThreadsInv'
    BY <2>1 DEF FeedInv, TypeOK, ThreadsInv
  <2>3. Building' <=> Building
    BY <2>1 DEF Building
  <2> QED BY <2>1, <2>2, <2>3, Unmoved DEF FeedInv
<1> QED BY <1>1, <1>2, <1>3, <1>4, <1>5, <1>6, <1>7, <1>8, <1>9
  DEF Next, DownstreamStep, DownstreamRuns, HeartbeatStep, Done, MoveStep, OtherStep

\* The feed is always in the invariant.
LEMMA FeedAlwaysInv == Spec => []FeedInv
BY FeedInit, FeedStepInv, PTL DEF Spec

\* The numbers given out are tiled by the blocks handed over and the packet
\* being built.
LEMMA InvTiles == FeedInv => NumbersTile
<1> SUFFICES ASSUME FeedInv PROVE NumbersTile
  OBVIOUS
<1>1. /\ TypeOK /\ NumbersInv /\ PacketInv /\ BlocksInv
  BY DEF FeedInv
<1>2. /\ sequence_number \in Nat /\ packet.seq \in Nat
      /\ packet.msgs \in Seq(Nat) /\ Len(packet.msgs) \in Nat
  BY <1>1, LenProperties DEF TypeOK
<1>3. \/ /\ Building /\ BuiltNotSent = packet.seq .. sequence_number - 1
         /\ HandedOver = packet.seq - 1
         /\ packet.seq >= 1 /\ packet.seq <= sequence_number
      \/ /\ ~Building /\ BuiltNotSent = {}
         /\ HandedOver = sequence_number - 1
  BY <1>1, <1>2 DEF PacketInv, Building, BuiltNotSent, Block, HandedOver
<1>4. ASSUME NEW d \in Handed
      PROVE  \A s \in Block(d) : s \in 1 .. HandedOver
  <2>1. /\ d.seq \in Nat /\ d.msgs \in Seq(Nat) /\ Len(d.msgs) \in Nat
        /\ d.msgs = <<>> => Len(d.msgs) = 0
    BY <1>1, LenProperties DEF TypeOK, Handed, Headers
  <2>2. d.seq >= 1 /\ (d.msgs # <<>> => d.seq + Len(d.msgs) <= HandedOver + 1)
    BY <1>1 DEF BlocksInv
  <2>3. HandedOver \in Int
    BY <1>2, <1>3
  <2> QED BY <2>1, <2>2, <2>3 DEF Block
<1>5. \A s \in 1 .. HandedOver : \E d \in Handed : s \in Block(d)
  BY <1>1 DEF BlocksInv
<1>6. \A s : s \in UNION {Block(d) : d \in Handed} <=> s \in 1 .. HandedOver
  BY <1>4, <1>5
<1>7. (UNION {Block(d) : d \in Handed}) \cup BuiltNotSent
        = 1 .. sequence_number - 1
  BY <1>2, <1>3, <1>6
<1>8. \A d \in Handed : Block(d) \cap BuiltNotSent = {}
  BY <1>2, <1>3, <1>4
<1> QED BY <1>1, <1>7, <1>8 DEF NumbersTile, BlocksInv

\* A number announced covers what was handed over, or the packet about to be.
LEMMA InvAnnounces == FeedInv => HeartbeatAnnouncesSent
<1> SUFFICES ASSUME FeedInv, NEW d \in wire, NEW s \in 1 .. d.seq - 1,
                    ~(dpc = "send" /\ s \in Block(packet))
             PROVE  \E e \in Handed : s \in Block(e)
  BY DEF HeartbeatAnnouncesSent
<1>1. /\ TypeOK /\ NumbersInv /\ PacketInv /\ BlocksInv
  BY DEF FeedInv
<1>2. /\ sequence_number \in Nat /\ packet.seq \in Nat
      /\ packet.msgs \in Seq(Nat) /\ Len(packet.msgs) \in Nat
      /\ d.seq \in Nat /\ d \in Handed
  BY <1>1, LenProperties DEF TypeOK, Headers, Handed
<1>3. d.seq <= sent_sequence_number /\ sent_sequence_number \in Nat
  BY <1>1, <1>2 DEF BlocksInv, TypeOK
<1>4. HandedOver \in Int
  BY <1>2 DEF HandedOver
<1>5. CASE dpc = "send"
  <2>1. /\ packet.seq + Len(packet.msgs) = sequence_number
        /\ HandedOver = packet.seq - 1
        /\ sent_sequence_number = sequence_number
    BY <1>1, <1>5 DEF PacketInv, NumbersInv, Building, HandedOver
  <2>2. s \in 1 .. HandedOver
    BY <1>2, <1>3, <1>5, <2>1 DEF Block
  <2> QED BY <1>1, <2>2 DEF BlocksInv
<1>6. CASE dpc # "send"
  <2>1. s \in 1 .. HandedOver
    BY <1>1, <1>2, <1>3, <1>4, <1>6 DEF NumbersInv
  <2> QED BY <1>1, <2>1 DEF BlocksInv
<1> QED BY <1>5, <1>6

-----------------------------------------------------------------------------
(* The end of the session. *)

\* Fewer than 65535 messages fit a packet: a datagram of UDP is shorter than
\* that many length prefixes.
FewMessagesFit == MTU < HeaderLength + 2 * EndOfSessionCount

\* No packet that is sent is taken for an end of session.
LEMMA DataPacketIsNotEnd ==
  ASSUME FewMessagesFit, FeedInv, Building
  PROVE  finalize(packet).count # EndOfSessionCount
<1>1. /\ packet.msgs \in Seq(Nat) /\ Len(packet.msgs) \in Nat
      /\ packet.bytes_remaining \in Nat
  BY LenProperties DEF FeedInv, TypeOK
<1>2. 2 * Len(packet.msgs) <= MTU - HeaderLength - packet.bytes_remaining
  BY DEF FeedInv, PacketBytesInv, Payload
<1>3. Len(packet.msgs) < EndOfSessionCount
  BY <1>1, <1>2, MTUAssumption
    DEF FewMessagesFit, HeaderLength, EndOfSessionCount
<1> QED BY <1>1, <1>3, CountInRange DEF finalize

\* What a step may put on the wire: end of session packets only once the
\* heartbeat thread has ended, and then nothing else and no new number.
EndStep ==
  /\ \A d \in wire' \ wire : EndsSession(d) =>
       /\ dpc = "end_of_session"
       /\ d.seq = sequence_number
  /\ dpc \in {"end_of_session", "done"} =>
       /\ dpc' \in {"end_of_session", "done"}
       /\ \A d \in wire' \ wire : EndsSession(d)
       /\ UNCHANGED <<lost, log, hseq, sequence_number>>

\* Every step is such a step.
LEMMA EndStepAlways ==
  ASSUME FewMessagesFit, FeedInv, [Next]_vars
  PROVE  EndStep
<1>1. dpc \in {"end_of_session", "done"} => hpc = "finished"
  BY DEF FeedInv, ThreadsInv
<1>2. CASE MoveStep
  BY <1>1, <1>2 DEF MoveStep, EndStep, Start, LoopExit, LoopSkip, BuildFull,
    BuildUnreadable, BuildEof, StopHeartbeat, JoinHeartbeat, Finish,
    downstreamVars, cursorVars, heartbeatVars, networkVars
<1>3. CASE OtherStep
  BY <1>1, <1>3 DEF OtherStep, EndStep, HeartbeatCheck, HeartbeatLoad,
    RequestStop, EndOfSessionElapses, Abort, downstreamVars, cursorVars, heartbeatVars,
    networkVars
<1>4. CASE LoopBuild \/ BuildAdd \/ DelayAndAnnounce
  BY <1>4 DEF EndStep, LoopBuild, BuildAdd, DelayAndAnnounce, cursorVars,
    heartbeatVars, networkVars
<1>5. CASE Send
  <2>1. ~EndsSession(finalize(packet))
    BY <1>5, DataPacketIsNotEnd DEF Send, Building, EndsSession
  <2>2. dpc = "send" /\ \A d \in wire' \ wire : d = finalize(packet)
    BY <1>5 DEF Send
  <2> QED BY <2>1, <2>2 DEF EndStep
<1>6. CASE HeartbeatSend
  <2>1. hpc = "send" /\ \A d \in wire' \ wire : d.count = 0
    BY <1>6 DEF HeartbeatSend
  <2> QED BY <1>1, <2>1 DEF EndStep, EndsSession, EndOfSessionCount
<1>7. CASE SendEndOfSession
  <2>1. /\ dpc = "end_of_session" /\ dpc' = dpc
        /\ UNCHANGED <<lost, log, hseq, sequence_number>>
        /\ \A d \in wire' \ wire :
             d.seq = sequence_number /\ d.count = EndOfSessionCount
    BY <1>7 DEF SendEndOfSession, downstreamVars, cursorVars, heartbeatVars
  <2> QED BY <2>1 DEF EndStep, EndsSession
<1>8. CASE UNCHANGED vars
  BY <1>8 DEF EndStep, vars, downstreamVars, cursorVars, heartbeatVars,
    networkVars
<1> QED BY <1>2, <1>3, <1>4, <1>5, <1>6, <1>7, <1>8
  DEF Next, DownstreamStep, DownstreamRuns, HeartbeatStep, Done, MoveStep, OtherStep

\* An end of session on the wire was sent at the end, with the last number.
LEMMA EndAlwaysInv == ASSUME FewMessagesFit PROVE Spec => []EndInv
<1>1. Init => EndInv
  BY FeedInit DEF Init, EndInv
<1>2. EndInv /\ [Next]_vars => EndInv'
  <2> SUFFICES ASSUME EndInv, [Next]_vars PROVE EndInv'
    OBVIOUS
  <2>1. FeedInv' /\ EndStep
    BY FeedStepInv, EndStepAlways DEF EndInv
  <2>2. ASSUME NEW d \in wire', EndsSession(d)
        PROVE  dpc' \in {"end_of_session", "done"} /\ d.seq = sequence_number'
    <3>1. /\ dpc \in {"end_of_session", "done"}
          /\ d.seq = sequence_number
      BY <2>1, <2>2 DEF EndInv, EndStep
    <3> QED BY <2>1, <3>1 DEF EndStep
  <2> QED BY <2>1, <2>2 DEF EndInv, EndsSession
<1> QED BY <1>1, <1>2, PTL DEF Spec

\* So it is the last word of the session.
LEMMA InvEndIsLast == EndInv => EndOfSessionIsLast
<1> SUFFICES ASSUME EndInv, NEW d \in wire, EndsSession(d)
             PROVE  /\ hpc = "finished"
                    /\ \A e \in Handed : e.seq + Len(e.msgs) <= d.seq
                    /\ d.seq = Len(log) + 1
  BY DEF EndOfSessionIsLast
<1>1. /\ TypeOK /\ ThreadsInv /\ NumbersInv /\ BlocksInv
      /\ dpc \in {"end_of_session", "done"} /\ d.seq = sequence_number
  BY DEF EndInv, FeedInv
<1>2. /\ HandedOver = sequence_number - 1 /\ sequence_number \in Nat
      /\ sent_sequence_number = sequence_number
  BY <1>1 DEF HandedOver, NumbersInv, TypeOK
<1>3. ASSUME NEW e \in Handed
      PROVE  e.seq + Len(e.msgs) <= d.seq
  <2>1. /\ e.seq \in Nat /\ Len(e.msgs) \in Nat
        /\ e.msgs = <<>> => Len(e.msgs) = 0
    BY <1>1, LenProperties DEF TypeOK, Handed, Headers
  <2> QED BY <1>1, <1>2, <2>1 DEF BlocksInv
<1>4. Len(log) \in Nat /\ Len(log) = sequence_number - 1
  BY <1>1, LenProperties DEF TypeOK, NumbersInv
<1> QED BY <1>1, <1>2, <1>3, <1>4 DEF ThreadsInv

-----------------------------------------------------------------------------
(* The theorems. *)

\* The feed's state keeps its types; in particular file_pos_ never leaves the
\* file, however it is cut, and bytes_remaining_ never goes below zero.
THEOREM TypeCorrect == Spec => []TypeOK
BY FeedAlwaysInv, PTL DEF FeedInv

\* The packets handed to the socket number the messages without gap and
\* without overlap, whichever sends fail.
THEOREM NumbersTileAlways == Spec => []NumbersTile
BY FeedAlwaysInv, InvTiles, PTL

\* Every message on the wire is the one that the retransmission buffer was
\* given under its number.
THEOREM WireMatchesBufferAlways == Spec => []WireMatchesBuffer
BY FeedAlwaysInv, PTL DEF FeedInv

\* No data packet is larger than the MTU.
THEOREM WithinMTUAlways == Spec => []WithinMTU
BY FeedAlwaysInv, PTL DEF FeedInv

\* No heartbeat announces a number before its predecessors are handed over.
THEOREM HeartbeatAnnouncesSentAlways == Spec => []HeartbeatAnnouncesSent
BY FeedAlwaysInv, InvAnnounces, PTL

\* An end of session packet is sent only after the heartbeat thread has ended,
\* with the number after the last message.
THEOREM EndOfSessionIsLastAlways ==
  ASSUME FewMessagesFit PROVE Spec => []EndOfSessionIsLast
BY EndAlwaysInv, InvEndIsLast, PTL

\* Once the end is announced nothing else is sent and no message is numbered.
THEOREM NothingFollowsEndOfSession ==
  ASSUME FewMessagesFit PROVE Spec => NothingAfterEndOfSession
<1>1. EndInv /\ [Next]_vars =>
        [(\E d \in wire : EndsSession(d)) =>
           /\ \A d \in wire' \ wire : EndsSession(d)
           /\ UNCHANGED <<lost, log, hseq>>]_vars
  BY EndStepAlways DEF EndInv, EndStep
<1> QED BY <1>1, EndAlwaysInv, PTL DEF Spec, NothingAfterEndOfSession

-----------------------------------------------------------------------------
(* The feed implements the session of MoldSession. *)

\* The packet handed to sendmsg() is the session's next block: the committed
\* messages not yet handed over, under their numbers.
LEMMA PacketIsNextBlock ==
  ASSUME FeedInv, dpc = "send"
  PROVE  finalize(packet) = Session!NextBlock
<1>1. TypeOK /\ NumbersInv /\ PacketInv
  BY DEF FeedInv
<1>2. packet.msgs \in Seq(Nat) /\ log \in Seq(Nat)
  BY <1>1 DEF TypeOK
<1>2a. /\ Len(packet.msgs) \in Nat /\ Len(log) \in Nat
      /\ packet.seq \in Nat /\ sequence_number \in Nat
  BY <1>1, <1>2, LenProperties DEF TypeOK
<1>3. /\ packet.seq >= 1
      /\ packet.seq + Len(packet.msgs) = sequence_number
      /\ sent_sequence_number = sequence_number
      /\ Len(log) = sequence_number - 1
      /\ HandedOver = packet.seq - 1
  BY <1>1 DEF PacketInv, NumbersInv, HandedOver, Building
<1> DEFINE a == packet.seq
           b == sequence_number - 1
<1>4. a \in Int /\ b \in Int /\ b = a + Len(packet.msgs) - 1 /\ b = Len(log)
  BY <1>2a, <1>3
<1> HIDE DEF a, b
<1>5. \A i \in a .. b : log[i] \in Nat
  <2> SUFFICES ASSUME NEW i \in a .. b PROVE log[i] \in Nat
    OBVIOUS
  <2>1. i \in 1 .. Len(log)
    BY <1>2a, <1>3, <1>4 DEF a
  <2> QED BY <1>2, <2>1, ElementOfSeq
<1> DEFINE c == SubSeq(log, a, b)
<1>6. /\ c \in Seq(Nat)
      /\ Len(c) = IF a <= b THEN b - a + 1 ELSE 0
      /\ \A i \in 1 .. b - a + 1 : c[i] = log[a + i - 1]
  BY <1>4, <1>5, SubSeqProperties
<1>7. Len(c) = Len(packet.msgs) /\ b - a + 1 = Len(packet.msgs)
  BY <1>2a, <1>4, <1>6
<1>8. \A i \in 1 .. Len(packet.msgs) : packet.msgs[i] = c[i]
  BY <1>1, <1>6, <1>7 DEF PacketInv, Building, a
<1>9. packet.msgs = c
  <2> HIDE DEF c
  <2> QED BY <1>2, <1>6, <1>7, <1>8, SeqEqual
<1>10. /\ HandedOver + 1 = a
       /\ sent_sequence_number - 1 = b
       /\ sent_sequence_number - 1 - HandedOver = Len(packet.msgs)
  BY <1>2a, <1>3 DEF a, b
<1> DEFINE first == HandedOver + 1
           block == SubSeq(log, HandedOver + 1, sent_sequence_number - 1)
           count == (sent_sequence_number - 1 - HandedOver) % 65536
<1>11. Session!NextBlock = [seq |-> first, msgs |-> block, count |-> count]
  BY DEF Session!NextBlock, Session!Datagram, Session!MessageCount
<1>12. first = packet.seq
  BY <1>10 DEF a
<1>13. block = packet.msgs
  BY <1>9, <1>10, Zenon
<1>14. count = Len(packet.msgs) % (EndOfSessionCount + 1)
  <2> DEFINE n == Len(packet.msgs)
             k == sent_sequence_number - 1 - HandedOver
             w == EndOfSessionCount + 1
  <2>1. w = 65536
    BY DEF EndOfSessionCount
  <2>2. k = n
    BY <1>10
  <2> HIDE DEF k, n, w
  <2>3. k % 65536 = n % w
    BY <2>1, <2>2
  <2> QED BY <2>3 DEF k, n, w
<1> HIDE DEF first, block, count
<1>15. finalize(packet) = [seq |-> first, count |-> count, msgs |-> block]
  BY <1>12, <1>13, <1>14, Zenon DEF finalize
<1> QED BY <1>11, <1>15

\* The session's state does not change.
LEMMA SessionStutters ==
  ASSUME UNCHANGED <<log, sent_sequence_number, HandedOver, wire>>,
         dpc' \in {"end_of_session", "done"} <=> dpc \in {"end_of_session", "done"}
  PROVE  UNCHANGED Session!sessionVars
BY DEF Session!sessionVars

\* Every step of the feed, of its heartbeat and of the environment is a step
\* of the session or leaves it as it is.
LEMMA StepRefines ==
  ASSUME FeedInv, FeedInv', [Next]_vars
  PROVE  [Session!SessionNext]_(Session!sessionVars)
<1> USE DEF outsideVars, buildVars, downstreamVars, cursorVars, heartbeatVars, networkVars
<1>1. /\ TypeOK /\ ThreadsInv /\ NumbersInv /\ PacketInv /\ BlocksInv
      /\ sequence_number \in Nat /\ sent_sequence_number \in Nat
  BY DEF FeedInv, TypeOK
<1>2. CASE MoveStep /\ ~JoinHeartbeat
  <2>1. /\ UNCHANGED <<log, sent_sequence_number, sequence_number, packet, wire>>
        /\ dpc' \in {"build", "delay", "send"} <=> dpc \in {"build", "delay", "send"}
        /\ dpc' \in {"end_of_session", "done"} <=> dpc \in {"end_of_session", "done"}
    BY <1>2 DEF MoveStep, Start, LoopExit, LoopSkip, BuildFull, BuildUnreadable,
      BuildEof, StopHeartbeat, Finish
  <2>2. HandedOver' = HandedOver
    BY <2>1 DEF HandedOver
  <2> QED BY <2>1, <2>2, SessionStutters
<1>3. CASE JoinHeartbeat
  <2>1. /\ UNCHANGED <<log, sent_sequence_number, sequence_number, packet, wire>>
        /\ dpc = "join_heartbeat" /\ dpc' = "end_of_session"
    BY <1>3 DEF JoinHeartbeat
  <2>2. HandedOver' = HandedOver /\ HandedOver = Len(log)
    BY <1>1, <2>1 DEF HandedOver, NumbersInv
  <2>3. Session!End
    BY <2>1, <2>2 DEF Session!End
  <2> QED BY <2>3 DEF Session!SessionNext
<1>4. CASE OtherStep
  <2>1. UNCHANGED <<log, sent_sequence_number, sequence_number, packet, wire, dpc>>
    BY <1>4 DEF OtherStep, HeartbeatCheck, HeartbeatLoad, RequestStop, Abort,
      EndOfSessionElapses
  <2>2. HandedOver' = HandedOver
    BY <2>1 DEF HandedOver
  <2> QED BY <2>1, <2>2, SessionStutters
<1>5. CASE LoopBuild
  <2>1. /\ UNCHANGED <<log, sent_sequence_number, sequence_number, wire>>
        /\ dpc = "loop" /\ dpc' = "build" /\ packet'.seq = sequence_number
    BY <1>5 DEF LoopBuild, reset
  <2>2. HandedOver' = HandedOver
    BY <2>1 DEF HandedOver
  <2> QED BY <2>1, <2>2, SessionStutters
<1>6. CASE BuildAdd
  <2>1. /\ UNCHANGED <<sent_sequence_number, wire, dpc>>
        /\ dpc = "build"
        /\ log' = Append(log, file_pos)
        /\ packet' = Added(packet, file_pos, MessageSize(file, file_pos))
    BY <1>6 DEF BuildAdd
  <2>2. packet'.seq = packet.seq
    BY <1>1, <2>1 DEF Added, TypeOK
  <2>3. HandedOver' = HandedOver
    BY <2>1, <2>2 DEF HandedOver
  <2>4. file_pos \in FilePositions
    BY <1>1 DEF TypeOK, FilePositions
  <2>5. Session!Number
    BY <2>1, <2>3, <2>4 DEF Session!Number
  <2> QED BY <2>5 DEF Session!SessionNext
<1>7. CASE DelayAndAnnounce
  <2>1. /\ UNCHANGED <<log, sequence_number, packet, wire>>
        /\ dpc = "delay" /\ dpc' = "send"
        /\ sent_sequence_number' = sequence_number
    BY <1>7 DEF DelayAndAnnounce
  <2>2. HandedOver' = HandedOver /\ (sent_sequence_number - 1)' = Len(log)
    BY <1>1, <2>1 DEF HandedOver, NumbersInv
  <2>3. Session!Commit
    BY <2>1, <2>2 DEF Session!Commit
  <2> QED BY <2>3 DEF Session!SessionNext
<1>8. CASE Send
  <2>1. /\ UNCHANGED <<log, sent_sequence_number, sequence_number, packet>>
        /\ dpc = "send" /\ dpc' = "loop"
        /\ wire' = wire \/ wire' = wire \cup {finalize(packet)}
    BY <1>8 DEF Send
  <2>2. wire' = wire \/ wire' = wire \cup {Session!NextBlock}
    BY <2>1, PacketIsNextBlock
  <2>3. HandedOver' = sent_sequence_number - 1
    BY <1>1, <2>1 DEF HandedOver, NumbersInv
  <2>4. Session!Hand
    BY <2>1, <2>2, <2>3 DEF Session!Hand
  <2> QED BY <2>4 DEF Session!SessionNext
<1>9. CASE HeartbeatSend
  <2>1. /\ UNCHANGED <<log, sent_sequence_number, sequence_number, packet, dpc>>
        /\ hpc = "send"
        /\ \/ wire' = wire
           \/ wire' = wire \cup {[seq |-> hseq, msgs |-> <<>>, count |-> 0]}
    BY <1>9 DEF HeartbeatSend
  <2>2. HandedOver' = HandedOver /\ dpc \notin {"end_of_session", "done"}
    BY <1>1, <2>1 DEF HandedOver, ThreadsInv
  <2>3. CASE wire' = wire
    BY <2>1, <2>2, <2>3, SessionStutters
  <2>4. CASE wire' = wire \cup {[seq |-> hseq, msgs |-> <<>>, count |-> 0]}
    <3>1. /\ hseq - 1 \in 0 .. sent_sequence_number - 1
          /\ (hseq - 1) + 1 = hseq
      BY <1>1, <2>1 DEF ThreadsInv, TypeOK
    <3>2. \E n \in 0 .. sent_sequence_number - 1 :
            wire' = wire \cup {[seq |-> n + 1, msgs |-> <<>>, count |-> 0]}
      BY <2>4, <3>1
    <3>3. Session!Heartbeat
      BY <2>1, <2>2, <3>2 DEF Session!Heartbeat, Session!Datagram
    <3> QED BY <3>3 DEF Session!SessionNext
  <2> QED BY <2>1, <2>3, <2>4
<1>10. CASE SendEndOfSession
  <2>1. /\ UNCHANGED <<log, sent_sequence_number, sequence_number, packet, dpc>>
        /\ dpc = "end_of_session"
        /\ \/ wire' = wire
           \/ wire' = wire \cup {[seq |-> sequence_number, msgs |-> <<>>,
                                 count |-> EndOfSessionCount]}
    BY <1>10 DEF SendEndOfSession
  <2>2. HandedOver' = HandedOver /\ sequence_number = Len(log) + 1
    BY <1>1, <2>1, LenProperties DEF HandedOver, NumbersInv, TypeOK
  <2>3. CASE wire' = wire
    BY <2>1, <2>2, <2>3, SessionStutters
  <2>4. CASE wire' # wire
    <3>1. EndOfSessionCount = Session!MessageCount - 1
      BY DEF EndOfSessionCount, Session!MessageCount
    <3>2. Session!AnnounceEnd
      BY <2>1, <2>2, <2>4, <3>1 DEF Session!AnnounceEnd, Session!Datagram
    <3> QED BY <3>2 DEF Session!SessionNext
  <2> QED BY <2>3, <2>4
<1>11. CASE UNCHANGED vars
  <2>1. UNCHANGED <<log, sent_sequence_number, sequence_number, packet, wire, dpc>>
    BY <1>11 DEF vars
  <2>2. HandedOver' = HandedOver
    BY <2>1 DEF HandedOver
  <2> QED BY <2>1, <2>2, SessionStutters
<1> QED BY <1>2, <1>3, <1>4, <1>5, <1>6, <1>7, <1>8, <1>9, <1>10, <1>11
  DEF Next, DownstreamStep, DownstreamRuns, HeartbeatStep, Done, MoveStep, OtherStep

\* The feed and its heartbeat implement MoldSession: whatever the threads'
\* interleaving and whichever sends fail, a client sees a session.
THEOREM FeedImplementsSession == Spec => ImplementsSession
<1>1. Init => Session!SessionInit
  BY DEF Init, Session!SessionInit, HandedOver
<1>2. FeedInv /\ FeedInv' /\ [Next]_vars =>
        [Session!SessionNext]_(Session!sessionVars)
  BY StepRefines
<1> QED BY <1>1, <1>2, FeedAlwaysInv, PTL
  DEF Spec, ImplementsSession, Session!SessionSpec

=============================================================================
