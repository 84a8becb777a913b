----------------------- MODULE DownstreamReplayProofs -----------------------
(***************************************************************************)
(* Proofs about what DownstreamFeed replays of a complete file: its        *)
(* messages from skip_before on, in file order, each once, and all of them *)
(* if start() is not stopped.                                              *)
(***************************************************************************)
EXTENDS DownstreamFeedProofs, MessageFileProofs

-----------------------------------------------------------------------------
(* The inductive invariant. *)

Kept(k) == ~should_skip(file.ts[file.starts[k]])

LoopIsOver == dpc \in {"stop_heartbeat", "join_heartbeat", "end_of_session", "done"}

\* file_pos_ is where the c-th message starts, or at the end of the file.  The
\* messages numbered so far are the ones directly before it, all those before
\* them were skipped and the first of them was not.  A packet is begun only
\* at a message the pacer lets through, and the loop is left only at the end
\* of the file or when it is stopped.
Cursor(c) ==
  /\ file_pos = MessageAt(file, c)
  /\ Len(log) < c
  /\ \A k \in 1 .. Len(log) : log[k] = file.starts[((c - Len(log)) + k) - 1]
  /\ \A i \in 1 .. (c - Len(log)) - 1 : ~Kept(i)
  /\ Len(log) > 0 => Kept(c - Len(log))
  /\ dpc = "build" /\ Len(log) = 0 => c <= Len(file.starts) /\ Kept(c)
  /\ LoopIsOver /\ ~stop_requested => c = Len(file.starts) + 1

ReplayInv ==
  IsComplete(file) => \E c \in 1 .. Len(file.starts) + 1 : Cursor(c)

-----------------------------------------------------------------------------
\* In a complete file every message is readable, its timestamp can be peeked
\* at, and the end of the last message is the end of the file.
LEMMA CompleteFile ==
  ASSUME TypeOK, IsComplete(file)
  PROVE  /\ Len(file.starts) \in Nat /\ Len(file.starts) > 0
         /\ file.size \in Nat
         /\ \A c \in 1 .. Len(file.starts) :
              /\ MessageAt(file, c) = file.starts[c]
              /\ MessageAt(file, c + 1) = PositionAfter(file, file.starts[c])
              /\ Readable(file, file.starts[c])
              /\ file.starts[c] \in Nat
              /\ file.starts[c] < file.size
              /\ CanPeek(file, file.starts[c]) /\ TimestampInBounds(file, file.starts[c])
              /\ PeekedTimestamps(file, file.starts[c]) = {file.ts[file.starts[c]]}
              /\ file.ts[file.starts[c]] \in Nat
         /\ MessageAt(file, Len(file.starts) + 1) = file.size
<1>1. IsFile(file) /\ StartsAreMessages(file)
  BY FeedAssumption DEF TypeOK
<1>2. /\ file.starts \in Seq(Nat) /\ Len(file.starts) \in Nat
      /\ Len(file.starts) > 0 /\ file.size \in Nat
  BY <1>1 DEF StartsAreMessages, IsComplete, IsFile
<1>3. ASSUME NEW c \in 1 .. Len(file.starts)
      PROVE  /\ MessageAt(file, c) = file.starts[c]
             /\ MessageAt(file, c + 1) = PositionAfter(file, file.starts[c])
             /\ Readable(file, file.starts[c])
             /\ file.starts[c] \in Nat
             /\ file.starts[c] < file.size
             /\ CanPeek(file, file.starts[c]) /\ TimestampInBounds(file, file.starts[c])
             /\ PeekedTimestamps(file, file.starts[c]) = {file.ts[file.starts[c]]}
             /\ file.ts[file.starts[c]] \in Nat
  <2> DEFINE p == file.starts[c]
             n == file.len[p]
  <2>1. /\ MessageAt(file, c) = p /\ p \in Nat
        /\ MessageAt(file, c + 1) = PositionAfter(file, p)
    BY <1>1, MessagesTile
  <2>2. Readable(file, p) /\ n >= timestamp_offset + timestamp_size
    BY <1>1 DEF StartsAreMessages, IsComplete
  <2> HIDE DEF p
  <2>3. p \in 0 .. file.size
    BY <1>2, <2>1, <2>2 DEF Readable, LengthPrefixSize
  <2>4. n \in Nat /\ file.ts[p] \in Nat
    BY <1>1, <2>3 DEF IsFile
  <2>5. p + LengthPrefixSize + n <= file.size
    BY <2>2 DEF Readable
  <2> HIDE DEF n
  <2>6. file.size - p >= 13
    BY <1>2, <2>1, <2>2, <2>4, <2>5
    DEF LengthPrefixSize, timestamp_offset, timestamp_size
  <2>7. /\ p < file.size /\ CanPeek(file, p) /\ TimestampInBounds(file, p)
    BY <1>2, <2>1, <2>6 DEF CanPeek, TimestampInBounds, LengthPrefixSize,
                            timestamp_offset, timestamp_size
  <2> QED
    BY <2>1, <2>2, <2>4, <2>7 DEF p, PeekedTimestamps
<1>4. MessageAt(file, Len(file.starts) + 1) = file.size
  BY <1>2 DEF IsComplete, MessageAt
<1> QED
  BY <1>2, <1>3, <1>4

\* The replay starts at the first message.
LEMMA ReplayInit == Init => ReplayInv
<1> SUFFICES ASSUME Init, IsComplete(file)
             PROVE  \E c \in 1 .. Len(file.starts) + 1 : Cursor(c)
  BY DEF ReplayInv
<1>1. TypeOK
  BY FeedInit DEF FeedInv
<1>2. file_pos = 0 /\ log = <<>> /\ dpc = "idle"
  BY DEF Init
<1>3. 1 \in 1 .. Len(file.starts) + 1
  BY <1>1, CompleteFile
<1>4. Cursor(1)
  BY <1>2 DEF Cursor, MessageAt, LoopIsOver
<1> QED
  BY <1>3, <1>4

\* Steps that neither move the position, number a message, begin a packet nor
\* leave the loop.
LEMMA CursorKept ==
  ASSUME NEW c, Cursor(c), UNCHANGED <<file, file_pos, log>>,
         dpc' = "build" => dpc = "build",
         LoopIsOver' /\ ~stop_requested' => LoopIsOver /\ ~stop_requested
  PROVE  Cursor(c)'
BY DEF Cursor, Kept, should_skip, MessageAt

\* Only a failing assertion aborts, and no step exchanges the file.
LEMMA AbortStep ==
  ASSUME [Next]_vars
  PROVE  /\ file' = file
         /\ aborted' = aborted \/ AssertionFails
<1> USE DEF outsideVars, buildVars
<1>1. CASE DownstreamRuns
  BY <1>1 DEF DownstreamRuns, Start, LoopExit, LoopSkip, LoopBuild, BuildAdd,
    BuildFull, BuildUnreadable, BuildEof, DelayAndAnnounce, Send,
    StopHeartbeat, JoinHeartbeat, SendEndOfSession, Finish
<1>2. CASE HeartbeatStep
  BY <1>2 DEF HeartbeatStep, HeartbeatCheck, HeartbeatLoad, HeartbeatSend
<1>3. CASE RequestStop \/ EndOfSessionElapses
  BY <1>3 DEF RequestStop, EndOfSessionElapses
<1>4. CASE Abort
  BY <1>4 DEF Abort
<1>5. CASE UNCHANGED vars
  BY <1>5 DEF vars
<1> QED BY <1>1, <1>2, <1>3, <1>4, <1>5 DEF Next, DownstreamStep, Done

\* Every step preserves the invariant.
LEMMA ReplayStep ==
  ASSUME TypeOK, ReplayInv, [Next]_vars
  PROVE  ReplayInv'
<1> DEFINE N == Len(file.starts)
           L == Len(log)
<1>1. file' = file
  BY AbortStep
<1> SUFFICES ASSUME IsComplete(file)
             PROVE  \E c \in 1 .. N + 1 : Cursor(c)'
  BY <1>1 DEF ReplayInv, IsComplete
<1>2. PICK c \in 1 .. N + 1 : Cursor(c)
  BY DEF ReplayInv
<1>3. /\ N \in Nat /\ N > 0 /\ L \in Nat /\ log \in Seq(Nat) /\ L < c /\ c \in Nat
      /\ stop_requested \in BOOLEAN
  <2>1. N \in Nat /\ N > 0
    BY CompleteFile
  <2>2. log \in Seq(Nat) /\ L \in Nat /\ stop_requested \in BOOLEAN
    BY DEF TypeOK
  <2>3. L < c /\ c \in Nat
    BY <1>2, <2>1 DEF Cursor
  <2> QED BY <2>1, <2>2, <2>3
<1>4. ASSUME file_pos < file.size
      PROVE  /\ c \in 1 .. N /\ file_pos = file.starts[c]
             /\ Readable(file, file_pos) /\ CanPeek(file, file_pos)
             /\ PeekedTimestamps(file, file_pos) = {file.ts[file.starts[c]]}
             /\ PositionAfter(file, file_pos) = MessageAt(file, c + 1)
  <2>1. file_pos = MessageAt(file, c)
    BY <1>2 DEF Cursor
  <2>2. c # N + 1
    BY <1>4, <2>1, CompleteFile
  <2>3. c \in 1 .. N
    BY <1>3, <2>2
  <2> QED
    BY <2>1, <2>3, CompleteFile
<1>5. ASSUME UNCHANGED <<file_pos, log>>,
             dpc' = "build" => dpc = "build",
             LoopIsOver' /\ ~stop_requested' => LoopIsOver /\ ~stop_requested
      PROVE  \E d \in 1 .. N + 1 : Cursor(d)'
  BY <1>1, <1>2, <1>5, CursorKept
<1>6. CASE LoopExit
  <2>1. /\ dpc = "loop" /\ ~Continues /\ dpc' = "stop_heartbeat"
        /\ UNCHANGED <<file_pos, log, stop_requested>>
    BY <1>6 DEF LoopExit, outsideVars, buildVars, downstreamVars, cursorVars
  <2>2. ~stop_requested => c = N + 1
    <3> SUFFICES ASSUME ~stop_requested, c # N + 1 PROVE FALSE
      OBVIOUS
    <3>1. c \in 1 .. N
      BY <1>3
    <3>2. file_pos = file.starts[c]
      BY <1>2, <3>1, CompleteFile DEF Cursor
    <3>3. file_pos < file.size /\ CanPeek(file, file_pos)
      BY <3>1, <3>2, CompleteFile
    <3> QED
      BY <2>1, <3>3 DEF Continues
  <2>3. Cursor(c)'
    BY <1>1, <1>2, <2>1, <2>2 DEF Cursor, Kept, should_skip, MessageAt
  <2> QED
    BY <2>3
<1>7. CASE LoopSkip
  <2>1. /\ dpc = "loop" /\ file_pos < file.size
        /\ \E timestamp \in PeekedTimestamps(file, file_pos) : should_skip(timestamp)
        /\ file_pos' = PositionAfter(file, file_pos)
        /\ dpc' = IF Readable(file, file_pos) THEN "loop" ELSE "stop_heartbeat"
        /\ UNCHANGED <<log, stop_requested>>
    BY <1>7 DEF LoopSkip, Continues, outsideVars, buildVars
  <2>2. c \in 1 .. N /\ ~Kept(c) /\ dpc' = "loop"
        /\ file_pos' = MessageAt(file, c + 1)
    BY <1>4, <2>1 DEF Kept
  <2>3. L = 0
    <3> SUFFICES ASSUME L > 0 PROVE FALSE
      BY <1>3
    <3> DEFINE i == c - L
    <3>1. i \in 1 .. N /\ i <= c
      BY <1>3, <2>2
    <3>2. Kept(i)
      BY <1>2 DEF Cursor
    <3> HIDE DEF i
    <3>3. file.ts[file.starts[i]] <= file.ts[file.starts[c]]
      BY <2>2, <3>1 DEF IsComplete
    <3>4. file.ts[file.starts[i]] \in Nat /\ file.ts[file.starts[c]] \in Nat
      BY <2>2, <3>1, CompleteFile
    <3>5. SkipBefore \in Nat
      BY FeedAssumption
    <3>6. ~(file.ts[file.starts[i]] < SkipBefore) /\ file.ts[file.starts[c]] < SkipBefore
      BY <2>2, <3>2 DEF Kept, should_skip
    <3> QED
      BY <3>3, <3>4, <3>5, <3>6
  <2>4. \A k \in 1 .. ((c + 1) - L) - 1 : ~Kept(k)
    <3>1. \A k \in 1 .. ((c + 1) - L) - 1 : k = c \/ k \in 1 .. (c - L) - 1
      BY <1>3, <2>3
    <3> QED
      BY <1>2, <2>2, <3>1 DEF Cursor
  <2>5. Cursor(c + 1)'
    <3>1. Len(log') = 0 /\ 0 < c + 1
      BY <1>3, <2>1, <2>3
    <3>2. ~LoopIsOver' /\ dpc' # "build"
      BY <2>2 DEF LoopIsOver
    <3>3. \A k : Kept(k)' <=> Kept(k)
      BY <1>1 DEF Kept, should_skip
    <3>4. \A k \in 1 .. ((c + 1) - Len(log')) - 1 : ~Kept(k)'
      BY <2>1, <2>4, <3>3
    <3>5. file_pos' = MessageAt(file, c + 1)'
      BY <1>1, <2>2 DEF MessageAt
    <3> QED
      BY <3>1, <3>2, <3>4, <3>5 DEF Cursor
  <2>6. c + 1 \in 1 .. N + 1
    BY <1>3, <2>2
  <2> QED
    BY <2>5, <2>6
<1>8. CASE LoopBuild
  <2>1. /\ dpc = "loop" /\ file_pos < file.size /\ dpc' = "build"
        /\ \E timestamp \in PeekedTimestamps(file, file_pos) : ~should_skip(timestamp)
        /\ UNCHANGED <<file_pos, log, stop_requested>>
    BY <1>8 DEF LoopBuild, Continues, outsideVars, buildVars
  <2>2. c \in 1 .. N /\ Kept(c)
    BY <1>4, <2>1 DEF Kept
  <2>3. c <= N /\ ~LoopIsOver'
    BY <1>3, <2>1, <2>2 DEF LoopIsOver
  <2>4. Cursor(c)'
    BY <1>1, <1>2, <2>1, <2>2, <2>3 DEF Cursor, Kept, should_skip, MessageAt
  <2> QED
    BY <2>4
<1>9. CASE BuildAdd
  <2>1. /\ dpc = "build" /\ file_pos < file.size /\ dpc' = dpc
        /\ log' = Append(log, file_pos)
        /\ file_pos' = PositionAfter(file, file_pos)
    BY <1>9 DEF BuildAdd
  <2>2. c \in 1 .. N /\ file_pos = file.starts[c] /\ file.starts[c] \in Nat
        /\ file_pos' = MessageAt(file, c + 1)
    BY <1>4, <2>1, CompleteFile
  <2>3. /\ Len(log') = L + 1 /\ log'[L + 1] = file.starts[c]
        /\ \A k \in 1 .. L : log'[k] = log[k]
    BY <1>3, <2>1, <2>2, AppendProperties
  <2>4. /\ (c + 1) - Len(log') = c - L /\ Len(log') < c + 1 /\ Len(log') # 0
        /\ Len(log') > 0
    BY <1>3, <2>3
  <2>5. ASSUME NEW k \in 1 .. Len(log')
        PROVE  log'[k] = file.starts[((c - L) + k) - 1]
    <3>1. CASE k = L + 1
      <4>1. ((c - L) + k) - 1 = c
        BY <1>3, <3>1
      <4> QED
        BY <2>3, <3>1, <4>1
    <3>2. CASE k # L + 1
      <4>1. k \in 1 .. L
        BY <1>3, <2>3, <3>2
      <4> QED
        BY <1>2, <2>3, <4>1 DEF Cursor
    <3> QED
      BY <3>1, <3>2
  <2>6. Kept(c - L)
    <3>1. CASE L > 0
      BY <1>2, <3>1 DEF Cursor
    <3>2. CASE L = 0
      <4>1. Kept(c)
        BY <1>2, <2>1, <3>2 DEF Cursor
      <4>2. c - L = c
        BY <1>3, <3>2
      <4> QED
        BY <4>1, <4>2
    <3> QED
      BY <1>3, <3>1, <3>2
  <2>7. \A i \in 1 .. (c - L) - 1 : ~Kept(i)
    BY <1>2 DEF Cursor
  <2>8. \A k : Kept(k)' <=> Kept(k)
    BY <1>1 DEF Kept, should_skip
  <2>9. file_pos' = MessageAt(file, c + 1)' /\ ~LoopIsOver'
    BY <1>1, <2>1, <2>2 DEF MessageAt, LoopIsOver
  <2>10. Cursor(c + 1)'
    <3>1. \A k \in 1 .. Len(log') :
            log'[k] = file'.starts[(((c + 1) - Len(log')) + k) - 1]
      BY <1>1, <2>4, <2>5
    <3>2. \A i \in 1 .. ((c + 1) - Len(log')) - 1 : ~Kept(i)'
      BY <2>4, <2>7, <2>8
    <3>3. ~should_skip(file'.ts[file'.starts[(c + 1) - Len(log')]])
      BY <1>1, <2>4, <2>6 DEF Kept
    <3> HIDE DEF L
    <3> QED
      BY <2>4, <2>9, <3>1, <3>2, <3>3 DEF Cursor, Kept, should_skip
  <2>11. c + 1 \in 1 .. N + 1
    BY <1>3, <2>2
  <2> QED
    BY <2>10, <2>11
<1>10. CASE BuildUnreadable
  BY <1>4, <1>10 DEF BuildUnreadable
<1>11. CASE \/ Start \/ BuildFull \/ BuildEof \/ DelayAndAnnounce \/ Send
            \/ StopHeartbeat \/ JoinHeartbeat \/ SendEndOfSession \/ Finish
            \/ HeartbeatCheck \/ HeartbeatLoad \/ HeartbeatSend
            \/ RequestStop \/ EndOfSessionElapses \/ Abort \/ UNCHANGED vars
  <2>1. /\ UNCHANGED <<file_pos, log>>
        /\ dpc' = "build" => dpc = "build"
        /\ LoopIsOver' /\ ~stop_requested' => LoopIsOver /\ ~stop_requested
    BY <1>11 DEF LoopIsOver, Start, BuildFull, BuildEof, DelayAndAnnounce, Send,
      StopHeartbeat, JoinHeartbeat, SendEndOfSession, Finish, HeartbeatCheck,
      HeartbeatLoad, HeartbeatSend, RequestStop, EndOfSessionElapses, Abort, vars,
      outsideVars, buildVars, downstreamVars, cursorVars
  <2> QED
    BY <1>5, <2>1
<1> QED
  BY <1>6, <1>7, <1>8, <1>9, <1>10, <1>11
  DEF Next, DownstreamStep, DownstreamRuns, HeartbeatStep, Done

\* The replay's invariant holds in every state of every execution.
LEMMA ReplayAlwaysInv == Spec => []ReplayInv
<1>1. Init => ReplayInv
  BY ReplayInit
<1>2. FeedInv /\ ReplayInv /\ [Next]_vars => ReplayInv'
  BY ReplayStep DEF FeedInv
<1> QED
  BY <1>1, <1>2, FeedAlwaysInv, PTL DEF Spec

-----------------------------------------------------------------------------
\* The first message that is not skipped is the one the definition chooses.
LEMMA FirstKeptIs ==
  ASSUME TypeOK, IsComplete(file), NEW k \in 1 .. Len(file.starts) + 1,
         \A i \in 1 .. k - 1 : ~Kept(i),
         k <= Len(file.starts) => Kept(k)
  PROVE  FirstKept(file) = k
<1> DEFINE N == Len(file.starts)
           IsFirst(j) == /\ \A i \in 1 .. j - 1 : should_skip(file.ts[file.starts[i]])
                         /\ j <= N => ~should_skip(file.ts[file.starts[j]])
           j == FirstKept(file)
<1>1. N \in Nat
  BY CompleteFile
<1>2. IsFirst(k)
  BY DEF Kept
<1>3. j \in 1 .. N + 1 /\ IsFirst(j)
  <2>1. j = CHOOSE x \in 1 .. N + 1 : IsFirst(x)
    BY DEF FirstKept
  <2> HIDE DEF IsFirst, j
  <2> QED
    BY <1>2, <2>1
<1> HIDE DEF j
<1>4. ~(j < k)
  <2> SUFFICES ASSUME j < k PROVE FALSE
    OBVIOUS
  <2>1. j \in 1 .. k - 1 /\ j <= N
    BY <1>1, <1>3
  <2> QED
    BY <1>2, <1>3, <2>1
<1>5. ~(k < j)
  <2> SUFFICES ASSUME k < j PROVE FALSE
    OBVIOUS
  <2>1. k \in 1 .. j - 1 /\ k <= N
    BY <1>1, <1>3
  <2> QED
    BY <1>2, <1>3, <2>1
<1>6. j = k
  BY <1>1, <1>3, <1>4, <1>5
<1> QED
  BY <1>6 DEF j

\* What the cursor says of the messages to be replayed.
LEMMA CursorReplays ==
  ASSUME TypeOK, IsComplete(file), NEW c \in 1 .. Len(file.starts) + 1, Cursor(c)
  PROVE  /\ log = SubSeq(Replayable(file), 1, Len(log))
         /\ c = Len(file.starts) + 1 => log = Replayable(file)
<1> DEFINE N == Len(file.starts)
           L == Len(log)
           k == c - L
           R == SubSeq(file.starts, k, N)
<1>1. /\ N \in Nat /\ L \in Nat /\ log \in Seq(Nat) /\ c \in Nat /\ L < c
      /\ file.starts \in Seq(Nat)
  <2>1. file.starts \in Seq(Nat) /\ N \in Nat
    BY FeedAssumption DEF TypeOK, StartsAreMessages
  <2>2. log \in Seq(Nat) /\ L \in Nat
    BY DEF TypeOK
  <2>3. c \in Nat /\ L < c
    BY <2>1 DEF Cursor
  <2> QED
    BY <2>1, <2>2, <2>3
<1>2. k \in 1 .. N + 1 /\ k \in Int /\ k >= 1 /\ k <= N + 1
  BY <1>1
<1>3. \A i \in 1 .. k - 1 : ~Kept(i)
  BY DEF Cursor
<1>4. \A i \in 1 .. L : log[i] = file.starts[(k + i) - 1]
  BY DEF Cursor
<1>5. L > 0 => Kept(k)
  BY DEF Cursor
<1> HIDE DEF k
<1>6. /\ R \in Seq(Nat)
      /\ Len(R) = (N - k) + 1
      /\ \A i \in 1 .. (N - k) + 1 : R[i] = file.starts[(k + i) - 1]
  <2>1. \A i \in k .. N : file.starts[i] \in Nat
    BY <1>1, <1>2
  <2>2. /\ R \in Seq(Nat)
        /\ Len(R) = IF k <= N THEN (N - k) + 1 ELSE 0
        /\ \A i \in 1 .. (N - k) + 1 : R[i] = file.starts[(k + i) - 1]
    BY <1>1, <1>2, <2>1, SubSeqProperties, SMTT(30)
  <2>3. k <= N \/ (N - k) + 1 = 0
    BY <1>1, <1>2, SMTT(30)
  <2> QED
    BY <2>2, <2>3
<1> HIDE DEF R
<1>7. L <= (N - k) + 1 /\ (c = N + 1 => L = (N - k) + 1)
  <2>1. k = c - L /\ c \in 1 .. N + 1
    BY DEF k
  <2> HIDE DEF N, L
  <2> QED
    BY <1>1, <2>1
<1>8. ASSUME FirstKept(file) = k
      PROVE  /\ log = SubSeq(Replayable(file), 1, L)
             /\ c = N + 1 => log = Replayable(file)
  <2>1. Replayable(file) = R
    BY <1>8 DEF Replayable, R
  <2> DEFINE P == SubSeq(R, 1, L)
  <2>2. \A i \in 1 .. L : R[i] \in Nat
    <3> SUFFICES ASSUME NEW i \in 1 .. L PROVE R[i] \in Nat
      OBVIOUS
    <3>1. i \in 1 .. (N - k) + 1
      <4> HIDE DEF N, L
      <4> QED
        BY <1>1, <1>2, <1>7
    <3>2. i \in 1 .. Len(R)
      BY <1>6, <3>1
    <3> QED
      BY <1>6, <3>2
  <2>3. /\ P \in Seq(Nat)
        /\ Len(P) = IF 1 <= L THEN (L - 1) + 1 ELSE 0
        /\ \A i \in 1 .. (L - 1) + 1 : P[i] = R[(1 + i) - 1]
    BY <1>1, <2>2, SubSeqProperties
  <2>4. Len(P) = L
    <3>1. Len(P) = IF 1 <= L THEN (L - 1) + 1 ELSE 0
      BY <2>3
    <3> HIDE DEF P, L
    <3> QED
      BY <1>1, <3>1
  <2>5. ASSUME NEW i \in 1 .. L PROVE log[i] = P[i] /\ log[i] = R[i]
    <3>1. i \in 1 .. (L - 1) + 1 /\ (1 + i) - 1 = i /\ i \in 1 .. (N - k) + 1
      BY <1>1, <1>2, <1>7
    <3>2. P[i] = R[i]
      BY <2>3, <3>1
    <3>3. R[i] = file.starts[(k + i) - 1]
      BY <1>6, <3>1
    <3> QED
      BY <1>4, <3>2, <3>3
  <2>6. log = P
    <3> HIDE DEF P
    <3> QED
      BY <1>1, <2>3, <2>4, <2>5, SeqEqual
  <2>7. c = N + 1 => log = R
    <3> SUFFICES ASSUME c = N + 1 PROVE log = R
      OBVIOUS
    <3>1. Len(R) = L
      BY <1>6, <1>7
    <3> QED
      BY <1>1, <1>6, <2>5, <3>1, SeqEqual
  <2> QED
    BY <2>1, <2>6, <2>7
<1>9. CASE L > 0
  <2>1. FirstKept(file) = k
    BY <1>2, <1>3, <1>5, <1>9, FirstKeptIs
  <2> QED
    BY <1>8, <2>1
<1>10. CASE L = 0 /\ c = N + 1
  <2>1. k = N + 1
    BY <1>1, <1>10 DEF k
  <2>2. ~(k <= N)
    BY <1>1, <2>1
  <2>3. FirstKept(file) = k
    BY <1>2, <1>3, <2>2, FirstKeptIs
  <2> QED
    BY <1>8, <2>3
<1>11. CASE L = 0 /\ c # N + 1
  <2>1. log = <<>> /\ SubSeq(Replayable(file), 1, 0) = <<>>
    BY <1>1, <1>11, SubSeqEmpty
  <2> QED
    BY <1>11, <2>1
<1> QED
  BY <1>1, <1>9, <1>10, <1>11

\* Of a complete file, the downstream feed numbers the messages from
\* skip_before on in file order, none dropped and none repeated, whatever
\* fills the packets and whichever rollbacks that takes.
THEOREM ReplayInFileOrderAlways == Spec => []ReplayInFileOrder
<1>1. FeedInv /\ ReplayInv => ReplayInFileOrder
  BY CursorReplays DEF FeedInv, ReplayInv, ReplayInFileOrder
<1> QED
  BY <1>1, FeedAlwaysInv, ReplayAlwaysInv, PTL

\* The assertions of extract_timestamp() and try_add() hold where the replay
\* stands in a complete file.
LEMMA AssertionsHold ==
  ASSUME TypeOK, ReplayInv, IsComplete(file), EveryMessageLongEnough(file)
  PROVE  ~AssertionFails
<1> SUFFICES ASSUME file_pos < file.size
             PROVE  TimestampInBounds(file, file_pos) /\ LongEnough(MessageSize(file, file_pos))
  BY DEF AssertionFails, Continues
<1>1. PICK c \in 1 .. Len(file.starts) + 1 : Cursor(c)
  BY DEF ReplayInv
<1>2. file_pos = MessageAt(file, c) /\ Len(file.starts) \in Nat
  BY <1>1, CompleteFile DEF Cursor
<1>3. c \in 1 .. Len(file.starts)
  BY <1>2, CompleteFile
<1> QED
  BY <1>2, <1>3, CompleteFile DEF EveryMessageLongEnough

\* A complete file of messages of at least the smallest size breaks none of
\* the assertions the downstream thread passes, whichever build it is, so
\* that no assertion ends the process.
THEOREM CompleteFileKeepsAssertionsAlways == Spec => []CompleteFileKeepsAssertions
<1> DEFINE Sound == IsComplete(file) /\ EveryMessageLongEnough(file) => aborted = FALSE
<1>1. Init => Sound
  BY DEF Init
<1>2. FeedInv /\ ReplayInv /\ Sound /\ [Next]_vars => Sound'
  <2> SUFFICES ASSUME FeedInv, ReplayInv, Sound, [Next]_vars,
                      IsComplete(file)', EveryMessageLongEnough(file)'
               PROVE  aborted' = FALSE
    OBVIOUS
  <2>1. file' = file /\ (aborted' = aborted \/ AssertionFails)
    BY AbortStep
  <2>2. IsComplete(file) /\ EveryMessageLongEnough(file)
    BY <2>1 DEF IsComplete, EveryMessageLongEnough
  <2> QED
    BY <2>1, <2>2, AssertionsHold DEF FeedInv
<1>3. FeedInv /\ ReplayInv /\ Sound => CompleteFileKeepsAssertions
  BY AssertionsHold DEF FeedInv, CompleteFileKeepsAssertions
<1> HIDE DEF Sound
<1> QED
  BY <1>1, <1>2, <1>3, FeedAlwaysInv, ReplayAlwaysInv, PTL DEF Spec

\* start() announces the end of the session without having been stopped only
\* after it has numbered every message of the file from skip_before on.
THEOREM ReplayCompleteAlways == Spec => []ReplayComplete
<1>1. ASSUME FeedInv, ReplayInv PROVE ReplayComplete
  <2> SUFFICES ASSUME dpc = "end_of_session", ~stop_requested, IsComplete(file)
               PROVE  log = Replayable(file)
    BY DEF ReplayComplete
  <2>1. PICK c \in 1 .. Len(file.starts) + 1 : Cursor(c)
    BY <1>1 DEF ReplayInv
  <2>2. c = Len(file.starts) + 1
    BY <2>1 DEF Cursor, LoopIsOver
  <2> QED
    BY <1>1, <2>1, <2>2, CursorReplays DEF FeedInv
<1> QED
  BY <1>1, FeedAlwaysInv, ReplayAlwaysInv, PTL

=============================================================================
