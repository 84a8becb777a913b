--------------------------- MODULE DownstreamFeed ---------------------------
(***************************************************************************)
(* imr::mold::downstream::Feed, running on the server's downstream thread, *)
(* and its Heartbeat, running on a thread of its own.  They share          *)
(* sent_sequence_number_, the heartbeat thread's stop token and the        *)
(* multicast socket; the caller of start() shares its stop token.  Every   *)
(* action reads or writes at most one of these, so all interleavings of    *)
(* the threads are behaviours of the specification.                        *)
(***************************************************************************)
EXTENDS MessageFile, PacketBuilder

CONSTANTS
  Files,       \* the files that may be replayed
  SkipBefore   \* Pacer::Config::skip_before

ASSUME FeedAssumption ==
  /\ SkipBefore \in Nat
  /\ \A f \in Files : IsFile(f) /\ StartsAreMessages(f)

VARIABLES
  file,                  \* file_
  asserts,               \* the build checks assertions (no NDEBUG)
  aborted,               \* one has failed and ended the process
  stop_requested,        \* start()'s stop token
  dpc,                   \* where the downstream thread is
  file_pos,              \* file_pos_
  sequence_number,       \* sequence_number_
  sent_sequence_number,  \* sent_sequence_number_
  packet,                \* packet_builder_
  log,                   \* log[s] = file position pushed for s (history)
  eos_over,              \* end_of_session_duration_ has passed
  hpc,                   \* where the heartbeat thread is
  hstop,                 \* its stop token
  hseq,                  \* the sequence number it loaded
  wire,                  \* datagrams the kernel accepted (history)
  lost                   \* data packets it refused (history)

cursorVars == <<file_pos, sequence_number, packet, log>>
heartbeatVars == <<hpc, hseq, hstop>>
networkVars == <<wire, lost>>
downstreamVars == <<cursorVars, sent_sequence_number>>
buildVars == <<file, asserts, aborted>>
outsideVars == <<buildVars, stop_requested, eos_over>>
vars == <<outsideVars, dpc, downstreamVars, heartbeatVars, networkVars>>

-----------------------------------------------------------------------------
Init ==
  /\ file \in Files
  /\ asserts \in BOOLEAN
  /\ aborted = FALSE
  /\ stop_requested = FALSE
  /\ dpc = "idle"
  /\ file_pos = 0
  /\ sequence_number = 1
  /\ sent_sequence_number = 1
  /\ packet = reset(0)
  /\ log = <<>>
  /\ eos_over = FALSE
  /\ hpc = "none"
  /\ hstop = FALSE
  /\ hseq = 0
  /\ wire = {}
  /\ lost = {}

-----------------------------------------------------------------------------
(* Feed::start(). *)

Start ==
  /\ dpc = "idle"
  /\ dpc' = "loop"
  /\ hpc' = "check"
  /\ UNCHANGED <<outsideVars, downstreamVars, hseq, hstop, networkVars>>

\* The loop goes on to look at the message at file_pos.
Continues ==
  /\ file_pos < file.size
  /\ ~stop_requested
  /\ CanPeek(file, file_pos)

should_skip(timestamp) == timestamp < SkipBefore

LoopExit ==
  /\ dpc = "loop"
  /\ ~Continues
  /\ dpc' = "stop_heartbeat"
  /\ UNCHANGED <<outsideVars, downstreamVars, heartbeatVars, networkVars>>

LoopSkip ==
  /\ dpc = "loop"
  /\ Continues
  /\ \E timestamp \in PeekedTimestamps(file, file_pos) : should_skip(timestamp)
  /\ file_pos' = PositionAfter(file, file_pos)
  /\ dpc' = IF Readable(file, file_pos) THEN "loop" ELSE "stop_heartbeat"
  /\ UNCHANGED <<outsideVars, sequence_number, packet, log,
                 sent_sequence_number, heartbeatVars, networkVars>>

\* Mutant: the messages of the last packet are not cleared.
LoopBuildKeeps ==
  /\ dpc = "loop"
  /\ Continues
  /\ packet' = [packet EXCEPT !.seq = sequence_number]
  /\ dpc' = "build"
  /\ UNCHANGED <<outsideVars, file_pos, sequence_number, log,
                 sent_sequence_number, heartbeatVars, networkVars>>

LoopBuild ==
  /\ dpc = "loop"
  /\ Continues
  /\ \E timestamp \in PeekedTimestamps(file, file_pos) : ~should_skip(timestamp)
  /\ packet' = reset(sequence_number)
  /\ dpc' = "build"
  /\ UNCHANGED <<outsideVars, file_pos, sequence_number, log,
                 sent_sequence_number, heartbeatVars, networkVars>>

-----------------------------------------------------------------------------
(* Feed::build_packet(), one action per turn of its loop. *)

\* Mutant: the position after the message is pushed.
BuildAddPushesEnd ==
  /\ dpc = "build"
  /\ file_pos < file.size
  /\ LET n == MessageSize(file, file_pos) IN
       /\ CanAdd(packet, n)
       /\ packet' = Added(packet, file_pos, n)
  /\ log' = Append(log, PositionAfter(file, file_pos))
  /\ sequence_number' = sequence_number + 1
  /\ file_pos' = PositionAfter(file, file_pos)
  /\ UNCHANGED <<outsideVars, dpc, sent_sequence_number, heartbeatVars,
                 networkVars>>

\* The message fits: it is added, pushed to the retransmission buffer and
\* numbered.
BuildAdd ==
  /\ dpc = "build"
  /\ file_pos < file.size
  /\ LET n == MessageSize(file, file_pos) IN
       /\ CanAdd(packet, n)
       /\ packet' = Added(packet, file_pos, n)
  /\ log' = Append(log, file_pos)
  /\ sequence_number' = sequence_number + 1
  /\ file_pos' = PositionAfter(file, file_pos)
  /\ UNCHANGED <<outsideVars, dpc, sent_sequence_number, heartbeatVars,
                 networkVars>>

\* Mutant: no rollback.
BuildFullDrops ==
  /\ dpc = "build"
  /\ file_pos < file.size
  /\ Readable(file, file_pos)
  /\ ~CanAdd(packet, MessageSize(file, file_pos))
  /\ file_pos' = PositionAfter(file, file_pos)
  /\ dpc' = "delay"
  /\ UNCHANGED <<outsideVars, sequence_number, packet, log,
                 sent_sequence_number, heartbeatVars, networkVars>>

\* The message does not fit: file_pos is rolled back to it.
BuildFull ==
  /\ dpc = "build"
  /\ file_pos < file.size
  /\ Readable(file, file_pos)
  /\ ~CanAdd(packet, MessageSize(file, file_pos))
  /\ dpc' = "delay"
  /\ UNCHANGED <<outsideVars, downstreamVars, heartbeatVars, networkVars>>

\* Mutant: an unreadable message is rolled back like one that does not fit.
BuildUnreadableStays ==
  /\ dpc = "build"
  /\ file_pos < file.size
  /\ ~Readable(file, file_pos)
  /\ dpc' = "delay"
  /\ UNCHANGED <<outsideVars, downstreamVars, heartbeatVars, networkVars>>

\* read_message() returns nothing; file_pos stays where it left it.
BuildUnreadable ==
  /\ dpc = "build"
  /\ file_pos < file.size
  /\ ~Readable(file, file_pos)
  /\ file_pos' = PositionAfter(file, file_pos)
  /\ dpc' = "delay"
  /\ UNCHANGED <<outsideVars, sequence_number, packet, log,
                 sent_sequence_number, heartbeatVars, networkVars>>

BuildEof ==
  /\ dpc = "build"
  /\ file_pos >= file.size
  /\ dpc' = "delay"
  /\ UNCHANGED <<outsideVars, downstreamVars, heartbeatVars, networkVars>>

-----------------------------------------------------------------------------
(* The pacer's delay, then Feed::send_packet(). *)

\* Mutant: the number is not announced.
DelayWithoutAnnounce ==
  /\ dpc = "delay"
  /\ dpc' = "send"
  /\ UNCHANGED <<outsideVars, downstreamVars, heartbeatVars, networkVars>>

\* sleep_for() takes any time; then sent_sequence_number_ is stored.
DelayAndAnnounce ==
  /\ dpc = "delay"
  /\ sent_sequence_number' = sequence_number
  /\ dpc' = "send"
  /\ UNCHANGED <<outsideVars, cursorVars, heartbeatVars, networkVars>>

\* sendmsg(): a failure is logged and the packet is not sent again.
Send ==
  /\ dpc = "send"
  /\ \/ wire' = wire \cup {finalize(packet)} /\ UNCHANGED lost
     \/ lost' = lost \cup {finalize(packet)} /\ UNCHANGED wire
  /\ dpc' = "loop"
  /\ UNCHANGED <<outsideVars, downstreamVars, heartbeatVars>>

-----------------------------------------------------------------------------
(* Heartbeat::stop() and Feed::end_of_session(). *)

StopHeartbeat ==
  /\ dpc = "stop_heartbeat"
  /\ hstop' = TRUE
  /\ dpc' = "join_heartbeat"
  /\ UNCHANGED <<outsideVars, downstreamVars, hpc, hseq, networkVars>>

\* Mutant: the heartbeat thread is not joined.
JoinHeartbeatDetached ==
  /\ dpc = "join_heartbeat"
  /\ dpc' = "end_of_session"
  /\ UNCHANGED <<outsideVars, downstreamVars, heartbeatVars, networkVars>>

JoinHeartbeat ==
  /\ dpc = "join_heartbeat"
  /\ hpc = "finished"
  /\ dpc' = "end_of_session"
  /\ UNCHANGED <<outsideVars, downstreamVars, heartbeatVars, networkVars>>

\* One end of session packet, then sleep_for() the period.
SendEndOfSession ==
  /\ dpc = "end_of_session"
  /\ ~stop_requested
  /\ ~eos_over
  /\ \/ wire' = wire \cup {[seq |-> sequence_number, msgs |-> <<>>,
                            count |-> EndOfSessionCount]}
     \/ UNCHANGED wire
  /\ UNCHANGED <<outsideVars, dpc, downstreamVars, heartbeatVars, lost>>

Finish ==
  /\ dpc = "end_of_session"
  /\ stop_requested \/ eos_over
  /\ dpc' = "done"
  /\ UNCHANGED <<outsideVars, downstreamVars, heartbeatVars, networkVars>>

\* The clock passes end_of_session_duration_.
EndOfSessionElapses ==
  /\ dpc = "end_of_session"
  /\ ~eos_over
  /\ eos_over' = TRUE
  /\ UNCHANGED <<buildVars, stop_requested, dpc, downstreamVars, heartbeatVars,
                 networkVars>>

-----------------------------------------------------------------------------
(* The heartbeat thread. *)

\* Mutant: the stop token is not looked at.
HeartbeatCheckDeaf ==
  /\ hpc = "check"
  /\ hpc' = "load"
  /\ UNCHANGED <<outsideVars, dpc, downstreamVars, hseq, hstop, networkVars>>

HeartbeatCheck ==
  /\ hpc = "check"
  /\ hpc' = IF hstop THEN "finished" ELSE "load"
  /\ UNCHANGED <<outsideVars, dpc, downstreamVars, hseq, hstop, networkVars>>

\* Mutant: the number of the message being built is loaded.
HeartbeatLoadBuilding ==
  /\ hpc = "load"
  /\ hseq' = sequence_number
  /\ hpc' = "send"
  /\ UNCHANGED <<outsideVars, dpc, downstreamVars, hstop, networkVars>>

HeartbeatLoad ==
  /\ hpc = "load"
  /\ hseq' = sent_sequence_number
  /\ hpc' = "send"
  /\ UNCHANGED <<outsideVars, dpc, downstreamVars, hstop, networkVars>>

\* sendto(), which may fail, then sleep_for() the period.
HeartbeatSend ==
  /\ hpc = "send"
  /\ \/ wire' = wire \cup {[seq |-> hseq, msgs |-> <<>>, count |-> 0]}
     \/ UNCHANGED wire
  /\ hpc' = "check"
  /\ UNCHANGED <<outsideVars, dpc, downstreamVars, hseq, hstop, lost>>

-----------------------------------------------------------------------------
\* The owner of the thread asks start() to stop, at any time.
RequestStop ==
  /\ ~stop_requested
  /\ ~aborted
  /\ stop_requested' = TRUE
  /\ UNCHANGED <<buildVars, eos_over, dpc, downstreamVars, heartbeatVars,
                 networkVars>>

\* The assertion that comes next does not hold: extract_timestamp()'s of the
\* bytes left, or try_add()'s of a message that fits.
AssertionFails ==
  \/ /\ dpc = "loop"
     /\ Continues
     /\ ~TimestampInBounds(file, file_pos)
  \/ /\ dpc = "build"
     /\ file_pos < file.size
     /\ LET n == MessageSize(file, file_pos) IN CanAdd(packet, n) /\ ~LongEnough(n)

\* assert() ends the process with all its threads.
Abort ==
  /\ asserts
  /\ AssertionFails
  /\ aborted' = TRUE
  /\ UNCHANGED <<file, asserts, stop_requested, eos_over, dpc, downstreamVars,
                 heartbeatVars, networkVars>>

DownstreamRuns ==
  \/ Start
  \/ LoopExit \/ LoopSkip \/ LoopBuild
  \/ BuildAdd \/ BuildFull \/ BuildUnreadable \/ BuildEof
  \/ DelayAndAnnounce \/ Send
  \/ StopHeartbeat \/ JoinHeartbeat \/ SendEndOfSession \/ Finish

DownstreamStep ==
  /\ ~aborted
  /\ \/ Abort
     \/ ~(asserts /\ AssertionFails) /\ DownstreamRuns

HeartbeatStep == ~aborted /\ (HeartbeatCheck \/ HeartbeatLoad \/ HeartbeatSend)

Done == (dpc = "done" \/ aborted) /\ UNCHANGED vars

Next ==
  \/ DownstreamStep \/ HeartbeatStep
  \/ RequestStop \/ EndOfSessionElapses
  \/ Done

Spec == Init /\ [][Next]_vars

\* Both threads are scheduled, their sleeps end and the clock advances.
Fairness ==
  /\ WF_vars(DownstreamStep)
  /\ WF_vars(HeartbeatStep)
  /\ WF_vars(EndOfSessionElapses)

FairSpec == Spec /\ Fairness

-----------------------------------------------------------------------------
(* Properties. *)

Headers == [seq : Nat, count : Nat, msgs : Seq(Nat)]

TypeOK ==
  /\ file \in Files
  /\ asserts \in BOOLEAN
  /\ aborted \in BOOLEAN
  /\ stop_requested \in BOOLEAN
  /\ dpc \in {"idle", "loop", "build", "delay", "send", "stop_heartbeat",
              "join_heartbeat", "end_of_session", "done"}
  /\ file_pos \in 0 .. file.size
  /\ sequence_number \in Nat \ {0}
  /\ sent_sequence_number \in Nat \ {0}
  /\ packet \in [seq : Nat, msgs : Seq(Nat), bytes_remaining : Nat]
  /\ log \in Seq(Nat)
  /\ eos_over \in BOOLEAN
  /\ hpc \in {"none", "check", "load", "send", "finished"}
  /\ hstop \in BOOLEAN
  /\ hseq \in Nat
  /\ wire \subseteq Headers
  /\ lost \subseteq Headers

Handed == wire \cup lost
Block(d) == d.seq .. d.seq + Len(d.msgs) - 1
BuiltNotSent == IF dpc \in {"build", "delay", "send"} THEN Block(packet) ELSE {}

\* The blocks of the packets handed to the socket, with the packet being
\* built, are the numbers given out, each exactly once: a client that sees
\* all packets sees every sequence number once, with no gap across a
\* rollback, an empty packet or a refused send.
NumbersTile ==
  /\ (UNION {Block(d) : d \in Handed}) \cup BuiltNotSent = 1 .. sequence_number - 1
  /\ \A d \in Handed : Block(d) \cap BuiltNotSent = {}
  /\ \A d, e \in Handed : d # e => Block(d) \cap Block(e) = {}

\* A packet carries under each number the message that was pushed to the
\* retransmission buffer under that number, so a retransmission can repeat it.
WireMatchesBuffer ==
  \A d \in Handed : \A k \in 1 .. Len(d.msgs) : d.msgs[k] = log[d.seq + k - 1]

\* The messages of the file from the first one on that the pacer lets through.
FirstKept(f) ==
  CHOOSE k \in 1 .. Len(f.starts) + 1 :
    /\ \A i \in 1 .. k - 1 : should_skip(f.ts[f.starts[i]])
    /\ k <= Len(f.starts) => ~should_skip(f.ts[f.starts[k]])

Replayable(f) == SubSeq(f.starts, FirstKept(f), Len(f.starts))

\* A file as the exchange provides it: it ends with a complete message, every
\* message has a timestamp, and they are in the order of time.
IsComplete(f) ==
  /\ f.starts # <<>>
  /\ MessageEnd(f, f.starts[Len(f.starts)]) = f.size
  /\ \A k \in 1 .. Len(f.starts) :
       f.len[f.starts[k]] >= timestamp_offset + timestamp_size
  /\ \A i, k \in 1 .. Len(f.starts) : i <= k => f.ts[f.starts[i]] <= f.ts[f.starts[k]]

\* What has been numbered is a prefix of the file's messages from skip_before
\* on: rolling back a message that did not fit neither drops nor repeats it.
\* (Out of the order of time this would not hold: build_packet() does not ask
\* the pacer about the messages after a packet's first.)
ReplayInFileOrder ==
  IsComplete(file) => log = SubSeq(Replayable(file), 1, Len(log))

\* If start() ends without having been stopped it has numbered the whole file.
ReplayComplete ==
  dpc = "end_of_session" /\ ~stop_requested /\ IsComplete(file) =>
    log = Replayable(file)

\* No datagram exceeds the MTU.
WithinMTU ==
  \A d \in Handed : d.msgs # <<>> =>
    LET last == d.msgs[Len(d.msgs)] IN
      HeaderLength + ((last + MessageSize(file, last)) - d.msgs[1]) <= MTU

\* A heartbeat, also one sent late with a number loaded long ago, announces
\* as next a number all of whose predecessors have been handed to the socket,
\* or are in the packet sendmsg() is about to be called with.
HeartbeatAnnouncesSent ==
  \A d \in wire : d.count = 0 =>
    \A s \in 1 .. d.seq - 1 :
      \/ \E e \in Handed : s \in Block(e)
      \/ dpc = "send" /\ s \in Block(packet)

\* End of session replaces the heartbeat: it is announced only once the
\* heartbeat thread has ended, with the number after the last message, and
\* nothing follows it.
EndsSession(d) == d.count = EndOfSessionCount

EndOfSessionIsLast ==
  \A d \in wire : EndsSession(d) =>
    /\ hpc = "finished"
    /\ \A e \in Handed : e.seq + Len(e.msgs) <= d.seq
    /\ d.seq = Len(log) + 1

NothingAfterEndOfSession ==
  [][(\E d \in wire : EndsSession(d)) =>
       /\ \A d \in wire' \ wire : EndsSession(d)
       /\ UNCHANGED <<lost, log, hseq>>]_vars

\* start() returns once it is asked to stop, even in the middle of an
\* unreadable or oversized message, and joins its heartbeat thread; a failing
\* assertion ends the process instead.
StopEndsFeed ==
  stop_requested ~> ((dpc = "done" /\ hpc = "finished") \/ aborted)

EveryMessageFits(f) ==
  \A p \in 0 .. f.size : MessageSize(f, p) <= MTU - HeaderLength

EveryMessageLongEnough(f) ==
  \A k \in 1 .. Len(f.starts) : LongEnough(MessageSize(f, f.starts[k]))

\* A file as the exchange provides it breaks no assertion: the feed stands at
\* the start of a whole message whenever it looks at one, after a rollback and
\* after a skipped message as well.
CompleteFileKeepsAssertions ==
  IsComplete(file) /\ EveryMessageLongEnough(file) => ~AssertionFails /\ ~aborted

\* start() returns by itself if every message fits a packet: in every build
\* for a complete file, and without assertions also for one that is cut off in
\* the middle of a message.
FeedFinishes ==
  (/\ EveryMessageFits(file)
   /\ asserts => IsComplete(file) /\ EveryMessageLongEnough(file))
    ~> dpc = "done"

\* The feed and its heartbeat thread implement the session a client relies on:
\* a message counts as handed over once the packet it is in is given to the
\* socket, as committed once sent_sequence_number_ covers it.
FilePositions == UNION {0 .. f.size : f \in Files}

HandedOver ==
  IF dpc \in {"build", "delay", "send"} THEN packet.seq - 1 ELSE sequence_number - 1

Session == INSTANCE MoldSession WITH
  Message <- FilePositions,
  stream <- log,
  committed <- sent_sequence_number - 1,
  handed <- HandedOver,
  ended <- dpc \in {"end_of_session", "done"}

ImplementsSession == Session!SessionSpec

\* feed.h:66 says the file is replayed until its end, whatever its messages.
ReplayReachesEnd == <>(dpc = "done")

\* timestamp.cpp:10 says the caller makes sure that the bytes of the
\* timestamp are there, and line 17 asserts it.
PeekInBounds ==
  dpc = "loop" /\ Continues => TimestampInBounds(file, file_pos)

\* packet_builder.cpp:45 asserts that a message that is added has the smallest
\* size of one.
AddsLongEnough ==
  dpc = "build" /\ file_pos < file.size =>
    LET n == MessageSize(file, file_pos) IN CanAdd(packet, n) => LongEnough(n)

\* Of these two assertions at least one holds throughout a replay.  Each of
\* them implies this, so a replay that violates it refutes both.
AnAssertionHolds == []PeekInBounds \/ []AddsLongEnough

=============================================================================
