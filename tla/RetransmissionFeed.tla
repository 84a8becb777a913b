------------------------- MODULE RetransmissionFeed -------------------------
(***************************************************************************)
(* The event loops of imr::mold::retransmission::Feed, one per thread of   *)
(* the FeedPool, on top of the ring of RetransmissionBuffer.  Each feed    *)
(* polls a socket of its own (SO_REUSEPORT) and the pool's eventfd.  The   *)
(* downstream feed appears as the ring's writer: it pushes the messages of *)
(* the file in order (DownstreamFeed, ReplayInFileOrder).                  *)
(***************************************************************************)
EXTENDS RetransmissionBuffer, MessageFile, PacketBuilder, FiniteSets

CONSTANTS
  File,         \* the mapped file
  Skipped,      \* how many of its messages the pacer skipped
  Session,      \* packet_builder_.session()
  Requests,     \* datagrams a client may send
  MaxRequests   \* bound: number of datagrams that arrive

\* The messages that get a sequence number: Sequenced[s] is where s starts.
Sequenced == SubSeq(File.starts, Skipped + 1, Len(File.starts))

ASSUME RetransmissionAssumption ==
  /\ IsFile(File) /\ StartsAreMessages(File)
  /\ Skipped \in 0 .. Len(File.starts)
  /\ \A k \in 1 .. Len(Sequenced) : Sequenced[k] \in Positions
  /\ MaxSeq <= Len(Sequenced)
  /\ MaxRequests \in Nat
  /\ \A q \in Requests :
       /\ q.size \in Nat /\ q.seq \in SequenceNumber
       /\ q.count \in 0 .. EndOfSessionCount  \* a uint16_t

VARIABLES
  shutdown,   \* the eventfd is readable; nothing reads it, so it stays so
  arrived,    \* how many datagrams have arrived
  inbox,      \* the socket's receive queue
  fpc,        \* where each feed is in start()
  events,     \* what is left of epoll_events_
  request,    \* the request being answered
  replies,    \* what was sent to clients (history)
  late        \* datagrams taken after the shutdown was signalled (history)

feedVars == <<shutdown, arrived, inbox, fpc, events, request, replies, late>>
allVars == <<bufferVars, feedVars>>

FeedInit ==
  /\ BufferInit
  /\ shutdown = FALSE
  /\ arrived = 0
  /\ inbox = [r \in Readers |-> <<>>]
  /\ fpc = [r \in Readers |-> "wait"]
  /\ events = [r \in Readers |-> <<>>]
  /\ request = [r \in Readers |-> [seq |-> 0, count |-> 0]]
  /\ replies = {}
  /\ late = [r \in Readers |-> 0]

-----------------------------------------------------------------------------
(* The environment: clients and FeedPool::stop(). *)

Arrive(r, q) ==
  /\ arrived < MaxRequests
  /\ arrived' = arrived + 1
  /\ inbox' = [inbox EXCEPT ![r] = Append(@, q)]
  /\ UNCHANGED <<bufferVars, shutdown, fpc, events, request, replies, late>>

\* The write to the eventfd; a second one changes nothing.
Stop ==
  /\ ~shutdown
  /\ shutdown' = TRUE
  /\ UNCHANGED <<bufferVars, arrived, inbox, fpc, events, request, replies, late>>

PushNext ==
  /\ Len(log) < Len(Sequenced)
  /\ PushBegin(Sequenced[Len(log) + 1])
  /\ UNCHANGED feedVars

PushStep == (PushStoreSeq \/ PushStorePos \/ PushPublish) /\ UNCHANGED feedVars

-----------------------------------------------------------------------------
(* Feed::start(). *)

\* What epoll reports as ready, level-triggered and in either order;
\* epoll_events_ has room for both.
Ready(r) ==
  (IF inbox[r] # <<>> THEN {"socket"} ELSE {}) \cup
  (IF shutdown THEN {"shutdown"} ELSE {})

\* Mutant: room for one event.
EpollOneResult(r) == {<<e>> : e \in Ready(r)}

EpollResults(r) ==
  {es \in [1 .. Cardinality(Ready(r)) -> Ready(r)] :
     {es[k] : k \in DOMAIN es} = Ready(r)}

\* epoll_wait() blocks until something is ready.
Wait(r) ==
  /\ fpc[r] = "wait"
  /\ Ready(r) # {}
  /\ events' \in {[events EXCEPT ![r] = es] : es \in EpollResults(r)}
  /\ fpc' = [fpc EXCEPT ![r] = "dispatch"]
  /\ UNCHANGED <<bufferVars, shutdown, arrived, inbox, request, replies, late>>

SeeShutdown(r) ==
  /\ fpc[r] = "dispatch"
  /\ events[r] # <<>> /\ Head(events[r]) = "shutdown"
  /\ fpc' = [fpc EXCEPT ![r] = "stopped"]
  /\ UNCHANGED <<bufferVars, shutdown, arrived, inbox, events, request,
                 replies, late>>

DispatchDone(r) ==
  /\ fpc[r] = "dispatch"
  /\ events[r] = <<>>
  /\ fpc' = [fpc EXCEPT ![r] = "wait"]
  /\ UNCHANGED <<bufferVars, shutdown, arrived, inbox, events, request,
                 replies, late>>

-----------------------------------------------------------------------------
(* Feed::handle_request(). *)

\* recvfrom() takes one datagram and cuts it to the header's length; it is
\* answered if it is a whole header of this session.
Acceptable(q) == q.size >= HeaderLength /\ q.session = Session

TakeDatagram(r) ==
  /\ fpc[r] = "dispatch"
  /\ events[r] # <<>> /\ Head(events[r]) = "socket"
  /\ events' = [events EXCEPT ![r] = Tail(@)]
  /\ inbox' = [inbox EXCEPT ![r] = Tail(@)]
  /\ late' = [late EXCEPT ![r] = IF shutdown THEN @ + 1 ELSE @]

\* recvfrom() fails, or the event is not for input: the feed goes on to the
\* next event.
ReceiveFails(r) ==
  /\ fpc[r] = "dispatch"
  /\ events[r] # <<>> /\ Head(events[r]) = "socket"
  /\ events' = [events EXCEPT ![r] = Tail(@)]
  /\ UNCHANGED <<bufferVars, shutdown, arrived, inbox, fpc, request, replies,
                 late>>

IgnoreRequest(r) ==
  /\ TakeDatagram(r)
  /\ ~Acceptable(Head(inbox[r]))
  /\ UNCHANGED <<bufferVars, shutdown, arrived, fpc, request, replies>>

\* parse_request() calls file_position_for().
ParseRequest(r) ==
  /\ TakeDatagram(r)
  /\ LET q == Head(inbox[r]) IN
       /\ Acceptable(q)
       /\ LookupLoad(r, q.seq)
       /\ request' = [request EXCEPT ![r] = [seq |-> q.seq, count |-> q.count]]
  /\ fpc' = [fpc EXCEPT ![r] = "lookup"]
  /\ UNCHANGED <<shutdown, arrived, replies>>

LookupStep(r) == (LookupCompare(r) \/ LookupFetch(r)) /\ UNCHANGED feedVars

\* parse_request() found no position: no answer.
OutOfBuffer(r) ==
  /\ fpc[r] = "lookup"
  /\ rpc[r] = "returned" /\ answer[r] = Nullopt
  /\ fpc' = [fpc EXCEPT ![r] = "dispatch"]
  /\ UNCHANGED <<bufferVars, shutdown, arrived, inbox, events, request,
                 replies, late>>

\* build_packet() reads on from pos until count messages are added, one is
\* unreadable or one does not fit: one turn of its loop, broke once it has
\* been left; the loop after each turn; and the packet it leaves behind.
BuildTurn(b) ==
  LET n == MessageSize(File, b.pos)
  IN IF b.broke \/ ~CanAdd(b.packet, n)
     THEN [b EXCEPT !.broke = TRUE]
     ELSE [packet |-> Added(b.packet, b.pos, n),
           pos |-> PositionAfter(File, b.pos), broke |-> FALSE]

BuildLoop(s, pos, count) ==
  LET turn[i \in 0 .. count] ==
        IF i = 0 THEN [packet |-> reset(s), pos |-> pos, broke |-> FALSE]
        ELSE BuildTurn(turn[i - 1])
  IN turn

build_packet(s, pos, count) == BuildLoop(s, pos, count)[count].packet

\* build_packet() and send_packet(); sendmsg() may fail.
Reply(r) ==
  /\ fpc[r] = "lookup"
  /\ rpc[r] = "returned" /\ answer[r] # Nullopt
  /\ LET q == request[r] IN
       \/ replies' = replies \cup
            {[asked |-> q.count, packet |->
                finalize(build_packet(q.seq, answer[r], q.count))]}
       \/ UNCHANGED replies
  /\ fpc' = [fpc EXCEPT ![r] = "dispatch"]
  /\ UNCHANGED <<bufferVars, shutdown, arrived, inbox, events, request, late>>

-----------------------------------------------------------------------------
FeedStep(r) ==
  \/ Wait(r) \/ SeeShutdown(r) \/ DispatchDone(r)
  \/ ReceiveFails(r) \/ IgnoreRequest(r) \/ ParseRequest(r) \/ LookupStep(r)
  \/ OutOfBuffer(r) \/ Reply(r)

AllStopped == \A r \in Readers : fpc[r] = "stopped"

FeedNext ==
  \/ PushNext \/ PushStep \/ Stop
  \/ \E r \in Readers : FeedStep(r)
  \/ \E r \in Readers, q \in Requests : Arrive(r, q)
  \/ AllStopped /\ UNCHANGED allVars

FeedSpec == FeedInit /\ [][FeedNext]_allVars

-----------------------------------------------------------------------------
(* Properties. *)

FeedTypeOK ==
  /\ TypeOK
  /\ shutdown \in BOOLEAN
  /\ arrived \in 0 .. MaxRequests
  /\ inbox \in [Readers -> Seq(Requests)]
  /\ fpc \in [Readers -> {"wait", "dispatch", "lookup", "stopped"}]
  /\ events \in [Readers -> Seq({"socket", "shutdown"})]
  /\ request \in [Readers -> [seq : SequenceNumber, count : Nat]]
  /\ replies \subseteq [asked : Nat,
                        packet : [seq : Nat, count : Nat, msgs : Seq(Nat)]]
  /\ late \in [Readers -> Nat]

\* n messages from s on: they exist, and fit a packet.
Bytes(s, n) ==
  IF n = 0 THEN 0
  ELSE (Sequenced[s + n - 1] + MessageSize(File, Sequenced[s + n - 1]))
         - Sequenced[s]

Fit(s, n) == s + n - 1 <= Len(Sequenced) /\ HeaderLength + Bytes(s, n) <= MTU

\* A request is answered with the messages it names: the reply to a request
\* for s carries the messages numbered from s on as the downstream feed
\* numbered them, as many as were asked for, fit a packet and exist, unless
\* the writer has claimed the slot of s again by now.
ReplyFaithful ==
  \A y \in replies :
    LET p == y.packet
        n == Len(p.msgs)
    IN p.seq > 0 /\ Len(log) < p.seq + BufferSize =>
         /\ p.msgs = SubSeq(Sequenced, p.seq, p.seq + n - 1)
         /\ p.count = n /\ n <= y.asked
         /\ Fit(p.seq, n)
         /\ n < y.asked => ~Fit(p.seq, n + 1)

\* Whatever races happened, a reply is made of whole messages of the file and
\* fits the MTU.  (build_packet() never takes the bytes after the last message
\* for one, so try_add()'s assertion holds of it if it holds of the file.)
ReplyIsWellFormed ==
  \A y \in replies :
    LET m == y.packet.msgs IN
      /\ \A k \in 1 .. Len(m) : \E j \in 1 .. Len(File.starts) : m[k] = File.starts[j]
      /\ m # <<>> =>
           HeaderLength + ((m[Len(m)] + MessageSize(File, m[Len(m)])) - m[1]) <= MTU

\* FeedPool::stop() is asynchronous, but a flood of requests cannot keep a
\* feed from seeing it: at most the datagram of the round in progress and the
\* one of the next round are taken after it.
FewLateRequests == \A r \in Readers : late[r] <= 2

=============================================================================
