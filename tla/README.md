# imr: TLA+ models of a MoldUDP64 replay server

`imr` replays a TotalView-ITCH 5.0 file over MoldUDP64: it multicasts the
messages of a memory-mapped file in numbered packets at the pace of their
timestamps, and answers unicast requests for packets a client has missed. This
directory models its threads, its lock-free ring and its life cycle in TLA+,
model-checks them with TLC and proves with TLAPS every safety property the passing
runs check. Paths below are relative to the repository (`include/imr/...`, `src/...`).

## Inventory

| Part | State | Operations | Interacts with | Hard about it |
|---|---|---|---|---|
| Retransmission ring (`mold/retransmission_buffer`) | records (sequence number, file position), `write_seq_` | `push`, `file_position_for` | written by the downstream thread, read by N feed threads without a lock | plain accesses race; a reader can be lapped inside a call |
| Downstream feed (`mold/downstream/feed`) | file position, next number, packet, number announced | `start`: skip, `build_packet`, sleep, `send_packet`, `end_of_session` | pushes to the ring; starts, stops and joins the heartbeat; polls a stop token | rollback of the message that does not fit, cut-off files, stops in every phase |
| Heartbeat (`mold/downstream/heartbeat`) | its thread and stop token | `start`, `stop`, `send` | reads `sent_sequence_number_` (relaxed) and shares the socket | stale numbers, order against packets and end of session |
| Pacer (`mold/downstream/pacer.h`) | two origins | `should_skip`, `get_delay` | called by the feed | drift, scaling |
| Packet builder (`mold/packet_builder`) | header, message list, bytes left | `reset`, `try_add`, `finalize` | one per feed | limits |
| Message I/O (`mold/io`, `itch/timestamp`, `peek_timestamp`) | none | read or skip a message, read a timestamp | all feeds | bounds at the end of the file; the position moves before a failure is known |
| Retransmission feed (`mold/retransmission/feed`) | socket queue, epoll set, request | `start`, `handle_request`, `parse_request`, `build_packet`, `send_packet` | reads ring and file; polls the shared eventfd | requests race with the writer; shutdown races with requests |
| Feed pool (`mold/retransmission/feed_pool`) | threads, eventfd, pointers to the configuration | construct, `stop`, destroy | owns the feeds | threads outrun their constructor; partial failure |
| Server (`server`) | the above as members, downstream thread | construct, `start`, `stop`, `wait_for_downstream`, destroy | owner calls from outside | lifetimes, joins, call sequences |
| Mapped file and descriptors (`util/memory_mapped_file`, `util/file_descriptor`) | a descriptor number; a mapping and its length | open, move, assign, destroy | own what the kernel holds; numbers are reused | double close, leak, unmapping with another's length |
| Binary I/O, types (`util/binary_io.h`, `mold/types.h`) | none | read and write numbers in big-endian order | headers, prefixes, requests | byte order, offsets |
| Logging, string views | - | - | - | plain utilities, not modelled |

What makes each part correct: the ring keeps the last `buffer_size` messages
and answers for them; the downstream numbers each message of the file once, in
file order, and puts it on the wire under that number; heartbeats announce only
what was sent and end of session is last; a retransmission repeats exactly what
was multicast under the number; packets keep the schedule of their timestamps
without drift; a handle is closed once and by its owner; a configuration is
rejected where the caller can be told; nothing waits for ever and nothing is used
after its owner is gone. `PROJECT.json` lists the hazards by line.

## Modules

- **RetransmissionBuffer** models the ring access by access. A record is two
  words; `push()` stores them in either order (`PushStoreSeq`, `PushStorePos`),
  then stores `write_seq_` (`PushPublish`, a release store, so not before them).
  `file_position_for()` is three loads: `LookupLoad`, `LookupCompare`,
  `LookupFetch`. The plain accesses race, which C++ leaves undefined; the model
  gives them the outcomes of single-word accesses of the x86-64 and AArch64
  builds: each word is the old or the new one. Were the compiler to load the
  position before the comparison, the same answers would result. `log` is a
  history of the positions pushed. Sequence numbers keep their width: the test
  for overwritten adds modulo `SeqMod`.
- **IndexMask** holds `index_for()` with the code's mask and power-of-two test,
  and an assumption, evaluated by TLC, that it is the remainder.
- **MessageFile** and **PacketBuilder** are the operators for `mold/io`,
  the timestamp functions and `PacketBuilder`. A file is its size, the prefix
  and the timestamp that would be read at each position, and (for properties
  only) where its messages start (`StartsAreMessages`, by the file format and not
  by the code). A message is its file position.
- **DownstreamFeed** models `downstream::Feed` and `Heartbeat`: one action per
  turn of a loop and per access to something shared. `wire` and `lost` record
  what was handed to the socket; they are sets, as a client sees datagrams in
  any order. A timestamp read out of bounds is a choice. The program is built with
  and without assertions (`asserts`): with them, `extract_timestamp()`'s of the
  bytes left and `try_add()`'s of a message's size end the process (`Abort`) where
  they do not hold; without them the thread goes on.
- **MoldSession** is the abstract specification of what a client relies on: a
  stream numbered from 1 that only grows, datagrams that carry it block by
  block, heartbeats that are never ahead of what has been committed, an end
  after which only the end is announced. It knows nothing of files, positions,
  threads or stop tokens. DownstreamFeed implements it (`ImplementsSession`): the
  stream is what was pushed to the ring, committed is what
  `sent_sequence_number_` covers, handed over is what `sendmsg()` has been
  called for, and the session is over when the heartbeat thread has been joined.
- **Pacer** models `get_delay()` and the loop that sleeps for it against a clock:
  time passes while a packet is built (`MaxWork`) and in `sleep_for()`, which may
  be late (`MaxOversleep`) and is not woken by a stop. Timestamps come in any
  order; a speed is a fraction and the quotient is truncated towards zero as the
  code's cast does.
- **MemoryMappedFile** models `FileDescriptor` and `MemoryMappedFile` with what
  they own in the kernel, the lowest free number being the next one given out.
- **BinaryIO** writes and reads numbers byte by byte as `binary_io.h` and
  `extract_timestamp()` do, on hosts of both byte orders, with a `Base` instead of
  256 values per byte. Its assumptions, evaluated by TLC, say what the other
  modules take for granted when they use numbers: the header's fields are
  big-endian, apart from each other, and read back as they were written.
- **RetransmissionFeed** puts the event loops of `retransmission::Feed` on the
  ring of RetransmissionBuffer. The downstream feed appears as the ring's writer,
  pushing the file's messages in order, which is what DownstreamFeed's
  `ReplayInFileOrder` shows of it. Each feed has a receive queue of its own
  (`SO_REUSEPORT`). `epoll` is external: it reports all that is ready, in any
  order. A receive that fails, or an event that is not for input, costs the feed
  the event (`ReceiveFails`).
- **Server** models construction member by member, the pool's threads, the
  owner's calls in any order and destruction in reverse order of declaration.
  A configuration is valid, has one fault that some constructor rejects, has a
  `min_message_size` of 0, or has ended. The packet builder's part is checked
  twice: by the downstream feed in the constructor and by every retransmission
  feed in its thread. The 0 is not checked but divided by, which is undefined:
  where the processor traps it the process ends (`ConstructDies`), elsewhere
  construction goes on. `stop()` without a downstream thread has no effect.
- **MCRetransmissionBuffer**, **MCDownstreamFeed**, **MCRetransmissionFeed**,
  **MCPacer** give TLC its files, requests, threads and speeds. Operators marked
  *Mutant* are plausible bugs: putting one in place of the definition after it
  breaks the property listed for it in `PROJECT.json`.
- **RetransmissionBufferProofs**, **MemoryMappedFileProofs**,
  **DownstreamFeedProofs**, **DownstreamReplayProofs**,
  **RetransmissionFeedProofs**, **ServerProofs** and **PacerProofs** hold the proofs
  about the modules they are named after; **MessageFileProofs** the lemmas about
  files that both feeds need.

## What the runs check

Passing:

- `downstream`: eleven files of at most four messages with 28 bytes of payload, so
  packets of one and two messages, exact fits, a miss by one byte, files whose
  head or whole is skipped, one out of the order of its timestamps, five cut off inside a message
  and one with a message no packet holds, each in both builds. The kernel may refuse any send and a stop may come at
  any moment. `NumbersTile`, `WireMatchesBuffer`, `ReplayInFileOrder` and
  `ReplayComplete` are what the client relies on, the last two of files that are
  whole and in the order of their timestamps (`IsComplete`); `WithinMTU` the packet limit;
  `HeartbeatAnnouncesSent`, `EndOfSessionIsLast` and `NothingAfterEndOfSession`
  order the two threads' datagrams; `StopEndsFeed` and `FeedFinishes` are the
  liveness of `start()`. `CompleteFileKeepsAssertions`: a whole file whose
  messages have the smallest size or more never breaks an assertion, so
  `FeedFinishes` holds of it in both builds; of a cut-off file it is claimed of
  the build without assertions. `ImplementsSession` is the refinement of
  MoldSession.
- `retransmission`: one feed, a ring of two slots, five numbered messages after
  a skipped one, numbers modulo 8, and three datagrams out of six kinds (beyond
  the packet by one byte, up to its last byte and beyond the file, no messages,
  number 0, a number whose sum wraps, another session). Five messages lap two
  slots twice, so a lookup can be lapped once and twice inside one call.
  `WindowIntact`: the last messages are in the ring with both words, also during
  a push. `LookupComplete`: a lookup of a message that was published when the
  call began and is unclaimed when it returned gives its position.
  `LookupWithinLaps`: a torn lookup is off by whole laps, never by less and never
  backwards. `ReplyFaithful`: a reply to a request whose slot has not been claimed
  since is exactly the longest run of messages asked for. `ReplyIsWellFormed`: all
  replies, also torn ones, are whole messages within the MTU. `FewLateRequests`:
  at most two datagrams are taken after the shutdown; three are needed to break
  it, hence the bound. One feed is enough: feeds share nothing but the ring, which
  they only read, and the eventfd, whose sharing is in the run `server`.
- `server`: two feed threads, two starts, a configuration with each fault or one
  that ends early, members that fail to construct and threads that fail to be
  created first or second. `MembersOutliveThreads`. `RejectedBeforeThreads`: what
  a member's constructor rejects is rejected before there is a thread, where the
  error would end the process. `DestructorReturns`: one write to the eventfd ends
  both feeds. `StopEndsAllFeeds`: `stop()` ends the downstream thread it was called
  for, the second as well as the first, and every feed.
- `pacer`: speeds 1, 2, 1/2 and 3/2, five timestamps, two units of work, one of
  oversleep, fifteen of time: enough for several packets, for a feed that falls
  behind and catches up, and for quotients that are not whole. `NeverEarly`: less
  than a unit ahead of schedule. `NoDrift`: a packet is on schedule or follows
  the one before at once. `Punctual`: with packets due far enough apart the last
  one is as punctual as the first. `OnePacketAfterStop`: a stop costs at most the
  packet being slept for. The schedule is that of the packets' first messages;
  the others in a packet go out ahead of their own timestamps by design.
- `handles`: two objects of each kind, three numbers, three addresses, two sizes.
  `DescriptorsOwnedOnce`, `MappingsOwnedOnce`. Two objects are what a move needs;
  a third number and address make reuse after a close possible and visible.

Violated, each a statement of the repository the code does not keep (quoted in
`PROJECT.json` under findings):

- `ring_torn_read`: the comparison in `file_position_for()` does not protect the
  read after it.
- `ring_number_zero`: a lookup of number 0 succeeds before the first lap, because
  a value-initialised record has number 0.
- `downstream_oversize`: an oversized message is retried for ever with empty
  packets.
- `downstream_cut_file`: after a message that overruns the file the feed goes on
  two bytes later and adds what it finds there, shorter than the smallest
  message, and then reads a timestamp past the end. One replay breaks both
  assertions, which is what the property denies.
- `server_config`: feed threads may read a configuration that has ended.
- `server_invalid_config`: a feed's construction error terminates the process.
- `server_thread_fails`: a feed thread that cannot be created after another one
  runs makes the constructor join a thread nobody stops.

Met while modelling, without a run of their own:

- A stopped feed sends no end of session packets, as their loop checks the same
  stop token (`src/mold/downstream/feed.cpp:173`), though `feed.h:66` says they
  follow a stop as well.
- A failed `madvise()` leaves the file mapped; `MappingsOwnedOnce` names the case.
- A `min_message_size` of 0 passes the packet builder's checks and is divided by
  (`src/mold/packet_builder.cpp:31`); Server has both outcomes.
- `stop()` before `start()` leaves the retransmission feeds running until the
  destructor (`src/server.cpp:39`).
- `should_skip()` is asked of the first message of a packet only. In a file out
  of the order of its timestamps an early message is dropped when it begins a
  packet and sent when it does not, so what is replayed depends on how packets
  fill (`src/mold/downstream/feed.cpp:105`). ITCH files are in order;
  `IsComplete` says so.
- `extract_timestamp()` swaps bytes on every host, unlike `to_be()`; the
  assumption of BinaryIO about it is for little-endian hosts only.

Fairness. Threads are scheduled, sleeps end and the clock advances:
`WF(DownstreamStep)`, `WF(HeartbeatStep)`, `WF(EndOfSessionElapses)`, and in
Server one `WF` per feed thread, per owner's call in progress and per stopped
downstream. RetransmissionFeed states safety only and needs none.
Nothing is assumed of clients, of the caller (it need never stop, wait or
destroy), of sends (any may fail) or of a running downstream in Server (a file
may be arbitrarily long). That a running feed of Server ends once the eventfd is
written rests on `FewLateRequests`: both descriptors fit one result of `epoll`, so
requests cannot hide the shutdown.

Bounds: `MaxSeq`, `MaxRequests`, `MaxStarts`, `MaxTime` cap messages, datagrams,
calls and the clock; files are finite by themselves. Pacer needs no fairness: its
clock does not pass a step's deadline. Deadlock is checked in all runs.

## What is proved

RetransmissionBufferProofs proves, for every buffer size, set of readers, set of
positions and number of messages, from `BufferAssumption` (the size is not 0,
numbers do not reach 2^64):

- `TypeCorrect`, `WindowIsIntact`, `LookupIsComplete`, `LookupIsWithinLaps`:
  the ring by itself, with readers that ask for any number at any time.

The argument is the inductive invariant `RingInv`. The window alone is not
inductive: publishing must know that both words are stored (`WriterInv`), and
the word stores must know that the slot they write is not one of the window's
(`IndexDistinct`: numbers less than a lap apart have different slots). A torn
read is bounded because a slot's position only ever advances by laps
(`SlotsOnlyAdvance`), and a lookup that returned early was right to do so because
a message of the window is in range without wrapping (`NoWrap`). `ReaderInv`
carries what a reader established over the steps of others. There is one lemma
per action.

MemoryMappedFileProofs proves, for any sets of objects, descriptor numbers,
addresses and sizes, from `HandleAssumption` (numbers are not negative, sizes not
0, a null pointer is no address):

- `HandlesTypeCorrect`, `DescriptorsAreOwnedOnce`, `MappingsAreOwnedOnce`: the
  invariants of the run `handles`.

The two properties speak of live objects. They become inductive (`HandleInv`) once
a place without an object is known to hold nothing, so that constructing there
adds no second owner, and a mapping left behind by a failed constructor is known
to be no object's, so that nobody unmaps it. One lemma per action again.

DownstreamFeedProofs proves, for every set of files, MTU and `skip_before`, from
`FeedAssumption` (prefixes and timestamps have values inside the file; files may
be cut anywhere) and `MTUAssumption` (the header fits, the smallest message has bytes):

- `TypeCorrect`, `NumbersTileAlways`, `WireMatchesBufferAlways`,
  `WithinMTUAlways`, `HeartbeatAnnouncesSentAlways`: invariants of the run
  `downstream`.
- `EndOfSessionIsLastAlways` and the action property
  `NothingFollowsEndOfSession`, under the hypothesis `FewMessagesFit`: 65535
  messages do not fit the MTU, or their packet would read as an end of session.
  A UDP datagram carries at most 65507 bytes and a message takes two or more, so
  every MTU that can be sent satisfies it.
- `FeedImplementsSession`: the refinement of MoldSession, one step per action
  (`StepRefines`).

Numbers, packet, announcement and wire constrain each other only together
(`FeedInv`): that blocks do not overlap needs the packet to carry the newest
numbers (`PacketInv`) and all blocks to lie below it (`BlocksInv`); that
heartbeats do not run ahead needs `sent_sequence_number_` to equal what was
handed over except between the store and `sendmsg()` (`NumbersInv`), and the
loaded number not to exceed it (`ThreadsInv`); that a packet stays within the MTU
needs its messages to be adjacent in the file and `bytes_remaining_` to be what
they leave (`PacketBytesInv`).

DownstreamReplayProofs adds `ReplayInFileOrderAlways`, `ReplayCompleteAlways` and
`CompleteFileKeepsAssertionsAlways`.
Their invariant (`ReplayInv`) is a cursor: the feed stands at the start of some
message c, the messages numbered are the ones directly before c, those before
them were all skipped, and the loop is left unstopped only behind the last
message. None of the properties is inductive without it, as a rollback moves the
position and not the numbers. Standing at the start of a whole message is also
what the two assertions need, and an assertion that never fails never aborts.

RetransmissionFeedProofs proves, for any number of feeds, any ring, file and
requests, from `RetransmissionAssumption` (the file as above, counts are 16-bit,
the positions pushed are the file's):

- `FeedsUseTheRing`: the composition takes only steps of RetransmissionBuffer's
  specification, so the ring's theorems hold of it; its proof reuses `RingInv`.
- `RingHoldsUnderFeeds`: `WindowIntact`, `LookupComplete` and `LookupWithinLaps`,
  as the run `retransmission` checks them.
- `FeedTypeCorrect`, `FewLateRequestsAlways`, `ReplyIsWellFormedAlways`,
  `ReplyFaithfulAlways`: that run's other invariants, all from
  `FeedInvariant`.

A torn lookup yields some message of the file, an untorn one the message asked
for, and `ReplyInv` keeps which of the two a reply may rest on as the writer goes
on. That at most two datagrams are taken late needs to know what is left of a
round of `epoll_wait()` (`EventsInv`, `LateInv`). What `build_packet()` returns
(`BuildPacketIs`) is an induction over the turns of its loop (`TurnInv`): the
longest run of messages from the position on that is asked for, exists and fits.

Both feeds need induction over data: where messages start (`StartsIncrease`),
what a loop has built. The induction theorems of the library take an operator,
which the provers cannot instantiate. `IntervalInduction` in MessageFileProofs
takes a set instead, and follows from the pigeonhole principle
(`FS_PigeonHole`). `LoopUnrolls` shows with it that the recursive function
`BuildLoop` defines exists.

ServerProofs proves `TypeCorrect`, `MembersOutliveThreadsAlways` and
`RejectedBeforeThreadsAlways` for any number of feeds and starts, from
`ServerAssumption`. `ServerInv`: the members are a prefix of their declaration,
complete whenever a thread lives (`MembersInv`), since the pool is declared last
(`PoolIsLast`); the live downstream threads are those the owner has a handle on
(`DownstreamInv`), so that destroying the members waits for them.

PacerProofs proves the pacer's five invariants (`TypeCorrect`, `NeverEarlyAlways`,
`NoDriftAlways`, `PunctualAlways`, `OnePacketAfterStopAlways`) for any timestamps,
speeds and bounds on work, sleep and time, from `PacerAssumption`. `PacerInv`
adds that both origins are those of the first packet, that a sleep is long enough
up to truncation (`SleepLongEnough`) and ends by the due time or a bounded time
after the last send (`DeadlineInv`). The arithmetic of the truncated quotient is
in `FloorBounds`, `TruncatedBounds` and `ScaleMonotone`.

Every inductive invariant was checked by TLC on the instance of its run before it
was proved.

Only model-checked: liveness, as the prover has no fairness (`StopEndsFeed`,
`FeedFinishes`, `DestructorReturns`, `StopEndsAllFeeds`); the mask of IndexMask and the bytes of
BinaryIO, which are assumptions TLC evaluates; and the violations, which are
counterexamples and need no proof.

## Not modelled

Socket options, and addresses beyond whether they are accepted; logging and
`zstring_view`; errors of `epoll_wait()` other than an interrupt; limits on the
number of vectors `sendmsg()` takes; memory
reordering beyond the racing words of a record (the next push is taken not to
overtake the release store of the last one); a caller that starts a feed object
twice outside Server; files that change while they are mapped; playback speeds
of zero or below; the rounding of `double` for offsets beyond 2^53 nanoseconds;
clients beyond the requests they send. Tests and build files are not part of the
program.

## Plan

1. Done: all components modelled; every safety invariant, the action property and
   the refinement of the passing runs proved.
2. The composition at the level of proofs: that the log DownstreamFeed pushes is
   what RetransmissionFeed's writer is assumed to push (its `Sequenced`) for
   complete files, so that a reply repeats what was multicast under its number.
3. The safety half of the liveness arguments: ranking facts such as that the
   position never moves back past a numbered message, and that after a stop no
   new packet is begun.
