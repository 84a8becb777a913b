------------------------------- MODULE Server -------------------------------
(***************************************************************************)
(* The life of an imr::Server and of its threads: construction member by   *)
(* member, the FeedPool's threads, start(), stop(), wait_for_downstream()  *)
(* and the destructor.  What the feeds do while they run is the subject of *)
(* DownstreamFeed and RetransmissionFeed; here a feed starts, runs, uses   *)
(* the server's members and ends.                                          *)
(***************************************************************************)
EXTENDS Integers, Sequences

CONSTANTS
  NumFeeds,      \* Config::num_retransmission_feeds
  MaxStarts,     \* bound: calls of start()
  SpawnFailsAt   \* numbers of feeds after which creating a thread may fail

ASSUME ServerAssumption ==
  /\ NumFeeds \in Nat
  /\ MaxStarts \in Nat
  /\ SpawnFailsAt \subseteq 0 .. NumFeeds - 1

Feeds == 1 .. NumFeeds
Runs == 1 .. MaxStarts

\* Mutant: the pool is declared before the downstream feed.
MembersPoolFirst ==
  <<"mapped_itch_file_", "retransmission_buffer_", "retransmission_feeds_",
    "downstream_feed_", "downstream_thread_">>

\* The members, in the order of their declaration in server.h.
Members == <<"mapped_itch_file_", "retransmission_buffer_", "downstream_feed_",
             "downstream_thread_", "retransmission_feeds_">>

\* What a constructor finds wrong with a Config: a file it cannot open or map,
\* a ring without slots, an MTU or a session it cannot use, a multicast group
\* or an address that is not one or not to be had.
MappedFileRejects == {"path"}
BufferRejects == {"buffer_size"}
PacketBuilderRejects == {"packet"}
DownstreamRejects == {"mcast_group"} \cup PacketBuilderRejects
FeedRejects == {"address"} \cup PacketBuilderRejects

\* The FeedPool constructs its feeds in their threads and rejects nothing.
RejectedBy ==
  [mapped_itch_file_ |-> MappedFileRejects,
   retransmission_buffer_ |-> BufferRejects,
   downstream_feed_ |-> DownstreamRejects,
   downstream_thread_ |-> {},
   retransmission_feeds_ |-> {}]

RejectedInConstructor == UNION {RejectedBy[m] : m \in DOMAIN RejectedBy}

\* The packet builder does not check its min_message_size and divides by it.
DividesByZero == {"min_message_size"}

Configs == {"valid"} \cup RejectedInConstructor \cup FeedRejects \cup DividesByZero

VARIABLES
  mpc,          \* where the owner of the server is
  members,      \* the members that exist, oldest first
  config,       \* the caller's Config: valid, what is wrong with it, or gone
  spawned,      \* how many feed threads the FeedPool has created
  fpc,          \* the state of each feed thread
  shutdown,     \* the pool's eventfd has been written
  starts,       \* how often start() was called
  dpc,          \* the state of each downstream thread
  stop_token,   \* its stop token
  handle,       \* the run downstream_thread_ stands for, 0 if it is not joinable
  stopped       \* the runs for which stop() was called (history)

poolVars == <<spawned, fpc, shutdown>>
downstreamVars == <<starts, dpc, stop_token, handle, stopped>>
vars == <<mpc, members, config, poolVars, downstreamVars>>

Init ==
  /\ mpc = "construct"
  /\ members = <<>>
  /\ config \in Configs
  /\ spawned = 0
  /\ fpc = [i \in Feeds |-> "none"]
  /\ shutdown = FALSE
  /\ starts = 0
  /\ dpc = [d \in Runs |-> "none"]
  /\ stop_token = [d \in Runs |-> FALSE]
  /\ handle = 0
  /\ stopped = {}

-----------------------------------------------------------------------------
(* Server::Server() and FeedPool::FeedPool(). *)

\* The FeedPool is the newest member: its constructor creates the threads.
PoolSpawns == members # <<>> /\ members[Len(members)] = "retransmission_feeds_"

NextMember(m) ==
  /\ mpc = "construct"
  /\ PoolSpawns => spawned = NumFeeds
  /\ Len(members) < Len(Members)
  /\ m = Members[Len(members) + 1]

ConstructMember ==
  \E m \in DOMAIN RejectedBy :
    /\ NextMember(m)
    /\ config \notin RejectedBy[m]
    /\ members' = Append(members, m)
    /\ UNCHANGED <<mpc, config, poolVars, downstreamVars>>

\* The constructor of a member throws, because of the Config or because a
\* system call fails, the FeedPool's before it has created a thread; the
\* members constructed so far are destroyed and the exception reaches the
\* caller.
ConstructThrows ==
  \E m \in DOMAIN RejectedBy :
    /\ NextMember(m)
    /\ m # "downstream_thread_"
    /\ members' = <<>>
    /\ mpc' = "threw"
    /\ UNCHANGED <<config, poolVars, downstreamVars>>

\* Dividing by zero is undefined: where the processor traps it ends the
\* process, where it does not the constructor goes on.
ConstructDies ==
  /\ NextMember("downstream_feed_")
  /\ config \in DividesByZero
  /\ mpc' = "terminated"
  /\ UNCHANGED <<members, config, poolVars, downstreamVars>>

SpawnFeed ==
  /\ mpc = "construct"
  /\ PoolSpawns
  /\ spawned < NumFeeds
  /\ spawned' = spawned + 1
  /\ fpc' = [fpc EXCEPT ![spawned + 1] = "starting"]
  /\ UNCHANGED <<mpc, members, config, shutdown, downstreamVars>>

\* emplace_back() throws: feeds_ is destroyed, which joins the threads.
SpawnThrows ==
  /\ mpc = "construct"
  /\ PoolSpawns
  /\ spawned \in SpawnFailsAt
  /\ mpc' = "unwind"
  /\ UNCHANGED <<members, config, poolVars, downstreamVars>>

FeedsJoined == \A i \in Feeds : fpc[i] \in {"none", "ended"}

UnwindDone ==
  /\ mpc = "unwind"
  /\ FeedsJoined
  /\ members' = <<>>
  /\ mpc' = "threw"
  /\ UNCHANGED <<config, poolVars, downstreamVars>>

ConstructReturns ==
  /\ mpc = "construct"
  /\ members = Members
  /\ spawned = NumFeeds
  /\ mpc' = "ready"
  /\ UNCHANGED <<members, config, poolVars, downstreamVars>>

\* The caller's Config may end any time after the constructor has returned.
ConfigEnds ==
  /\ mpc \notin {"construct", "unwind", "terminated"}
  /\ config # "gone"
  /\ config' = "gone"
  /\ UNCHANGED <<mpc, members, poolVars, downstreamVars>>

-----------------------------------------------------------------------------
(* A thread of the FeedPool. *)

\* It constructs its Feed from the caller's Config, through a pointer.
FeedConstruct(i) ==
  /\ fpc[i] = "starting"
  /\ config \notin FeedRejects
  /\ fpc' = [fpc EXCEPT ![i] = "running"]
  /\ UNCHANGED <<mpc, shutdown>>

\* The Feed's constructor throws, because of the Config, of whatever is left
\* where it was or of a system call that fails; nothing catches it.
FeedConstructThrows(i) ==
  /\ fpc[i] = "starting"
  /\ mpc' = "terminated"
  /\ UNCHANGED <<fpc, shutdown>>

\* Mutant: the event loop reads the eventfd, which resets it.
FeedEndsConsumes(i) ==
  /\ fpc[i] = "running"
  /\ shutdown
  /\ fpc' = [fpc EXCEPT ![i] = "ended"]
  /\ shutdown' = FALSE
  /\ UNCHANGED mpc

\* The event loop sees the eventfd, which it does not read: it stays readable
\* for the other feeds.
FeedEnds(i) ==
  /\ fpc[i] = "running"
  /\ shutdown
  /\ fpc' = [fpc EXCEPT ![i] = "ended"]
  /\ UNCHANGED <<mpc, shutdown>>

FeedThread(i) ==
  /\ mpc # "terminated"
  /\ FeedConstruct(i) \/ FeedConstructThrows(i) \/ FeedEnds(i)
  /\ UNCHANGED <<members, config, spawned, downstreamVars>>

-----------------------------------------------------------------------------
(* The downstream thread. *)

\* downstream_feed_.start() returns, at the end of the file or when stopped.
DownstreamReturns(d) ==
  /\ dpc[d] = "running"
  /\ dpc' = [dpc EXCEPT ![d] = "stop_pool"]
  /\ UNCHANGED shutdown

DownstreamStopsPool(d) ==
  /\ dpc[d] = "stop_pool"
  /\ shutdown' = TRUE
  /\ dpc' = [dpc EXCEPT ![d] = "ended"]

DownstreamThread(d) ==
  /\ mpc # "terminated"
  /\ DownstreamReturns(d) \/ DownstreamStopsPool(d)
  /\ UNCHANGED <<mpc, members, config, spawned, fpc, starts, stop_token, handle,
                 stopped>>

-----------------------------------------------------------------------------
(* The owner's calls. *)

\* start(): the new thread runs before the assignment to downstream_thread_
\* stops and joins the one it held.
Start ==
  /\ mpc = "ready"
  /\ starts < MaxStarts
  /\ starts' = starts + 1
  /\ dpc' = [dpc EXCEPT ![starts + 1] = "running"]
  /\ IF handle = 0
     THEN handle' = starts + 1 /\ UNCHANGED <<mpc, stop_token>>
     ELSE /\ mpc' = "replace"
          /\ stop_token' = [stop_token EXCEPT ![handle] = TRUE]
          /\ UNCHANGED handle
  /\ UNCHANGED <<members, config, poolVars, stopped>>

StartReplaced ==
  /\ mpc = "replace"
  /\ dpc[handle] = "ended"
  /\ handle' = starts
  /\ mpc' = "ready"
  /\ UNCHANGED <<members, config, poolVars, starts, dpc, stop_token, stopped>>

\* Mutant: the token of the first run is kept and used for every later one.
StopFirstRun ==
  /\ mpc \in {"ready", "wait"}
  /\ handle # 0
  /\ stop_token' = [stop_token EXCEPT ![1] = TRUE]
  /\ stopped' = stopped \cup {handle}
  /\ UNCHANGED <<mpc, members, config, poolVars, starts, dpc, handle>>

\* stop(), also from another thread while the owner waits.  Without a thread
\* behind downstream_thread_ it has no effect.
Stop ==
  /\ mpc \in {"ready", "wait"}
  /\ IF handle = 0
     THEN UNCHANGED <<stop_token, stopped>>
     ELSE /\ stop_token' = [stop_token EXCEPT ![handle] = TRUE]
          /\ stopped' = stopped \cup {handle}
  /\ UNCHANGED <<mpc, members, config, poolVars, starts, dpc, handle>>

WaitForDownstream ==
  /\ mpc = "ready"
  /\ handle # 0
  /\ mpc' = "wait"
  /\ UNCHANGED <<members, config, poolVars, downstreamVars>>

WaitReturns ==
  /\ mpc = "wait"
  /\ dpc[handle] = "ended"
  /\ handle' = 0
  /\ mpc' = "ready"
  /\ UNCHANGED <<members, config, poolVars, starts, dpc, stop_token, stopped>>

-----------------------------------------------------------------------------
(* Server::~Server(), then the members in reverse order. *)

Destroy ==
  /\ mpc = "ready"
  /\ stop_token' = IF handle = 0 THEN stop_token
                   ELSE [stop_token EXCEPT ![handle] = TRUE]
  /\ mpc' = "join_downstream"
  /\ UNCHANGED <<members, config, poolVars, starts, dpc, handle, stopped>>

JoinDownstream ==
  /\ mpc = "join_downstream"
  /\ handle # 0 => dpc[handle] = "ended"
  /\ handle' = 0
  /\ mpc' = "stop_pool"
  /\ UNCHANGED <<members, config, poolVars, starts, dpc, stop_token, stopped>>

StopPool ==
  /\ mpc = "stop_pool"
  /\ shutdown' = TRUE
  /\ mpc' = "destroy_members"
  /\ UNCHANGED <<members, config, spawned, fpc, downstreamVars>>

\* Mutants: the feed threads are detached; the oldest member goes first.
DestroyMemberDetached ==
  /\ mpc = "destroy_members"
  /\ members # <<>>
  /\ members' = SubSeq(members, 1, Len(members) - 1)
  /\ UNCHANGED <<mpc, config, poolVars, downstreamVars>>

DestroyMemberForwards ==
  /\ mpc = "destroy_members"
  /\ members # <<>>
  /\ Head(members) = "retransmission_feeds_" => FeedsJoined
  /\ members' = Tail(members)
  /\ UNCHANGED <<mpc, config, poolVars, downstreamVars>>

\* Destroying the FeedPool joins its threads before it closes the eventfd.
DestroyMember ==
  /\ mpc = "destroy_members"
  /\ members # <<>>
  /\ members[Len(members)] = "retransmission_feeds_" => FeedsJoined
  /\ members' = SubSeq(members, 1, Len(members) - 1)
  /\ UNCHANGED <<mpc, config, poolVars, downstreamVars>>

Destroyed ==
  /\ mpc = "destroy_members"
  /\ members = <<>>
  /\ mpc' = "gone"
  /\ UNCHANGED <<members, config, poolVars, downstreamVars>>

-----------------------------------------------------------------------------
Constructor ==
  \/ ConstructMember \/ ConstructThrows \/ ConstructDies \/ SpawnFeed \/ SpawnThrows
  \/ UnwindDone \/ ConstructReturns

Destructor == JoinDownstream \/ StopPool \/ DestroyMember \/ Destroyed

OwnerReturns == StartReplaced \/ WaitReturns

OwnerCalls == Start \/ Stop \/ WaitForDownstream \/ Destroy

\* The constructor waits, perhaps for ever, for feeds that are running.
Unwinding == mpc = "unwind" /\ UNCHANGED vars

Over == mpc \in {"threw", "gone", "terminated"} /\ UNCHANGED vars

Next ==
  \/ Constructor \/ Destructor \/ OwnerReturns \/ OwnerCalls \/ ConfigEnds
  \/ \E i \in Feeds : FeedThread(i)
  \/ \E d \in Runs : DownstreamThread(d)
  \/ Unwinding \/ Over

\* A downstream that is not stopped may take as long as its file.
InTime(d) == stop_token[d] \/ dpc[d] = "stop_pool"

\* Threads are scheduled and calls in progress go on.  A downstream that is
\* stopped ends (DownstreamFeed, StopEndsFeed).
Fairness ==
  /\ WF_vars(Constructor) /\ WF_vars(Destructor) /\ WF_vars(OwnerReturns)
  /\ \A i \in Feeds : WF_vars(FeedThread(i))
  /\ \A d \in Runs : WF_vars(InTime(d) /\ DownstreamThread(d))

Spec == Init /\ [][Next]_vars /\ Fairness

-----------------------------------------------------------------------------
(* Properties. *)

TypeOK ==
  /\ mpc \in {"construct", "unwind", "threw", "ready", "replace", "wait",
              "join_downstream", "stop_pool", "destroy_members", "gone",
              "terminated"}
  /\ members = SubSeq(Members, 1, Len(members))
  /\ config \in Configs \cup {"gone"}
  /\ spawned \in 0 .. NumFeeds
  /\ fpc \in [Feeds -> {"none", "starting", "running", "ended"}]
  /\ shutdown \in BOOLEAN
  /\ starts \in 0 .. MaxStarts
  /\ dpc \in [Runs -> {"none", "running", "stop_pool", "ended"}]
  /\ stop_token \in [Runs -> BOOLEAN]
  /\ handle \in 0 .. MaxStarts
  /\ stopped \subseteq Runs

Exists(m) == \E k \in 1 .. Len(members) : members[k] = m

\* No thread outlives what it uses: a retransmission feed the mapped file,
\* the ring and the pool's eventfd, a downstream thread its feed, the file,
\* the ring and the pool it stops at the end.
MembersOutliveThreads ==
  /\ \A i \in Feeds : fpc[i] \in {"starting", "running"} =>
       /\ Exists("mapped_itch_file_") /\ Exists("retransmission_buffer_")
       /\ Exists("retransmission_feeds_")
  /\ \A d \in Runs : dpc[d] \in {"running", "stop_pool"} =>
       /\ Exists("mapped_itch_file_") /\ Exists("retransmission_buffer_")
       /\ Exists("downstream_feed_") /\ Exists("retransmission_feeds_")

\* A Config that one of the members' constructors rejects is rejected before
\* there is a thread.  The feeds' threads check the packet builder's part of it
\* again, where an error would end the process; it never gets as far as that.
RejectedBeforeThreads ==
  config \in RejectedInConstructor => spawned = 0 /\ mpc # "terminated"

\* The destructor returns, whether start() was called or not, with the
\* downstream in the middle of the file and with feeds that have only begun.
DestructorReturns ==
  mpc = "join_downstream" ~> mpc \in {"gone", "terminated"}

\* stop() on a running server ends the downstream thread it was called for,
\* also when that is not the first one, and every retransmission feed.
StopEndsAllFeeds ==
  \A d \in Runs :
    d \in stopped ~> \/ mpc = "terminated"
                     \/ dpc[d] = "ended" /\ \A i \in Feeds : fpc[i] = "ended"

\* server.h:87 says that the constructor throws when a system call it needs
\* fails, the creation of a thread included.
SetupFailureIsThrown ==
  config = "valid" /\ mpc = "unwind" ~> mpc \in {"threw", "terminated"}

\* feed_pool.h:41-42 says that storing the configuration as members keeps it
\* in scope until the threads have finished using it.
ConfigReadInScope ==
  mpc # "terminated" => \A i \in Feeds : fpc[i] = "starting" => config # "gone"

\* server.h:86 and 124 say that the caller learns of an invalid configuration.
ErrorsReachCaller == config \in FeedRejects => mpc # "terminated"

=============================================================================
