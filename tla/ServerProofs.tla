---------------------------- MODULE ServerProofs ----------------------------
(***************************************************************************)
(* Proofs about Server, for every number of feeds and of calls of start(): *)
(* in which order members and threads come and go.                         *)
(***************************************************************************)
EXTENDS Server, SequenceTheorems, TLAPS

LiveFeed(i) == fpc[i] \in {"starting", "running"}
LiveDownstream(d) == dpc[d] \in {"running", "stop_pool"}

\* The members are a prefix of their declaration, all of them whenever the
\* owner may call the server or a thread is there.
MembersInv ==
  /\ members \in Seq(DOMAIN RejectedBy)
  /\ Len(members) <= 5
  /\ \A k \in 1 .. Len(members) : members[k] = Members[k]
  /\ mpc \in {"unwind", "ready", "replace", "wait", "join_downstream",
              "stop_pool"} => Len(members) = 5
  /\ \A i \in Feeds : LiveFeed(i) => Len(members) = 5
  /\ \A d \in Runs : LiveDownstream(d) => Len(members) = 5

\* The pool creates its threads one by one, and only once it is a member.
PoolInv ==
  /\ mpc = "construct" /\ Len(members) < 5 => spawned = 0
  /\ \A i \in Feeds : fpc[i] = "none" <=> i > spawned

\* The downstream threads that have not ended are the one downstream_thread_
\* stands for and, while start() replaces it, the new one.
DownstreamInv ==
  /\ mpc \in {"construct", "unwind", "threw"} => starts = 0
  /\ handle <= starts
  /\ mpc = "replace" => handle # 0
  /\ mpc \in {"stop_pool", "destroy_members", "gone"} => handle = 0
  /\ \A d \in Runs : LiveDownstream(d) =>
       /\ d <= starts
       /\ mpc # "terminated" => d = handle \/ (mpc = "replace" /\ d = starts)

\* No member's constructor accepts what it rejects.
ConfigInv ==
  /\ \A k \in 1 .. Len(members) : config \notin RejectedBy[members[k]]
  /\ spawned > 0 => config \notin RejectedInConstructor
  /\ mpc = "terminated" => spawned > 0 \/ config \in DividesByZero

ServerInv == TypeOK /\ MembersInv /\ PoolInv /\ DownstreamInv /\ ConfigInv

-----------------------------------------------------------------------------
\* The declaration names each member once.
LEMMA MembersDeclared ==
  /\ Members \in Seq(DOMAIN RejectedBy) /\ Len(Members) = 5
  /\ Members[1] = "mapped_itch_file_" /\ Members[2] = "retransmission_buffer_"
  /\ Members[3] = "downstream_feed_" /\ Members[4] = "downstream_thread_"
  /\ Members[5] = "retransmission_feeds_"
BY DEF Members, RejectedBy

\* Members that agree with the declaration are a prefix of it.
LEMMA PrefixIsSubSeq ==
  ASSUME NEW m \in Seq(DOMAIN RejectedBy), Len(m) <= 5,
         \A k \in 1 .. Len(m) : m[k] = Members[k]
  PROVE  m = SubSeq(Members, 1, Len(m))
<1> DEFINE s == SubSeq(Members, 1, Len(m))
<1>1. Len(m) \in Nat
  OBVIOUS
<1>2. \A k \in 1 .. Len(m) : Members[k] \in DOMAIN RejectedBy
  <2> SUFFICES ASSUME NEW k \in 1 .. Len(m) PROVE Members[k] \in DOMAIN RejectedBy
    OBVIOUS
  <2> QED BY ElementOfSeq
<1>3. /\ s \in Seq(DOMAIN RejectedBy)
      /\ Len(s) = IF 1 <= Len(m) THEN Len(m) - 1 + 1 ELSE 0
      /\ \A k \in 1 .. Len(m) - 1 + 1 : s[k] = Members[1 + k - 1]
  BY <1>1, <1>2, SubSeqProperties
<1>4. Len(s) = Len(m) /\ \A k \in 1 .. Len(m) : m[k] = s[k]
  BY <1>1, <1>3
<1> HIDE DEF s
<1>5. m = s
  BY <1>3, <1>4, SeqEqual
<1> QED BY <1>5 DEF s

\* The pool is the last of the members.
LEMMA PoolIsLast ==
  ASSUME MembersInv, members # <<>>
  PROVE  /\ Len(members) \in Nat /\ Len(members) >= 1
         /\ members[Len(members)] = "retransmission_feeds_" => Len(members) = 5
<1>1. members \in Seq(DOMAIN RejectedBy) /\ Len(members) <= 5
  BY DEF MembersInv
<1>2. Len(members) \in Nat /\ Len(members) # 0
  BY <1>1, EmptySeq
<1> DEFINE n == Len(members)
<1>3. n \in Nat /\ n >= 1 /\ n <= 5
  BY <1>1, <1>2
<1>4. members[n] = Members[n]
  BY <1>3 DEF MembersInv
<1> HIDE DEF n
<1>5. n = 1 \/ n = 2 \/ n = 3 \/ n = 4 \/ n = 5
  BY <1>3
<1>6. members[n] = "retransmission_feeds_" => n = 5
  BY <1>4, <1>5, MembersDeclared
<1> QED BY <1>3, <1>6 DEF n

\* The server's life begins in the invariant.
LEMMA ServerInit == Init => ServerInv
<1> SUFFICES ASSUME Init PROVE ServerInv
  OBVIOUS
<1>1. members \in Seq(DOMAIN RejectedBy) /\ Len(members) = 0
  BY EmptySeq DEF Init
<1>2. members = SubSeq(Members, 1, Len(members))
  BY <1>1, PrefixIsSubSeq
<1>3. TypeOK
  <2>1. /\ fpc \in [Feeds -> {"none", "starting", "running", "ended"}]
        /\ dpc \in [Runs -> {"none", "running", "stop_pool", "ended"}]
        /\ stop_token \in [Runs -> BOOLEAN]
    BY DEF Init
  <2>2. spawned \in 0 .. NumFeeds /\ starts \in 0 .. MaxStarts
        /\ handle \in 0 .. MaxStarts
    BY ServerAssumption DEF Init
  <2>3. shutdown \in BOOLEAN /\ stopped \subseteq Runs /\ config \in Configs
    BY DEF Init
  <2> QED BY <1>2, <2>1, <2>2, <2>3 DEF Init, TypeOK
<1>4. MembersInv /\ PoolInv /\ DownstreamInv /\ ConfigInv
  BY <1>1, ServerAssumption
    DEF Init, MembersInv, PoolInv, DownstreamInv, ConfigInv, LiveFeed,
        LiveDownstream, Feeds, Runs
<1> QED BY <1>3, <1>4 DEF ServerInv

-----------------------------------------------------------------------------
(* Steps that change the members. *)

\* The next member's constructor accepts the Config.
LEMMA ConstructMemberInv == ServerInv /\ ConstructMember => ServerInv'
<1> SUFFICES ASSUME ServerInv, ConstructMember PROVE ServerInv'
  OBVIOUS
<1> PICK m \in DOMAIN RejectedBy :
      /\ NextMember(m)
      /\ config \notin RejectedBy[m]
      /\ members' = Append(members, m)
      /\ UNCHANGED <<mpc, config, poolVars, downstreamVars>>
  BY DEF ConstructMember
<1>1. UNCHANGED <<mpc, config, spawned, fpc, shutdown, starts, dpc, stop_token,
                  handle, stopped>>
  BY DEF poolVars, downstreamVars
<1>2. /\ members \in Seq(DOMAIN RejectedBy) /\ Len(members) \in Nat
      /\ \A k \in 1 .. Len(members) : members[k] = Members[k]
  BY DEF ServerInv, MembersInv
<1>3. mpc = "construct" /\ Len(members) < 5 /\ m = Members[Len(members) + 1]
  BY MembersDeclared DEF NextMember
<1>4. /\ members' \in Seq(DOMAIN RejectedBy)
      /\ Len(members') = Len(members) + 1
      /\ \A k \in 1 .. Len(members) : members'[k] = members[k]
      /\ members'[Len(members) + 1] = m
  BY <1>2, AppendProperties
<1>5. /\ Len(members') <= 5
      /\ \A k \in 1 .. Len(members') : members'[k] = Members[k]
  BY <1>2, <1>3, <1>4
<1>6. members' = SubSeq(Members, 1, Len(members'))
  BY <1>4, <1>5, PrefixIsSubSeq
<1>7. TypeOK'
  BY <1>1, <1>6 DEF ServerInv, TypeOK
<1>8. \A i \in Feeds : ~LiveFeed(i)
  BY <1>2, <1>3 DEF ServerInv, MembersInv
<1>9. \A d \in Runs : ~LiveDownstream(d)
  BY <1>2, <1>3 DEF ServerInv, MembersInv
<1>10. MembersInv'
  BY <1>1, <1>3, <1>4, <1>5, <1>8, <1>9
    DEF MembersInv, LiveFeed, LiveDownstream
<1>11. PoolInv' /\ DownstreamInv'
  BY <1>1, <1>2, <1>3, <1>4
    DEF ServerInv, PoolInv, DownstreamInv, LiveDownstream
<1>12. ConfigInv'
  BY <1>1, <1>2, <1>4 DEF ServerInv, ConfigInv
<1> QED BY <1>7, <1>10, <1>11, <1>12 DEF ServerInv

\* A constructor throws before the pool has a thread, or the pool's after all
\* of its threads were joined: nothing is left that uses a member.
LEMMA MembersGoneInv ==
  ServerInv /\ (ConstructThrows \/ UnwindDone) => ServerInv'
<1> SUFFICES ASSUME ServerInv, ConstructThrows \/ UnwindDone PROVE ServerInv'
  OBVIOUS
<1>1. /\ mpc \in {"construct", "unwind"} /\ mpc' = "threw" /\ members' = <<>>
      /\ UNCHANGED <<config, spawned, fpc, shutdown, starts, dpc, stop_token,
                     handle, stopped>>
  BY DEF ConstructThrows, NextMember, UnwindDone, poolVars, downstreamVars
<1>2. members' \in Seq(DOMAIN RejectedBy) /\ Len(members') = 0
  BY <1>1, EmptySeq
<1>3. members' = SubSeq(Members, 1, Len(members'))
  BY <1>2, PrefixIsSubSeq
<1>4. TypeOK'
  BY <1>1, <1>3 DEF ServerInv, TypeOK
<1>5. \A i \in Feeds : ~LiveFeed(i)
  <2>1. CASE ConstructThrows
    <3>1. Len(members) < 5
      BY <2>1, MembersDeclared DEF ConstructThrows, NextMember
    <3> QED BY <3>1, SMTT(30) DEF ServerInv, MembersInv
  <2>2. CASE UnwindDone
    BY <2>2 DEF UnwindDone, FeedsJoined, LiveFeed
  <2> QED BY <2>1, <2>2
<1>6. \A d \in Runs : ~LiveDownstream(d)
  BY <1>1, ServerAssumption DEF ServerInv, DownstreamInv, Runs
<1>7. MembersInv'
  BY <1>1, <1>2, <1>5, <1>6 DEF MembersInv, LiveFeed, LiveDownstream
<1>8. PoolInv' /\ ConfigInv'
  BY <1>1, <1>2 DEF ServerInv, PoolInv, ConfigInv
<1>9. DownstreamInv'
  BY <1>1, <1>6 DEF ServerInv, DownstreamInv, LiveDownstream
<1> QED BY <1>4, <1>7, <1>8, <1>9 DEF ServerInv

\* The newest member goes: if it is the pool, its threads are joined, and the
\* downstream threads were joined before.
LEMMA DestroyMemberInv == ServerInv /\ DestroyMember => ServerInv'
<1> SUFFICES ASSUME ServerInv, DestroyMember PROVE ServerInv'
  OBVIOUS
<1>1. /\ mpc = "destroy_members" /\ members # <<>>
      /\ members[Len(members)] = "retransmission_feeds_" => FeedsJoined
      /\ members' = SubSeq(members, 1, Len(members) - 1)
      /\ UNCHANGED <<mpc, config, spawned, fpc, shutdown, starts, dpc,
                     stop_token, handle, stopped>>
  BY DEF DestroyMember, poolVars, downstreamVars
<1>2. /\ members \in Seq(DOMAIN RejectedBy) 
      /\ Len(members) \in Nat /\ Len(members) >= 1 /\ Len(members) <= 5
      /\ \A k \in 1 .. Len(members) : members[k] = Members[k]
  <2>1. /\ members \in Seq(DOMAIN RejectedBy) /\ Len(members) <= 5
        /\ \A k \in 1 .. Len(members) : members[k] = Members[k]
    BY DEF ServerInv, MembersInv
  <2> QED BY <1>1, <2>1, PoolIsLast DEF ServerInv
<1>3. /\ members' \in Seq(DOMAIN RejectedBy)
      /\ Len(members') = Len(members) - 1
      /\ \A k \in 1 .. Len(members') : members'[k] = members[k]
  <2> DEFINE n == Len(members) - 1
  <2>1. n \in Int /\ \A k \in 1 .. n : members[k] \in DOMAIN RejectedBy
    BY <1>2, ElementOfSeq
  <2> HIDE DEF n
  <2>2. /\ SubSeq(members, 1, n) \in Seq(DOMAIN RejectedBy)
        /\ Len(SubSeq(members, 1, n)) = IF 1 <= n THEN n - 1 + 1 ELSE 0
        /\ \A k \in 1 .. n - 1 + 1 : SubSeq(members, 1, n)[k] = members[1 + k - 1]
    BY <2>1, SubSeqProperties
  <2>3. n >= 0 /\ members' = SubSeq(members, 1, n)
    BY <1>1, <1>2 DEF n
  <2>4. Len(members') = n
    BY <2>1, <2>2, <2>3
  <2> QED BY <2>1, <2>2, <2>3, <2>4 DEF n
<1>4. /\ Len(members') <= 5
      /\ \A k \in 1 .. Len(members') : members'[k] = Members[k]
  BY <1>2, <1>3
<1>5. members' = SubSeq(Members, 1, Len(members'))
  BY <1>3, <1>4, PrefixIsSubSeq
<1>6. TypeOK'
  BY <1>1, <1>5 DEF ServerInv, TypeOK
<1>7. \A i \in Feeds : ~LiveFeed(i)
  <2>1. CASE Len(members) = 5
    <3>1. FeedsJoined
      BY <1>1, <1>2, <2>1, MembersDeclared
    <3> QED BY <3>1 DEF FeedsJoined, LiveFeed
  <2>2. CASE Len(members) # 5
    BY <2>2 DEF ServerInv, MembersInv
  <2> QED BY <2>1, <2>2
<1>8. \A d \in Runs : ~LiveDownstream(d)
  BY <1>1, ServerAssumption DEF ServerInv, DownstreamInv, Runs
<1>9. MembersInv'
  BY <1>1, <1>3, <1>4, <1>7, <1>8 DEF MembersInv, LiveFeed, LiveDownstream
<1>10. PoolInv' /\ DownstreamInv'
  BY <1>1, <1>8 DEF ServerInv, PoolInv, DownstreamInv, LiveDownstream
<1>11. ConfigInv'
  BY <1>1, <1>2, <1>3 DEF ServerInv, ConfigInv
<1> QED BY <1>6, <1>9, <1>10, <1>11 DEF ServerInv

-----------------------------------------------------------------------------
(* Steps that leave the members. *)

\* A feed's thread is created when all members are there.
LEMMA SpawnFeedInv == ServerInv /\ SpawnFeed => ServerInv'
<1> SUFFICES ASSUME ServerInv, SpawnFeed PROVE ServerInv'
  OBVIOUS
<1>1. /\ mpc = "construct" /\ PoolSpawns /\ spawned < NumFeeds
      /\ spawned' = spawned + 1
      /\ fpc' = [fpc EXCEPT ![spawned + 1] = "starting"]
      /\ UNCHANGED <<mpc, members, config, shutdown, starts, dpc, stop_token,
                     handle, stopped>>
  BY DEF SpawnFeed, downstreamVars
<1>2. spawned \in Nat /\ NumFeeds \in Nat
  BY ServerAssumption DEF ServerInv, TypeOK
<1>3. fpc \in [Feeds -> {"none", "starting", "running", "ended"}]
  BY DEF ServerInv, TypeOK
<1>4. TypeOK'
  <2>1. spawned' \in 0 .. NumFeeds
    BY <1>1, <1>2
  <2>2. fpc' \in [Feeds -> {"none", "starting", "running", "ended"}]
    BY <1>1, <1>3
  <2> QED BY <1>1, <2>1, <2>2 DEF ServerInv, TypeOK
<1>5. /\ Len(members) = 5
      /\ \A k \in 1 .. 5 : members[k] = Members[k]
  BY <1>1, PoolIsLast DEF PoolSpawns, ServerInv, MembersInv
<1>6. MembersInv' /\ DownstreamInv'
  BY <1>1, <1>5
    DEF ServerInv, MembersInv, DownstreamInv, LiveDownstream
<1>7. PoolInv'
  BY <1>1, <1>2, <1>3, <1>5 DEF ServerInv, PoolInv, Feeds
<1>8. config \notin RejectedInConstructor
  <2>1. \A k \in 1 .. 5 : config \notin RejectedBy[Members[k]]
    BY <1>5 DEF ServerInv, ConfigInv
  <2> QED BY <2>1, MembersDeclared DEF RejectedInConstructor, RejectedBy
<1>9. ConfigInv'
  BY <1>1, <1>2, <1>8 DEF ServerInv, ConfigInv
<1> QED BY <1>4, <1>6, <1>7, <1>9 DEF ServerInv

\* The owner's side of the life of the pool: it is complete when the
\* constructor returns or unwinds, and its threads are not the owner's.
PoolOwnerStep ==
  \/ SpawnThrows \/ ConstructReturns \/ ConstructDies \/ ConfigEnds \/ StopPool
  \/ Destroyed

\* These steps preserve the invariant.
LEMMA PoolOwnerStepInv == ServerInv /\ PoolOwnerStep => ServerInv'
<1> SUFFICES ASSUME ServerInv, PoolOwnerStep PROVE ServerInv'
  OBVIOUS
<1>1. UNCHANGED <<members, spawned, fpc, starts, dpc, stop_token, handle, stopped>>
  BY DEF PoolOwnerStep, SpawnThrows, ConstructReturns, ConstructDies, NextMember,
    ConfigEnds, StopPool, Destroyed, poolVars, downstreamVars
<1>2. /\ mpc # "terminated"
      /\ \/ mpc' = mpc
         \/ mpc = "construct" /\ mpc' = "unwind" /\ PoolSpawns
         \/ mpc = "construct" /\ mpc' = "terminated" /\ config' \in DividesByZero
         \/ mpc = "construct" /\ mpc' = "ready" /\ members = Members
         \/ mpc = "stop_pool" /\ mpc' = "destroy_members"
         \/ mpc = "destroy_members" /\ mpc' = "gone"
      /\ config' \in {config, "gone"}
  BY DEF PoolOwnerStep, SpawnThrows, ConstructReturns, ConstructDies, NextMember,
    ConfigEnds, StopPool, Destroyed
<1>3. PoolSpawns => Len(members) = 5
  BY PoolIsLast DEF PoolSpawns, ServerInv
<1>4. TypeOK'
  <2>1. shutdown' \in BOOLEAN /\ config' \in Configs \cup {"gone"}
    BY <1>2 DEF ServerInv, TypeOK, PoolOwnerStep, SpawnThrows, ConstructReturns,
      ConstructDies, ConfigEnds, StopPool, Destroyed, poolVars
  <2> QED BY <1>1, <1>2, <2>1 DEF ServerInv, TypeOK
<1>5. MembersInv'
  BY <1>1, <1>2, <1>3, MembersDeclared
    DEF ServerInv, MembersInv, LiveFeed, LiveDownstream
<1>6. PoolInv'
  BY <1>1, <1>2 DEF ServerInv, PoolInv
<1>7. DownstreamInv'
  BY <1>1, <1>2 DEF ServerInv, DownstreamInv, LiveDownstream
<1>8. ConfigInv'
  <2>1. \A m \in DOMAIN RejectedBy : "gone" \notin RejectedBy[m]
    BY DEF RejectedBy, MappedFileRejects, BufferRejects, DownstreamRejects,
      PacketBuilderRejects
  <2>2. "gone" \notin RejectedInConstructor
    BY <2>1 DEF RejectedInConstructor
  <2>3. \A k \in 1 .. Len(members) : members[k] \in DOMAIN RejectedBy
    BY ElementOfSeq DEF ServerInv, MembersInv
  <2> QED BY <1>1, <1>2, <2>1, <2>2, <2>3 DEF ServerInv, ConfigInv
<1> QED BY <1>4, <1>5, <1>6, <1>7, <1>8 DEF ServerInv

\* A feed's thread comes to an end by itself or takes the process with it.
LEMMA FeedThreadInv ==
  ASSUME ServerInv, NEW i \in Feeds, FeedThread(i)
  PROVE  ServerInv'
<1>1. /\ mpc # "terminated" /\ mpc' \in {mpc, "terminated"}
      /\ fpc[i] \in {"starting", "running"}
      /\ \/ fpc' = fpc
         \/ fpc' = [fpc EXCEPT ![i] = "running"]
         \/ fpc' = [fpc EXCEPT ![i] = "ended"]
      /\ UNCHANGED <<members, config, spawned, shutdown, starts, dpc, stop_token,
                     handle, stopped>>
  BY DEF FeedThread, FeedConstruct, FeedConstructThrows, FeedEnds, downstreamVars
<1>2. fpc \in [Feeds -> {"none", "starting", "running", "ended"}]
  BY DEF ServerInv, TypeOK
<1>3. TypeOK'
  BY <1>1, <1>2 DEF ServerInv, TypeOK
<1>4. spawned > 0
  BY <1>1, ServerAssumption DEF ServerInv, TypeOK, PoolInv, Feeds
<1>5. MembersInv'
  BY <1>1, <1>2 DEF ServerInv, MembersInv, LiveFeed, LiveDownstream
<1>6. PoolInv'
  BY <1>1, <1>2 DEF ServerInv, PoolInv
<1>7. DownstreamInv' /\ ConfigInv'
  BY <1>1, <1>4 DEF ServerInv, DownstreamInv, ConfigInv, LiveDownstream
<1> QED BY <1>3, <1>5, <1>6, <1>7 DEF ServerInv

\* A downstream thread stops the pool and ends.
LEMMA DownstreamThreadInv ==
  ASSUME ServerInv, NEW d \in Runs, DownstreamThread(d)
  PROVE  ServerInv'
<1>1. /\ dpc[d] \in {"running", "stop_pool"}
      /\ \/ dpc' = [dpc EXCEPT ![d] = "stop_pool"]
         \/ dpc' = [dpc EXCEPT ![d] = "ended"]
      /\ shutdown' \in {shutdown, TRUE}
      /\ UNCHANGED <<mpc, members, config, spawned, fpc, starts, stop_token,
                     handle, stopped>>
  BY DEF DownstreamThread, DownstreamReturns, DownstreamStopsPool
<1>2. dpc \in [Runs -> {"none", "running", "stop_pool", "ended"}]
  BY DEF ServerInv, TypeOK
<1>3. TypeOK'
  <2>1. shutdown' \in BOOLEAN
    BY <1>1 DEF ServerInv, TypeOK
  <2> QED BY <1>1, <1>2, <2>1 DEF ServerInv, TypeOK
<1>4. MembersInv' /\ DownstreamInv'
  BY <1>1, <1>2 DEF ServerInv, MembersInv, DownstreamInv, LiveFeed, LiveDownstream
<1>5. PoolInv' /\ ConfigInv'
  BY <1>1 DEF ServerInv, PoolInv, ConfigInv
<1> QED BY <1>3, <1>4, <1>5 DEF ServerInv

\* start(): the new thread runs with all members there; the one it replaces,
\* if any, is joined before downstream_thread_ stands for the new one.
LEMMA StartInv == ServerInv /\ Start => ServerInv'
<1> SUFFICES ASSUME ServerInv, Start PROVE ServerInv'
  OBVIOUS
<1>1. /\ mpc = "ready" /\ starts < MaxStarts /\ starts' = starts + 1
      /\ dpc' = [dpc EXCEPT ![starts + 1] = "running"]
      /\ \/ /\ handle = 0 /\ handle' = starts + 1 /\ mpc' = mpc
            /\ stop_token' = stop_token
         \/ /\ handle # 0 /\ handle' = handle /\ mpc' = "replace"
            /\ stop_token' = [stop_token EXCEPT ![handle] = TRUE]
      /\ UNCHANGED <<members, config, spawned, fpc, shutdown, stopped>>
  BY DEF Start, poolVars
<1>2. /\ starts \in Nat /\ MaxStarts \in Nat /\ handle \in Nat
      /\ handle <= MaxStarts
  BY ServerAssumption DEF ServerInv, TypeOK
<1>3. /\ dpc \in [Runs -> {"none", "running", "stop_pool", "ended"}]
      /\ stop_token \in [Runs -> BOOLEAN]
  BY DEF ServerInv, TypeOK
<1>4. TypeOK'
  <2>1. starts' \in 0 .. MaxStarts /\ handle' \in 0 .. MaxStarts
    BY <1>1, <1>2
  <2>2. dpc' \in [Runs -> {"none", "running", "stop_pool", "ended"}]
    BY <1>1, <1>3
  <2>3. stop_token' \in [Runs -> BOOLEAN]
    BY <1>1, <1>3
  <2> QED BY <1>1, <2>1, <2>2, <2>3 DEF ServerInv, TypeOK
<1>5. MembersInv'
  BY <1>1 DEF ServerInv, MembersInv, LiveFeed
<1>6. PoolInv' /\ ConfigInv'
  BY <1>1 DEF ServerInv, PoolInv, ConfigInv
<1>7. DownstreamInv'
  <2>1. handle <= starts
    BY DEF ServerInv, DownstreamInv
  <2>2. ASSUME NEW d \in Runs, LiveDownstream(d)'
        PROVE  /\ d <= starts'
               /\ d = handle' \/ (mpc' = "replace" /\ d = starts')
    <3>1. CASE d = starts + 1
      BY <1>1, <1>2, <3>1
    <3>2. CASE d # starts + 1
      <4>1. dpc'[d] = dpc[d]
        BY <1>1, <1>3, <3>2
      <4>2. d <= starts /\ d = handle
        BY <1>1, <2>2, <4>1 DEF ServerInv, DownstreamInv, LiveDownstream
      <4>3. d # 0
        BY <1>2 DEF Runs
      <4> QED BY <1>1, <1>2, <4>2, <4>3 DEF Runs
    <3> QED BY <3>1, <3>2
  <2>3. handle' <= starts'
    BY <1>1, <1>2, <2>1
  <2> QED BY <1>1, <2>2, <2>3 DEF DownstreamInv, LiveDownstream
<1> QED BY <1>4, <1>5, <1>6, <1>7 DEF ServerInv

\* The owner's other calls, and what they wait for: downstream_thread_ is let
\* go only once its thread has ended.
DownstreamOwnerStep ==
  \/ StartReplaced \/ Stop \/ WaitForDownstream \/ WaitReturns \/ Destroy
  \/ JoinDownstream

\* These steps preserve the invariant.
LEMMA DownstreamOwnerStepInv == ServerInv /\ DownstreamOwnerStep => ServerInv'
<1> SUFFICES ASSUME ServerInv, DownstreamOwnerStep PROVE ServerInv'
  OBVIOUS
<1>1. UNCHANGED <<members, config, spawned, fpc, shutdown, starts, dpc>>
  BY DEF DownstreamOwnerStep, StartReplaced, Stop, WaitForDownstream, WaitReturns,
    Destroy, JoinDownstream, poolVars, downstreamVars
<1>2. \/ /\ mpc = "replace" /\ mpc' = "ready" /\ handle' = starts
         /\ dpc[handle] = "ended"
      \/ /\ mpc \in {"ready", "wait"} /\ handle' = handle
         /\ mpc' \in {"ready", "wait", "join_downstream"}
      \/ /\ mpc \in {"wait", "join_downstream"} /\ handle' = 0
         /\ mpc' \in {"ready", "stop_pool"}
         /\ handle # 0 => dpc[handle] = "ended"
  BY DEF DownstreamOwnerStep, StartReplaced, Stop, WaitForDownstream, WaitReturns,
    Destroy, JoinDownstream, downstreamVars
<1>3. /\ starts \in 0 .. MaxStarts /\ handle \in 0 .. MaxStarts /\ MaxStarts \in Nat
      /\ stop_token \in [Runs -> BOOLEAN] /\ stopped \subseteq Runs
  BY ServerAssumption DEF ServerInv, TypeOK
<1>4. TypeOK'
  <2>1. stop_token' \in [Runs -> BOOLEAN]
    BY <1>3 DEF DownstreamOwnerStep, StartReplaced, Stop, WaitForDownstream,
      WaitReturns, Destroy, JoinDownstream, downstreamVars
  <2>2. stopped' \subseteq Runs
    <3>1. stopped' = stopped \/ (handle # 0 /\ stopped' = stopped \cup {handle})
      BY DEF DownstreamOwnerStep, StartReplaced, Stop, WaitForDownstream,
        WaitReturns, Destroy, JoinDownstream, downstreamVars
    <3>2. handle # 0 => handle \in Runs
      BY <1>3 DEF Runs
    <3> QED BY <1>3, <3>1, <3>2
  <2>3. handle' \in 0 .. MaxStarts
    BY <1>2, <1>3
  <2> QED BY <1>1, <1>2, <2>1, <2>2, <2>3 DEF ServerInv, TypeOK
<1>5. MembersInv'
  BY <1>1, <1>2 DEF ServerInv, MembersInv, LiveFeed, LiveDownstream
<1>6. PoolInv' /\ ConfigInv'
  BY <1>1, <1>2 DEF ServerInv, PoolInv, ConfigInv
<1>7. DownstreamInv'
  <2>1. ASSUME NEW d \in Runs, LiveDownstream(d)
        PROVE  d <= starts /\ d = handle'
    <3>1. dpc[d] # "ended" /\ d # 0
      BY <1>3, <2>1 DEF LiveDownstream, Runs
    <3>2. d <= starts /\ (d = handle \/ (mpc = "replace" /\ d = starts))
      BY <1>2, <2>1 DEF ServerInv, DownstreamInv
    <3> QED BY <1>2, <3>1, <3>2
  <2>2. handle' <= starts'
    BY <1>1, <1>2, <1>3 DEF ServerInv, DownstreamInv
  <2> QED BY <1>1, <1>2, <2>1, <2>2
    DEF ServerInv, DownstreamInv, LiveDownstream
<1> QED BY <1>4, <1>5, <1>6, <1>7 DEF ServerInv

\* Every step of the owner and of the threads preserves the invariant.
LEMMA ServerStepInv == ServerInv /\ [Next]_vars => ServerInv'
<1> SUFFICES ASSUME ServerInv, [Next]_vars PROVE ServerInv'
  OBVIOUS
<1>1. CASE ConstructMember
  BY <1>1, ConstructMemberInv
<1>2. CASE ConstructThrows \/ UnwindDone
  BY <1>2, MembersGoneInv
<1>3. CASE DestroyMember
  BY <1>3, DestroyMemberInv
<1>4. CASE SpawnFeed
  BY <1>4, SpawnFeedInv
<1>5. CASE PoolOwnerStep
  BY <1>5, PoolOwnerStepInv
<1>6. CASE \E i \in Feeds : FeedThread(i)
  BY <1>6, FeedThreadInv
<1>7. CASE \E d \in Runs : DownstreamThread(d)
  BY <1>7, DownstreamThreadInv
<1>8. CASE Start
  BY <1>8, StartInv
<1>9. CASE DownstreamOwnerStep
  BY <1>9, DownstreamOwnerStepInv
<1>10. CASE UNCHANGED vars
  <2>1. UNCHANGED <<mpc, members, config, spawned, fpc, shutdown, starts, dpc,
                    stop_token, handle, stopped>>
    BY <1>10 DEF vars, poolVars, downstreamVars
  <2>2. TypeOK' /\ PoolInv' /\ ConfigInv'
    BY <2>1 DEF ServerInv, TypeOK, PoolInv, ConfigInv
  <2>3. MembersInv' /\ DownstreamInv'
    BY <2>1
      DEF ServerInv, MembersInv, DownstreamInv, LiveFeed, LiveDownstream
  <2> QED BY <2>2, <2>3 DEF ServerInv
<1> QED BY <1>1, <1>2, <1>3, <1>4, <1>5, <1>6, <1>7, <1>8, <1>9, <1>10
  DEF Next, Constructor, Destructor, OwnerReturns, OwnerCalls, Unwinding, Over,
      PoolOwnerStep, DownstreamOwnerStep

\* The server is always in the invariant.
LEMMA ServerAlwaysInv == Spec => []ServerInv
BY ServerInit, ServerStepInv, PTL DEF Spec

\* With all members there, each of them exists.
LEMMA AllExist ==
  ASSUME MembersInv, Len(members) = 5, NEW k \in 1 .. 5
  PROVE  Exists(Members[k])
BY DEF MembersInv, Exists

-----------------------------------------------------------------------------
(* The theorems. *)

\* The server's state keeps its types; the members that exist are always a
\* prefix of their declaration.
THEOREM TypeCorrect == Spec => []TypeOK
BY ServerAlwaysInv, PTL DEF ServerInv

\* No feed thread and no downstream thread outlives a member it uses, however
\* often start() is called and wherever construction fails.
THEOREM MembersOutliveThreadsAlways == Spec => []MembersOutliveThreads
<1>1. ServerInv => MembersOutliveThreads
  <2> SUFFICES ASSUME ServerInv PROVE MembersOutliveThreads
    OBVIOUS
  <2>1. ASSUME Len(members) = 5
        PROVE  /\ Exists("mapped_itch_file_") /\ Exists("retransmission_buffer_")
               /\ Exists("downstream_feed_") /\ Exists("retransmission_feeds_")
    BY <2>1, AllExist, MembersDeclared DEF ServerInv
  <2> QED BY <2>1
    DEF ServerInv, MembersInv, MembersOutliveThreads, LiveFeed, LiveDownstream
<1> QED BY <1>1, ServerAlwaysInv, PTL

\* A Config that a member's constructor rejects never gets as far as a thread.
THEOREM RejectedBeforeThreadsAlways == Spec => []RejectedBeforeThreads
<1>1. ServerInv => RejectedBeforeThreads
  <2>1. config \in DividesByZero => config \notin RejectedInConstructor
    <3>1. \A m \in DOMAIN RejectedBy : "min_message_size" \notin RejectedBy[m]
      BY DEF RejectedBy, MappedFileRejects, BufferRejects, DownstreamRejects,
        PacketBuilderRejects
    <3> QED BY <3>1 DEF RejectedInConstructor, DividesByZero
  <2> QED
    BY <2>1, ServerAssumption
      DEF ServerInv, TypeOK, ConfigInv, RejectedBeforeThreads
<1> QED BY <1>1, ServerAlwaysInv, PTL

=============================================================================
