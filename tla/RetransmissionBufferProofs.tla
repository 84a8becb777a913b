--------------------- MODULE RetransmissionBufferProofs ---------------------
(***************************************************************************)
(* Proofs about RetransmissionBuffer, for every buffer size, every number  *)
(* of readers and every sequence of pushes.                                *)
(***************************************************************************)
EXTENDS RetransmissionBuffer, TLAPS

\* The remainder is the index of one of the slots.
LEMMA IndexInRange == \A s \in Nat : index_for(s) \in Indices
BY BufferAssumption DEF index_for, Indices

\* Two messages less than a lap apart have different slots.
LEMMA IndexDistinct ==
  \A s, t \in Nat : s < t /\ t < s + BufferSize => index_for(s) # index_for(t)
<1> SUFFICES ASSUME NEW s \in Nat, NEW t \in Nat, s < t, t < s + BufferSize,
                    s % BufferSize = t % BufferSize
             PROVE  FALSE
  BY DEF index_for
<1>1. BufferSize \in Nat /\ BufferSize > 0
  BY BufferAssumption
<1>2. \A n \in Nat : /\ n \div BufferSize \in Int
                     /\ n = BufferSize * (n \div BufferSize) + (n % BufferSize)
  BY <1>1
<1> DEFINE q == s \div BufferSize
           p == t \div BufferSize
<1>3. /\ p \in Int /\ t = BufferSize * p + (t % BufferSize)
      /\ q \in Int /\ s = BufferSize * q + (s % BufferSize)
  BY <1>2
<1> HIDE DEF p, q
<1>4. BufferSize * (p - q) = t - s
  BY <1>1, <1>3
<1>5. CASE p - q <= 0
  BY <1>1, <1>3, <1>4, <1>5
<1>6. CASE p - q >= 1
  BY <1>1, <1>3, <1>4, <1>6
<1> QED BY <1>3, <1>5, <1>6

\* Adding within the 64-bit range does not wrap.
LEMMA NoWrap == \A x \in Nat : x < SeqMod => x % SeqMod = x
BY BufferAssumption

-----------------------------------------------------------------------------
(* The inductive invariant. *)

\* Where the writer is: at most one message is claimed and not published, and
\* a word of it that is no longer pending is in its slot.
WriterInv ==
  /\ write_seq <= Len(log)
  /\ Len(log) <= write_seq + 1
  /\ Len(log) <= MaxSeq
  /\ pending # {} => Pushing
  /\ Pushing /\ "sequence_number" \notin pending =>
       slotSeq[index_for(Len(log))] = Len(log)
  /\ Pushing /\ "file_position" \notin pending =>
       slotPos[index_for(Len(log))] = log[Len(log)]

\* What a slot held at file_position once s was pushed; 0 is the number of the
\* value-initialised records.
PositionAt(s) == IF s = 0 THEN 0 ELSE log[s]

\* pos is what the slot of s held for s or for a number that took it later.
HeldSince(s, pos) ==
  \E t \in s .. Len(log) : index_for(t) = index_for(s) /\ pos = PositionAt(t)

\* The position in the slot of s is that of s or of a message laps later.
SlotsOnlyAdvance ==
  \A s \in 0 .. write_seq : HeldSince(s, slotPos[index_for(s)])

\* What a reader inside file_position_for() has established.
ReaderInv ==
  \A r \in Readers :
    /\ current[r] <= write_seq
    /\ rpc[r] \in {"compare", "fetch"} =>
         answer[r] = Nullopt /\ seq_num[r] <= current[r]

\* What a call may have returned, for the number 0 as well.
AnswersHeld ==
  \A r \in Readers :
    rpc[r] = "returned" /\ answer[r] # Nullopt => HeldSince(seq_num[r], answer[r])

RingInv ==
  /\ TypeOK
  /\ WriterInv
  /\ WindowIntact
  /\ SlotsOnlyAdvance
  /\ ReaderInv
  /\ LookupComplete
  /\ AnswersHeld

-----------------------------------------------------------------------------
\* The ring starts in the invariant.
LEMMA RingInit == BufferInit => RingInv
<1> SUFFICES ASSUME BufferInit PROVE RingInv
  OBVIOUS
<1> USE BufferAssumption DEF BufferInit
<1>1. index_for(0) \in Indices
  BY IndexInRange
<1>2. Len(log) = 0
  OBVIOUS
<1>3. TypeOK
  BY DEF TypeOK, RecordWords
<1>4. WriterInv /\ WindowIntact
  BY <1>2 DEF WriterInv, WindowIntact, Pushing
<1>5. SlotsOnlyAdvance
  BY <1>1, <1>2 DEF SlotsOnlyAdvance, HeldSince, PositionAt
<1>6. ReaderInv /\ LookupComplete /\ AnswersHeld
  BY DEF ReaderInv, LookupComplete, AnswersHeld
<1> QED
  BY <1>3, <1>4, <1>5, <1>6 DEF RingInv

\* Claiming the next message's slot preserves the invariant.
LEMMA PushBeginInv ==
  ASSUME NEW pos \in Positions, RingInv, PushBegin(pos)
  PROVE  RingInv'
<1> USE BufferAssumption DEF RingInv
<1>1. /\ log \in Seq(Nat) /\ pos \in Nat
      /\ write_seq = Len(log) /\ write_seq \in Nat
      /\ log' = Append(log, pos)
      /\ pending' = RecordWords
      /\ UNCHANGED <<slotSeq, slotPos, write_seq, rpc, seq_num, current, answer>>
  BY DEF PushBegin, Pushing, TypeOK, readerVars
<1>2. /\ Len(log') = Len(log) + 1
      /\ \A k \in 1 .. Len(log) : log'[k] = log[k]
      /\ log' \in Seq(Nat)
  BY <1>1
<1>3. \A k \in 0 .. Len(log) : PositionAt(k)' = PositionAt(k)
  BY <1>1, <1>2 DEF PositionAt
<1>4. TypeOK'
  BY <1>1, <1>2 DEF TypeOK, RecordWords
<1>5. WriterInv'
  BY <1>1, <1>2 DEF WriterInv, Pushing, PushBegin, RecordWords
<1>6. WindowIntact'
  BY <1>1, <1>2 DEF WindowIntact
<1>7. \A s \in Nat : \A x : HeldSince(s, x) => HeldSince(s, x)'
  BY <1>1, <1>2, <1>3 DEF HeldSince, index_for
<1>8. SlotsOnlyAdvance'
  BY <1>1, <1>7 DEF SlotsOnlyAdvance, index_for
<1>9. ReaderInv'
  BY <1>1 DEF ReaderInv
<1>10. LookupComplete'
  BY <1>1, <1>2 DEF LookupComplete, ReaderInv, TypeOK
<1>11. AnswersHeld'
  BY <1>1, <1>7 DEF AnswersHeld, TypeOK
<1> QED
  BY <1>4, <1>5, <1>6, <1>8, <1>9, <1>10, <1>11

\* Storing the sequence number of the claimed message disturbs no message of
\* the window: they are all less than a lap older.
LEMMA PushStoreSeqInv ==
  ASSUME RingInv, PushStoreSeq
  PROVE  RingInv'
<1> USE BufferAssumption DEF RingInv
<1> DEFINE i == index_for(Len(log))
<1>1. /\ log \in Seq(Nat) /\ write_seq \in Nat
      /\ Len(log) = write_seq + 1 /\ Len(log) \in Nat
      /\ slotSeq \in [Indices -> Nat] /\ i \in Indices
  <2>1. log \in Seq(Nat) /\ write_seq \in Nat /\ Len(log) \in Nat
    BY DEF TypeOK
  <2>2. Len(log) = write_seq + 1
    BY <2>1 DEF PushStoreSeq, WriterInv, Pushing
  <2> QED
    BY <2>1, <2>2, IndexInRange DEF TypeOK
<1>2. /\ slotSeq' = [slotSeq EXCEPT ![i] = Len(log)]
      /\ pending' = pending \ {"sequence_number"}
      /\ UNCHANGED <<slotPos, write_seq, log, rpc, seq_num, current, answer>>
  BY DEF PushStoreSeq, readerVars
<1>3. TypeOK'
  BY <1>1, <1>2 DEF TypeOK
<1>4. WriterInv'
  BY <1>1, <1>2 DEF WriterInv, Pushing, index_for
<1>5. \A s \in 1 .. write_seq : Len(log) < s + BufferSize =>
        slotSeq'[index_for(s)] = slotSeq[index_for(s)]
  BY <1>1, <1>2, IndexInRange, IndexDistinct
<1>6. WindowIntact'
  BY <1>2, <1>5 DEF WindowIntact, index_for
<1>7. SlotsOnlyAdvance' /\ AnswersHeld'
  BY <1>2 DEF SlotsOnlyAdvance, HeldSince, AnswersHeld, PositionAt,
              index_for
<1>8. ReaderInv' /\ LookupComplete'
  BY <1>2 DEF ReaderInv, LookupComplete
<1> QED
  BY <1>3, <1>4, <1>6, <1>7, <1>8

\* Likewise for its file position.
LEMMA PushStorePosInv ==
  ASSUME RingInv, PushStorePos
  PROVE  RingInv'
<1> USE BufferAssumption DEF RingInv
<1> DEFINE i == index_for(Len(log))
<1>1. /\ log \in Seq(Nat) /\ write_seq \in Nat
      /\ Len(log) = write_seq + 1 /\ Len(log) \in Nat
      /\ slotPos \in [Indices -> Nat] /\ i \in Indices
      /\ log[Len(log)] \in Nat
  <2>1. log \in Seq(Nat) /\ write_seq \in Nat /\ Len(log) \in Nat
    BY DEF TypeOK
  <2>2. Len(log) = write_seq + 1
    BY <2>1 DEF PushStorePos, WriterInv, Pushing
  <2>3. log[Len(log)] \in Nat
    BY <2>1, <2>2
  <2> QED
    BY <2>1, <2>2, <2>3, IndexInRange DEF TypeOK
<1>2. /\ slotPos' = [slotPos EXCEPT ![i] = log[Len(log)]]
      /\ pending' = pending \ {"file_position"}
      /\ UNCHANGED <<slotSeq, write_seq, log, rpc, seq_num, current, answer>>
  BY DEF PushStorePos, readerVars
<1>3. TypeOK'
  BY <1>1, <1>2 DEF TypeOK
<1>4. WriterInv'
  BY <1>1, <1>2 DEF WriterInv, Pushing, index_for
<1>5. \A s \in 1 .. write_seq : Len(log) < s + BufferSize =>
        slotPos'[index_for(s)] = slotPos[index_for(s)]
  BY <1>1, <1>2, IndexInRange, IndexDistinct
<1>6. WindowIntact'
  BY <1>2, <1>5 DEF WindowIntact, index_for
<1>7. ASSUME NEW s \in 0 .. write_seq
      PROVE  HeldSince(s, slotPos'[index_for(s)])
  <2>1. s \in Nat /\ index_for(s) \in Indices /\ Len(log) \in s .. Len(log)
    BY <1>1, IndexInRange
  <2>2. CASE index_for(s) = i
    BY <1>1, <1>2, <2>1, <2>2 DEF HeldSince, PositionAt
  <2>3. CASE index_for(s) # i
    BY <1>1, <1>2, <2>1, <2>3 DEF SlotsOnlyAdvance
  <2> QED
    BY <2>2, <2>3
<1>8. SlotsOnlyAdvance'
  <2> SUFFICES ASSUME NEW s \in 0 .. write_seq
               PROVE  HeldSince(s, slotPos[index_for(s)])'
    BY <1>2 DEF SlotsOnlyAdvance
  <2> QED
    BY <1>2, <1>7 DEF HeldSince, PositionAt, index_for
<1>9. ReaderInv' /\ LookupComplete' /\ AnswersHeld'
  BY <1>2 DEF ReaderInv, LookupComplete, AnswersHeld, HeldSince,
              PositionAt, index_for
<1> QED
  BY <1>3, <1>4, <1>6, <1>8, <1>9

\* Publishing adds one message to the window, and both its words are stored.
LEMMA PushPublishInv ==
  ASSUME RingInv, PushPublish
  PROVE  RingInv'
<1> USE BufferAssumption DEF RingInv
<1>1. /\ log \in Seq(Nat) /\ write_seq \in Nat /\ Len(log) \in Nat
      /\ write_seq' = Len(log) /\ Len(log) = write_seq + 1
      /\ slotSeq[index_for(Len(log))] = Len(log)
      /\ slotPos[index_for(Len(log))] = log[Len(log)]
  <2>1. log \in Seq(Nat) /\ write_seq \in Nat /\ Len(log) \in Nat
    BY DEF TypeOK
  <2> QED
    BY <2>1 DEF PushPublish, WriterInv, Pushing
<1>2. UNCHANGED <<slotSeq, slotPos, log, pending, rpc, seq_num, current, answer>>
      /\ pending = {}
  BY DEF PushPublish, readerVars
<1>3. TypeOK'
  BY <1>1, <1>2 DEF TypeOK
<1>4. WriterInv'
  BY <1>1, <1>2 DEF WriterInv, Pushing
<1>5. WindowIntact'
  <2>1. \A s \in 1 .. write_seq' : s \in 1 .. write_seq \/ s = Len(log)
    BY <1>1
  <2>2. \A s \in 1 .. write_seq' : Len(log) < s + BufferSize =>
          slotSeq[index_for(s)] = s /\ slotPos[index_for(s)] = log[s]
    BY <1>1, <2>1 DEF WindowIntact
  <2> QED
    BY <1>2, <2>2 DEF WindowIntact, index_for
<1>6. HeldSince(Len(log), slotPos[index_for(Len(log))])
  BY <1>1 DEF HeldSince, PositionAt
<1>7. SlotsOnlyAdvance'
  <2>1. \A s \in 0 .. write_seq' : s \in 0 .. write_seq \/ s = Len(log)
    BY <1>1
  <2>2. \A s \in 0 .. write_seq' : HeldSince(s, slotPos[index_for(s)])
    BY <1>6, <2>1 DEF SlotsOnlyAdvance
  <2> QED
    BY <1>2, <2>2 DEF SlotsOnlyAdvance, HeldSince, PositionAt, index_for
<1>8. ReaderInv'
  BY <1>1, <1>2 DEF ReaderInv, TypeOK
<1>9. LookupComplete' /\ AnswersHeld'
  BY <1>2 DEF LookupComplete, AnswersHeld, HeldSince, PositionAt, index_for
<1> QED
  BY <1>3, <1>4, <1>5, <1>7, <1>8, <1>9

-----------------------------------------------------------------------------
\* The actions of a reader leave the ring itself alone.
LEMMA WriterPartUnchanged ==
  ASSUME RingInv, UNCHANGED writerVars
  PROVE  /\ WriterInv' /\ WindowIntact' /\ SlotsOnlyAdvance'
         /\ \A s, x : HeldSince(s, x)' <=> HeldSince(s, x)
<1>1. UNCHANGED <<slotSeq, slotPos, write_seq, log, pending>>
  BY DEF writerVars
<1>2. WriterInv' /\ WindowIntact'
  BY <1>1 DEF RingInv, WriterInv, WindowIntact, Pushing, index_for
<1>3. \A s, x : HeldSince(s, x)' <=> HeldSince(s, x)
  BY <1>1 DEF HeldSince, PositionAt, index_for
<1>4. SlotsOnlyAdvance'
  BY <1>1, <1>3 DEF RingInv, SlotsOnlyAdvance, index_for
<1> QED
  BY <1>2, <1>3, <1>4

\* file_position_for() begins: an early return is right to give std::nullopt,
\* because a message of the window is in range.
LEMMA LookupLoadInv ==
  ASSUME NEW r \in Readers, NEW s \in SequenceNumber, RingInv, LookupLoad(r, s)
  PROVE  RingInv'
<1> USE BufferAssumption DEF RingInv
<1>1. /\ s \in Nat /\ write_seq \in Nat /\ log \in Seq(Nat) /\ Len(log) \in Nat
      /\ write_seq <= Len(log) /\ Len(log) <= MaxSeq
  BY DEF SequenceNumber, TypeOK, WriterInv
<1>2. /\ seq_num' = [seq_num EXCEPT ![r] = s]
      /\ current' = [current EXCEPT ![r] = write_seq]
      /\ answer' = [answer EXCEPT ![r] = Nullopt]
      /\ rpc' = [rpc EXCEPT ![r] =
                   IF OutOfRange(s, write_seq) THEN "returned" ELSE "compare"]
      /\ UNCHANGED writerVars
      /\ UNCHANGED <<slotSeq, slotPos, write_seq, log, pending>>
  BY DEF LookupLoad, writerVars
<1>3. WriterInv' /\ WindowIntact' /\ SlotsOnlyAdvance'
  BY <1>2, WriterPartUnchanged
<1>4. TypeOK'
  BY <1>1, <1>2 DEF TypeOK
<1>5. s \in 1 .. write_seq /\ Len(log) < s + BufferSize
        => ~OutOfRange(s, write_seq)
  <2> SUFFICES ASSUME s \in 1 .. write_seq, Len(log) < s + BufferSize
               PROVE  ~OutOfRange(s, write_seq)
    OBVIOUS
  <2>1. (s + BufferSize) % SeqMod = s + BufferSize
    <3>1. s + BufferSize \in Nat /\ s + BufferSize < SeqMod
      BY <1>1
    <3> QED
      BY <3>1, NoWrap
  <2> QED
    BY <1>1, <2>1 DEF OutOfRange, Overwritten
<1>6. ~OutOfRange(s, write_seq) => s <= write_seq
  BY <1>1 DEF OutOfRange
<1>7. ReaderInv'
  BY <1>1, <1>2, <1>6 DEF ReaderInv, TypeOK
<1>8. LookupComplete'
  BY <1>1, <1>2, <1>5 DEF LookupComplete, TypeOK
<1>9. AnswersHeld'
  BY <1>2, WriterPartUnchanged DEF AnswersHeld, TypeOK
<1> QED
  BY <1>3, <1>4, <1>7, <1>8, <1>9

\* The comparison succeeds for a message of the window.
LEMMA LookupCompareInv ==
  ASSUME NEW r \in Readers, RingInv, LookupCompare(r)
  PROVE  RingInv'
<1> USE BufferAssumption DEF RingInv
<1>1. /\ rpc[r] = "compare"
      /\ rpc' = [rpc EXCEPT ![r] =
                   IF slotSeq[index_for(seq_num[r])] # seq_num[r]
                   THEN "returned" ELSE "fetch"]
      /\ UNCHANGED <<seq_num, current, answer>>
      /\ UNCHANGED writerVars
      /\ UNCHANGED <<slotSeq, slotPos, write_seq, log, pending>>
  BY DEF LookupCompare, writerVars
<1>2. /\ answer[r] = Nullopt /\ seq_num[r] \in Nat
      /\ seq_num[r] <= write_seq /\ write_seq \in Nat
  BY <1>1 DEF ReaderInv, TypeOK
<1>3. WriterInv' /\ WindowIntact' /\ SlotsOnlyAdvance'
  BY <1>1, WriterPartUnchanged
<1>4. TypeOK' /\ ReaderInv'
  BY <1>1 DEF TypeOK, ReaderInv
<1>5. LookupComplete'
  BY <1>1, <1>2 DEF LookupComplete, WindowIntact, TypeOK
<1>6. AnswersHeld'
  BY <1>1, <1>2, WriterPartUnchanged DEF AnswersHeld, TypeOK
<1> QED
  BY <1>3, <1>4, <1>5, <1>6

\* The position fetched is what the slot holds now, torn or not.
LEMMA LookupFetchInv ==
  ASSUME NEW r \in Readers, RingInv, LookupFetch(r)
  PROVE  RingInv'
<1> USE BufferAssumption DEF RingInv
<1>1. /\ rpc[r] = "fetch"
      /\ answer' = [answer EXCEPT ![r] = slotPos[index_for(seq_num[r])]]
      /\ rpc' = [rpc EXCEPT ![r] = "returned"]
      /\ UNCHANGED <<seq_num, current>>
      /\ UNCHANGED writerVars
      /\ UNCHANGED <<slotSeq, slotPos, write_seq, log, pending>>
  BY DEF LookupFetch, writerVars
<1>2. /\ seq_num[r] \in 0 .. write_seq /\ seq_num[r] \in Nat
      /\ slotPos[index_for(seq_num[r])] \in Nat
  BY <1>1, IndexInRange DEF ReaderInv, TypeOK
<1>3. WriterInv' /\ WindowIntact' /\ SlotsOnlyAdvance'
  BY <1>1, WriterPartUnchanged
<1>4. TypeOK' /\ ReaderInv'
  BY <1>1, <1>2 DEF TypeOK, ReaderInv
<1>5. LookupComplete'
  BY <1>1, <1>2 DEF LookupComplete, WindowIntact, TypeOK
<1>6. HeldSince(seq_num[r], slotPos[index_for(seq_num[r])])
  BY <1>2 DEF SlotsOnlyAdvance
<1>7. AnswersHeld'
  BY <1>1, <1>6, WriterPartUnchanged DEF AnswersHeld, TypeOK
<1> QED
  BY <1>3, <1>4, <1>5, <1>7

-----------------------------------------------------------------------------
\* Every step of the writer or a reader preserves the invariant.
LEMMA RingStep == RingInv /\ [BufferNext]_bufferVars => RingInv'
<1> SUFFICES ASSUME RingInv, [BufferNext]_bufferVars PROVE RingInv'
  OBVIOUS
<1>1. ASSUME NEW pos \in Positions, PushBegin(pos) PROVE RingInv'
  BY <1>1, PushBeginInv
<1>2. CASE PushStoreSeq
  BY <1>2, PushStoreSeqInv
<1>3. CASE PushStorePos
  BY <1>3, PushStorePosInv
<1>4. CASE PushPublish
  BY <1>4, PushPublishInv
<1>5. ASSUME NEW r \in Readers, NEW s \in SequenceNumber, LookupLoad(r, s)
      PROVE RingInv'
  BY <1>5, LookupLoadInv
<1>6. ASSUME NEW r \in Readers, LookupCompare(r) PROVE RingInv'
  BY <1>6, LookupCompareInv
<1>7. ASSUME NEW r \in Readers, LookupFetch(r) PROVE RingInv'
  BY <1>7, LookupFetchInv
<1>8. CASE UNCHANGED bufferVars
  <2>1. UNCHANGED writerVars /\ UNCHANGED readerVars
    BY <1>8 DEF bufferVars
  <2>2. TypeOK' /\ ReaderInv' /\ LookupComplete' /\ AnswersHeld'
    BY <2>1, WriterPartUnchanged
    DEF RingInv, TypeOK, ReaderInv, LookupComplete, AnswersHeld,
        writerVars, readerVars
  <2> QED
    BY <2>1, <2>2, WriterPartUnchanged DEF RingInv
<1> QED
  BY <1>1, <1>2, <1>3, <1>4, <1>5, <1>6, <1>7, <1>8
  DEF BufferNext, Push, Lookup

\* The ring's invariant holds in every state of every execution of push() and
\* file_position_for().
THEOREM RingInvariant == BufferSpec => []RingInv
<1>1. BufferInit => RingInv
  BY RingInit
<1>2. RingInv /\ [BufferNext]_bufferVars => RingInv'
  BY RingStep
<1> QED
  BY <1>1, <1>2, PTL DEF BufferSpec

\* Type correctness of the ring's and its readers' state.
THEOREM TypeCorrect == BufferSpec => []TypeOK
<1>1. RingInv => TypeOK
  BY DEF RingInv
<1> QED
  BY <1>1, RingInvariant, PTL

\* RetransmissionBuffer keeps the last buffer_size messages, whatever the
\* readers do and wherever the writer is in push().
THEOREM WindowIsIntact == BufferSpec => []WindowIntact
<1>1. RingInv => WindowIntact
  BY DEF RingInv
<1> QED
  BY <1>1, RingInvariant, PTL

\* file_position_for() answers correctly for a message that stays in the
\* window for the whole call.
THEOREM LookupIsComplete == BufferSpec => []LookupComplete
<1>1. RingInv => LookupComplete
  BY DEF RingInv
<1> QED
  BY <1>1, RingInvariant, PTL

\* A torn read of file_position_for() can only yield a message of the same
\* slot, a whole number of laps later.
THEOREM LookupIsWithinLaps == BufferSpec => []LookupWithinLaps
<1>1. RingInv => LookupWithinLaps
  <2> SUFFICES ASSUME RingInv, NEW r \in Readers, rpc[r] = "returned",
                      answer[r] # Nullopt, seq_num[r] # 0
               PROVE  HeldByLater(seq_num[r], answer[r])
    BY DEF LookupWithinLaps
  <2>1. HeldSince(seq_num[r], answer[r]) /\ seq_num[r] \in Nat /\ log \in Seq(Nat)
    BY DEF RingInv, AnswersHeld, TypeOK
  <2>2. PICK t \in seq_num[r] .. Len(log) :
          index_for(t) = index_for(seq_num[r]) /\ answer[r] = PositionAt(t)
    BY <2>1 DEF HeldSince
  <2>3. t # 0
    BY <2>1, <2>2
  <2> QED
    BY <2>2, <2>3 DEF HeldByLater, PositionAt
<1> QED
  BY <1>1, RingInvariant, PTL

=============================================================================
