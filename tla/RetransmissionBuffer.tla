------------------------ MODULE RetransmissionBuffer ------------------------
(***************************************************************************)
(* The ring of imr::mold::RetransmissionBuffer: one writer (the downstream *)
(* feed) and any number of readers (the retransmission feeds), without a   *)
(* lock.  Every action below makes exactly one access to shared memory, so *)
(* the interleavings of the model are those of the threads.                *)
(*                                                                         *)
(* A MessageRecord is two words.  push() copies them into the slot with    *)
(* plain stores, in whichever order the compiler emits, and then stores    *)
(* write_seq_; file_position_for() loads write_seq_, then the slot's       *)
(* sequence number, then its file position.  The plain accesses race, so   *)
(* a reader may see any mixture of the words of the old and new record.    *)
(***************************************************************************)
EXTENDS Integers, Sequences

CONSTANTS
  Readers,     \* the retransmission feed threads
  BufferSize,  \* buffer_.size()
  Positions,   \* file positions the writer may push
  SeqMod,      \* 2^64: sequence numbers are uint64_t
  MaxSeq,      \* bound: number of messages pushed
  Nullopt      \* std::nullopt

\* The constructor throws for a size of 0; a session does not reach the end
\* of the 64-bit sequence numbers.
ASSUME BufferAssumption ==
  /\ BufferSize \in Nat \ {0}
  /\ Positions \subseteq Nat
  /\ MaxSeq \in Nat
  /\ SeqMod \in Nat
  /\ MaxSeq + BufferSize < SeqMod
  /\ Nullopt \notin Nat

SequenceNumber == 0 .. SeqMod - 1
Indices == 0 .. BufferSize - 1
RecordWords == {"sequence_number", "file_position"}

VARIABLES
  slotSeq,    \* buffer_[i].sequence_number
  slotPos,    \* buffer_[i].file_position
  write_seq,  \* write_seq_
  log,        \* log[s] = file position handed to push() for s (history)
  pending,    \* words of the record being pushed that are not stored yet
  rpc,        \* where each reader is in file_position_for()
  seq_num,    \* the argument of its call
  current,    \* current_seq_num, the value it loaded from write_seq_
  answer      \* what the call returned

writerVars == <<slotSeq, slotPos, write_seq, log, pending>>
readerVars == <<rpc, seq_num, current, answer>>
bufferVars == <<writerVars, readerVars>>

-----------------------------------------------------------------------------
\* Mutant: the mask or divisor is one too small.
index_for_small(s) == s % (BufferSize - 1)

\* mask_ or division: both are the remainder (checked in IndexMask).
index_for(s) == s % BufferSize

\* buffer_.resize() value-initialises the records: sequence number 0 at
\* file position 0 in every slot.
BufferInit ==
  /\ slotSeq = [i \in Indices |-> 0]
  /\ slotPos = [i \in Indices |-> 0]
  /\ write_seq = 0
  /\ log = <<>>
  /\ pending = {}
  /\ rpc = [r \in Readers |-> "idle"]
  /\ seq_num = [r \in Readers |-> 0]
  /\ current = [r \in Readers |-> 0]
  /\ answer = [r \in Readers |-> Nullopt]

-----------------------------------------------------------------------------
(* push(), called with consecutive sequence numbers from 1 on. *)

Pushing == write_seq # Len(log)

PushBegin(pos) ==
  /\ ~Pushing
  /\ Len(log) < MaxSeq
  /\ log' = Append(log, pos)
  /\ pending' = RecordWords
  /\ UNCHANGED <<slotSeq, slotPos, write_seq, readerVars>>

PushStoreSeq ==
  /\ "sequence_number" \in pending
  /\ slotSeq' = [slotSeq EXCEPT ![index_for(Len(log))] = Len(log)]
  /\ pending' = pending \ {"sequence_number"}
  /\ UNCHANGED <<slotPos, write_seq, log, readerVars>>

PushStorePos ==
  /\ "file_position" \in pending
  /\ slotPos' = [slotPos EXCEPT ![index_for(Len(log))] = log[Len(log)]]
  /\ pending' = pending \ {"file_position"}
  /\ UNCHANGED <<slotSeq, write_seq, log, readerVars>>

\* Mutant: write_seq_ is stored without waiting for the record (relaxed).
PushPublishEarly ==
  /\ Pushing
  /\ write_seq' = Len(log)
  /\ UNCHANGED <<slotSeq, slotPos, log, pending, readerVars>>

\* The release store: it is not reordered before the two plain stores.
PushPublish ==
  /\ Pushing
  /\ pending = {}
  /\ write_seq' = Len(log)
  /\ UNCHANGED <<slotSeq, slotPos, log, pending, readerVars>>

-----------------------------------------------------------------------------
(* file_position_for(s), called by reader r. *)

\* Mutant: the oldest message of the buffer counts as overwritten.
OverwrittenEarly(s, cur) == (s + BufferSize) % SeqMod <= cur + 1

\* seq_num + buffer_.size() <= current_seq_num in 64-bit arithmetic.
Overwritten(s, cur) == (s + BufferSize) % SeqMod <= cur
OutOfRange(s, cur) == Overwritten(s, cur) \/ s > cur \/ cur = 0

LookupLoad(r, s) ==
  /\ rpc[r] \in {"idle", "returned"}
  /\ seq_num' = [seq_num EXCEPT ![r] = s]
  /\ current' = [current EXCEPT ![r] = write_seq]
  /\ answer' = [answer EXCEPT ![r] = Nullopt]
  /\ rpc' = [rpc EXCEPT ![r] =
               IF OutOfRange(s, write_seq) THEN "returned" ELSE "compare"]
  /\ UNCHANGED writerVars

LookupCompare(r) ==
  /\ rpc[r] = "compare"
  /\ rpc' = [rpc EXCEPT ![r] =
               IF slotSeq[index_for(seq_num[r])] # seq_num[r]
               THEN "returned" ELSE "fetch"]
  /\ UNCHANGED <<writerVars, seq_num, current, answer>>

LookupFetch(r) ==
  /\ rpc[r] = "fetch"
  /\ answer' = [answer EXCEPT ![r] = slotPos[index_for(seq_num[r])]]
  /\ rpc' = [rpc EXCEPT ![r] = "returned"]
  /\ UNCHANGED <<writerVars, seq_num, current>>

-----------------------------------------------------------------------------
\* Messages are pushed in file order, so positions increase.
NextPosition(pos) == \A k \in 1 .. Len(log) : log[k] < pos

Push ==
  \/ \E pos \in Positions : NextPosition(pos) /\ PushBegin(pos)
  \/ PushStoreSeq
  \/ PushStorePos
  \/ PushPublish

Lookup(r) ==
  \/ \E s \in SequenceNumber : LookupLoad(r, s)
  \/ LookupCompare(r)
  \/ LookupFetch(r)

BufferNext == Push \/ \E r \in Readers : Lookup(r)

BufferSpec == BufferInit /\ [][BufferNext]_bufferVars

-----------------------------------------------------------------------------
(* Properties. *)

TypeOK ==
  /\ slotSeq \in [Indices -> Nat]
  /\ slotPos \in [Indices -> Nat]
  /\ write_seq \in Nat
  /\ log \in Seq(Nat)
  /\ pending \in SUBSET RecordWords
  /\ rpc \in [Readers -> {"idle", "compare", "fetch", "returned"}]
  /\ seq_num \in [Readers -> Nat]
  /\ current \in [Readers -> Nat]
  /\ answer \in [Readers -> Nat \cup {Nullopt}]

\* The buffer keeps the last messages: a published message whose slot no push
\* has claimed yet is in the buffer with both its words, also while the
\* writer is half way through a later push().
WindowIntact ==
  \A s \in 1 .. write_seq :
    Len(log) < s + BufferSize =>
      /\ slotSeq[index_for(s)] = s
      /\ slotPos[index_for(s)] = log[s]

\* file_position_for() finds what it should: if the message had been published
\* when the call began and its slot is still unclaimed when the call has
\* returned, the call returned that message's position (no spurious
\* std::nullopt, no torn record), however many pushes ran meanwhile.
LookupComplete ==
  \A r \in Readers :
    (/\ rpc[r] = "returned"
     /\ seq_num[r] \in 1 .. current[r]
     /\ Len(log) < seq_num[r] + BufferSize)
      => answer[r] = log[seq_num[r]]

\* pos is the position of message s or of one that later took its slot.
HeldByLater(s, pos) ==
  \E t \in s .. Len(log) : index_for(t) = index_for(s) /\ pos = log[t]

\* The damage a torn read of file_position_for() can do is bounded: a position
\* it returns is the one asked for or that of a message a whole number of
\* laps later, never garbage and never an earlier message; a number beyond the
\* last one pushed gets std::nullopt.  (NeverPushedIsNullopt is about 0.)
LookupWithinLaps ==
  \A r \in Readers :
    rpc[r] = "returned" /\ answer[r] # Nullopt /\ seq_num[r] # 0
      => HeldByLater(seq_num[r], answer[r])

\* retransmission_buffer.h:34 says that a number that is not in the buffer
\* gets std::nullopt; one that was never pushed, then, does.
NeverPushedIsNullopt ==
  \A r \in Readers :
    rpc[r] = "returned" /\ seq_num[r] \notin 1 .. Len(log) => answer[r] = Nullopt

\* retransmission_buffer.cpp:54 says the comparison of the entry's sequence
\* number detects a writer that lapped the reader: a position returned for a
\* pushed message would then be the position of that message.
LapDetected ==
  \A r \in Readers :
    rpc[r] = "returned" /\ answer[r] # Nullopt /\ seq_num[r] \in 1 .. Len(log)
      => answer[r] = log[seq_num[r]]

=============================================================================
