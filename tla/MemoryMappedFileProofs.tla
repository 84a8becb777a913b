----------------------- MODULE MemoryMappedFileProofs -----------------------
(***************************************************************************)
(* Proofs that FileDescriptor and MemoryMappedFile own what they hold, for *)
(* any number of objects, descriptor numbers, addresses and file sizes.    *)
(***************************************************************************)
EXTENDS MemoryMappedFile, TLAPS

\* Ownership over all places, live or not: a place without an object holds
\* nothing.  The two properties speak of live objects only, and would not
\* survive the construction of an object in a place that still holds something.
DescriptorInv ==
  /\ \A h \in Handles : fd_[h] # -1 => h \in alive /\ fd_[h] \in open
  /\ \A n \in open : \E h \in Handles : fd_[h] = n
  /\ \A g, h \in Handles : fd_[g] = fd_[h] /\ fd_[g] # -1 => g = h

\* A mapping that was left behind is never handed out or unmapped again.
MappingInv ==
  /\ \A m \in MappedFiles : mapped_file_[m] # nullptr =>
       /\ m \in alive
       /\ mapped[mapped_file_[m]] = length_[m]
       /\ length_[m] > 0
       /\ mapped_file_[m] \notin left
  /\ \A m \in MappedFiles : mapped_file_[m] = nullptr => length_[m] = 0
  /\ \A a \in Addresses \ left : mapped[a] > 0 =>
       \E m \in MappedFiles : mapped_file_[m] = a
  /\ \A a \in left : mapped[a] > 0
  /\ \A l, m \in MappedFiles :
       mapped_file_[l] = mapped_file_[m] /\ mapped_file_[l] # nullptr => l = m

HandleInv == TypeOK /\ DescriptorInv /\ MappingInv

\* Nothing is constructed yet, and nothing is open or mapped.
LEMMA InvInit == Init => HandleInv
BY HandleAssumption
   DEF Init, HandleInv, TypeOK, DescriptorInv, MappingInv, Handles

\* A default-constructed FileDescriptor holds -1.
LEMMA ConstructEmptyInv ==
  ASSUME HandleInv, NEW d \in Descriptors, ConstructEmpty(d)
  PROVE  HandleInv'
BY HandleAssumption DEF HandleInv, TypeOK, DescriptorInv, MappingInv, Handles,
   ConstructEmpty, mappingVars, kernelVars

\* A descriptor just opened has a number no object holds.
LEMMA OpenDescriptorInv ==
  ASSUME HandleInv, NEW d \in Descriptors, OpenDescriptor(d)
  PROVE  HandleInv'
BY HandleAssumption DEF HandleInv, TypeOK, DescriptorInv, MappingInv, Handles,
   OpenDescriptor, Lowest, mappingVars, kernelVars

\* The number moves to the new object.
LEMMA MoveConstructInv ==
  ASSUME HandleInv, NEW d \in Descriptors, NEW other \in Descriptors,
         MoveConstruct(d, other)
  PROVE  HandleInv'
BY HandleAssumption DEF HandleInv, TypeOK, DescriptorInv, MappingInv, Handles,
   MoveConstruct, mappingVars, kernelVars

\* The old number is closed before the other one is taken over.
LEMMA MoveAssignInv ==
  ASSUME HandleInv, NEW d \in Descriptors, NEW other \in Descriptors,
         MoveAssign(d, other)
  PROVE  HandleInv'
<1>1. TypeOK' /\ MappingInv'
  BY HandleAssumption DEF HandleInv, TypeOK, MappingInv, Handles, MoveAssign,
     Closed, mappingVars
<1>2. DescriptorInv'
  BY HandleAssumption DEF HandleInv, TypeOK, DescriptorInv, Handles, MoveAssign,
     Closed
<1> QED
  BY <1>1, <1>2 DEF HandleInv

\* The number is closed and no longer held.
LEMMA DestroyInv ==
  ASSUME HandleInv, NEW d \in Descriptors, Destroy(d)
  PROVE  HandleInv'
<1>1. TypeOK' /\ MappingInv'
  BY HandleAssumption DEF HandleInv, TypeOK, MappingInv, Handles, Destroy,
     Closed, mappingVars
<1>2. DescriptorInv'
  BY HandleAssumption DEF HandleInv, TypeOK, DescriptorInv, Handles, Destroy,
     Closed
<1> QED
  BY <1>1, <1>2 DEF HandleInv

\* A file just mapped is at an address that was unused.
LEMMA MapFileInv ==
  ASSUME HandleInv, NEW m \in MappedFiles, MapFile(m)
  PROVE  HandleInv'
BY HandleAssumption DEF HandleInv, TypeOK, DescriptorInv, MappingInv, Handles,
   MapFile, Lowest, Unused

\* A mapping left behind is at an address no object holds.
LEMMA MapFileNotAdvisedInv ==
  ASSUME HandleInv, NEW m \in MappedFiles, MapFileNotAdvised(m)
  PROVE  HandleInv'
BY HandleAssumption DEF HandleInv, TypeOK, DescriptorInv, MappingInv, Handles,
   MapFileNotAdvised, Unused, mappingVars

\* munmap() leaves a number of bytes at every address.
LEMMA UnmappedType ==
  ASSUME mapped \in [Addresses -> Nat], NEW a \in Addresses \cup {nullptr},
         NEW n \in Nat
  PROVE  Unmapped(a, n) \in [Addresses -> Nat]
<1>1. CASE a = nullptr
  BY <1>1 DEF Unmapped
<1>2. CASE a # nullptr
  <2>1. mapped[a] \in Nat
    BY <1>2
  <2>2. (IF n < mapped[a] THEN mapped[a] - n ELSE 0) \in Nat
    BY <2>1
  <2> QED
    BY <1>2, <2>2 DEF Unmapped
<1> QED
  BY <1>1, <1>2

\* m gets the mapping of other, and other the empty one.
MembersMove(m, other) ==
  \A l \in MappedFiles :
    /\ mapped_file_'[l] = IF l = m THEN mapped_file_[other]
                          ELSE IF l = other THEN nullptr ELSE mapped_file_[l]
    /\ length_'[l] = IF l = m THEN length_[other]
                     ELSE IF l = other THEN 0 ELSE length_[l]

\* The std::exchange of both moves, for two different objects.
LEMMA TakeOverMoves ==
  ASSUME HandleInv, NEW m \in MappedFiles, NEW other \in MappedFiles,
         m # other, TakeOver(m, other)
  PROVE  MembersMove(m, other)
BY DEF TakeOver, HandleInv, TypeOK, MembersMove

\* Number and mapping move to the new object.
LEMMA MapMoveConstructInv ==
  ASSUME HandleInv, NEW m \in MappedFiles, NEW other \in MappedFiles,
         MapMoveConstruct(m, other)
  PROVE  HandleInv'
<1>1. TypeOK' /\ DescriptorInv'
  BY HandleAssumption DEF HandleInv, TypeOK, DescriptorInv, Handles,
     MapMoveConstruct, TakeOver, kernelVars
<1>2. MappingInv'
  <2>1. /\ m \notin alive /\ other \in alive /\ alive' = alive \cup {m}
        /\ mapped' = mapped /\ left' = left
        /\ TakeOver(m, other)
    BY DEF MapMoveConstruct, kernelVars
  <2>2. MembersMove(m, other)
    BY <2>1, TakeOverMoves
  <2>3. \A l \in MappedFiles : mapped_file_[l] \in Addresses \cup {nullptr}
    BY DEF HandleInv, TypeOK
  <2> QED
    BY <2>1, <2>2, <2>3, HandleAssumption
       DEF HandleInv, TypeOK, MappingInv, MembersMove
<1> QED
  BY <1>1, <1>2 DEF HandleInv

\* The old mapping and number are released, then the others taken over.
LEMMA MapMoveAssignInv ==
  ASSUME HandleInv, NEW m \in MappedFiles, NEW other \in MappedFiles,
         MapMoveAssign(m, other)
  PROVE  HandleInv'
<1>1. TypeOK'
  <2>1. mapped' \in [Addresses -> Nat]
    BY UnmappedType DEF HandleInv, TypeOK, MapMoveAssign
  <2> QED
    BY <2>1, HandleAssumption DEF HandleInv, TypeOK, Handles, MapMoveAssign,
       TakeOver, Closed
<1>2. DescriptorInv'
  BY HandleAssumption DEF HandleInv, TypeOK, DescriptorInv, Handles,
     MapMoveAssign, TakeOver, Closed
<1>3. MappingInv'
  <2>1. /\ m \in alive /\ other \in alive /\ m # other /\ alive' = alive
        /\ mapped' = Unmapped(mapped_file_[m], length_[m])
        /\ left' = left
        /\ TakeOver(m, other)
    BY DEF MapMoveAssign
  <2>2. MembersMove(m, other)
    BY <2>1, TakeOverMoves
  \* The old mapping of m is gone as a whole; all others are as they were.
  <2>3. \A a \in Addresses :
          mapped'[a] = IF a = mapped_file_[m] THEN 0 ELSE mapped[a]
    BY <2>1, HandleAssumption DEF Unmapped, HandleInv, TypeOK, MappingInv
  <2>4. \A l \in MappedFiles : mapped_file_[l] \in Addresses \cup {nullptr}
    BY DEF HandleInv, TypeOK
  <2> QED
    BY <2>1, <2>2, <2>3, <2>4, HandleAssumption
       DEF HandleInv, TypeOK, MappingInv, MembersMove
<1> QED
  BY <1>1, <1>2, <1>3 DEF HandleInv

\* Mapping and number are released.
LEMMA MapDestroyInv ==
  ASSUME HandleInv, NEW m \in MappedFiles, MapDestroy(m)
  PROVE  HandleInv'
<1>1. TypeOK'
  <2>1. mapped' \in [Addresses -> Nat]
    BY UnmappedType DEF HandleInv, TypeOK, MapDestroy
  <2> QED
    BY <2>1, HandleAssumption DEF HandleInv, TypeOK, Handles, MapDestroy, Closed
<1>2. DescriptorInv'
  BY HandleAssumption DEF HandleInv, TypeOK, DescriptorInv, Handles, MapDestroy,
     Closed
<1>3. MappingInv'
  <2>1. \A a \in Addresses :
          mapped'[a] = IF a = mapped_file_[m] THEN 0 ELSE mapped[a]
    BY HandleAssumption DEF MapDestroy, Unmapped, HandleInv, TypeOK, MappingInv
  <2> QED
    BY <2>1, HandleAssumption DEF HandleInv, TypeOK, MappingInv, MapDestroy
<1> QED
  BY <1>1, <1>2, <1>3 DEF HandleInv

-----------------------------------------------------------------------------
\* The inductive invariant holds in every state, whatever objects a program
\* constructs, moves, assigns and destroys.
THEOREM HandleInvariant == Spec => []HandleInv
<1>1. HandleInv /\ [Next]_vars => HandleInv'
  <2> SUFFICES ASSUME HandleInv, [Next]_vars
               PROVE  HandleInv'
    OBVIOUS
  <2>1. CASE UNCHANGED vars
    BY <2>1 DEF vars, mappingVars, kernelVars, HandleInv, TypeOK, DescriptorInv,
       MappingInv
  <2>2. ASSUME NEW d \in Descriptors,
               \/ ConstructEmpty(d) \/ OpenDescriptor(d) \/ Destroy(d)
               \/ \E other \in Descriptors :
                    MoveConstruct(d, other) \/ MoveAssign(d, other)
        PROVE  HandleInv'
    BY <2>2, ConstructEmptyInv, OpenDescriptorInv, DestroyInv, MoveConstructInv,
       MoveAssignInv
  <2>3. ASSUME NEW m \in MappedFiles,
               \/ MapFile(m) \/ MapFileNotAdvised(m) \/ MapDestroy(m)
               \/ \E other \in MappedFiles :
                    MapMoveConstruct(m, other) \/ MapMoveAssign(m, other)
        PROVE  HandleInv'
    BY <2>3, MapFileInv, MapFileNotAdvisedInv, MapDestroyInv, MapMoveConstructInv,
       MapMoveAssignInv
  <2> QED
    BY <2>1, <2>2, <2>3 DEF Next
<1> QED
  BY InvInit, <1>1, PTL DEF Spec

\* Descriptor numbers, addresses and lengths stay what they are declared as:
\* no length becomes negative and no descriptor but -1 is.
THEOREM HandlesTypeCorrect == Spec => []TypeOK
BY HandleInvariant, PTL DEF HandleInv

\* FileDescriptor's moves, assignments and destructor never close a
\* descriptor twice, close another's or leak one.
THEOREM DescriptorsAreOwnedOnce == Spec => []DescriptorsOwnedOnce
<1>1. HandleInv => DescriptorsOwnedOnce
  BY HandleAssumption
     DEF HandleInv, TypeOK, DescriptorInv, DescriptorsOwnedOnce, Handles
<1> QED
  BY HandleInvariant, <1>1, PTL

\* A live MemoryMappedFile's span is mapped as a whole and its own, and only a
\* failed madvise() leaves a mapping without an owner.
THEOREM MappingsAreOwnedOnce == Spec => []MappingsOwnedOnce
<1>1. HandleInv => MappingsOwnedOnce
  BY HandleAssumption DEF HandleInv, TypeOK, MappingInv, MappingsOwnedOnce
<1> QED
  BY HandleInvariant, <1>1, PTL

=============================================================================
