-------------------------- MODULE MemoryMappedFile --------------------------
(***************************************************************************)
(* The owning objects imr::util::FileDescriptor and                        *)
(* imr::util::MemoryMappedFile, and what they own in the kernel: open      *)
(* descriptors, whose numbers are reused as soon as they are free, and     *)
(* mappings.  Objects are constructed, moved from, assigned to and         *)
(* destroyed in any order a program may do it in.  A MemoryMappedFile has  *)
(* a FileDescriptor as a member; fd_ is the number either of them holds.   *)
(***************************************************************************)
EXTENDS Integers

CONSTANTS
  Descriptors,  \* places where a FileDescriptor may live
  MappedFiles,  \* places where a MemoryMappedFile may live
  Numbers,      \* descriptor numbers
  Addresses,    \* where a file may be mapped
  Sizes,        \* sizes of files in bytes
  nullptr

ASSUME HandleAssumption ==
  /\ Descriptors \cap MappedFiles = {}
  /\ Numbers \subseteq Nat
  /\ Sizes \subseteq Nat \ {0}
  /\ nullptr \notin Addresses

VARIABLES
  alive,         \* the objects that exist
  fd_,           \* the number each holds, -1 for none
  mapped_file_,  \* the mapping each MemoryMappedFile holds
  length_,       \* and its length
  open,          \* the kernel's open descriptors
  mapped,        \* how many bytes are mapped at an address
  left           \* mappings a constructor that threw left behind (history)

kernelVars == <<open, mapped>>
mappingVars == <<mapped_file_, length_>>
vars == <<alive, fd_, mappingVars, kernelVars, left>>

Handles == Descriptors \cup MappedFiles

Init ==
  /\ alive = {}
  /\ fd_ = [h \in Handles |-> -1]
  /\ mapped_file_ = [m \in MappedFiles |-> nullptr]
  /\ length_ = [m \in MappedFiles |-> 0]
  /\ open = {}
  /\ mapped = [a \in Addresses |-> 0]
  /\ left = {}

-----------------------------------------------------------------------------
(* The kernel. *)

\* open(), socket() and the like return the lowest number that is free.
Lowest(n) ==
  /\ n \in Numbers \ open
  /\ \A k \in Numbers \ open : n <= k

\* close() of a number that is not open fails and changes nothing.
Closed(n) == open \ {n}

\* munmap() of the first n bytes at an address.
Unmapped(a, n) ==
  IF a = nullptr THEN mapped ELSE [mapped EXCEPT ![a] = IF n < @ THEN @ - n ELSE 0]

-----------------------------------------------------------------------------
(* FileDescriptor. *)

ConstructEmpty(d) ==
  /\ d \notin alive
  /\ alive' = alive \cup {d}
  /\ UNCHANGED <<fd_, mappingVars, kernelVars, left>>

\* The constructors that take a path, a call or a number just obtained; one
\* that fails throws, and leaves no object and nothing open.
OpenDescriptor(d) ==
  /\ d \notin alive
  /\ \E number \in Numbers :
       /\ Lowest(number)
       /\ fd_' = [fd_ EXCEPT ![d] = number]
       /\ open' = open \cup {number}
  /\ alive' = alive \cup {d}
  /\ UNCHANGED <<mappingVars, mapped, left>>

\* Mutant: the source keeps its number.
MoveConstructKeeps(d, other) ==
  /\ d \notin alive
  /\ other \in alive
  /\ alive' = alive \cup {d}
  /\ fd_' = [fd_ EXCEPT ![d] = fd_[other]]
  /\ UNCHANGED <<mappingVars, kernelVars, left>>

MoveConstruct(d, other) ==
  /\ d \notin alive
  /\ other \in alive
  /\ alive' = alive \cup {d}
  /\ fd_' = [fd_ EXCEPT ![d] = fd_[other], ![other] = -1]
  /\ UNCHANGED <<mappingVars, kernelVars, left>>

\* operator=; assignment to itself does nothing.
MoveAssign(d, other) ==
  /\ {d, other} \subseteq alive
  /\ d # other
  /\ open' = Closed(fd_[d])
  /\ fd_' = [fd_ EXCEPT ![d] = fd_[other], ![other] = -1]
  /\ UNCHANGED <<alive, mappingVars, mapped, left>>

Destroy(d) ==
  /\ d \in alive
  /\ alive' = alive \ {d}
  /\ open' = Closed(fd_[d])
  /\ fd_' = [fd_ EXCEPT ![d] = -1]
  /\ UNCHANGED <<mappingVars, mapped, left>>

-----------------------------------------------------------------------------
(* MemoryMappedFile. *)

Unused == {a \in Addresses : mapped[a] = 0}

\* The file is opened, mapped and advised on.  If it cannot be opened or
\* mapped the constructor throws and its descriptor is closed again.
MapFile(m) ==
  /\ m \notin alive
  /\ \E number \in Numbers :
       /\ Lowest(number)
       /\ fd_' = [fd_ EXCEPT ![m] = number]
       /\ open' = open \cup {number}
  /\ \E a \in Unused, n \in Sizes :
       /\ mapped' = [mapped EXCEPT ![a] = n]
       /\ mapped_file_' = [mapped_file_ EXCEPT ![m] = a]
       /\ length_' = [length_ EXCEPT ![m] = n]
  /\ alive' = alive \cup {m}
  /\ UNCHANGED left

\* madvise() fails: the constructor throws, so that fd_ is destroyed and the
\* destructor, which would unmap the file, is not run.
MapFileNotAdvised(m) ==
  /\ m \notin alive
  /\ Numbers \ open # {}
  /\ \E a \in Unused, n \in Sizes :
       /\ mapped' = [mapped EXCEPT ![a] = n]
       /\ left' = left \cup {a}
  /\ UNCHANGED <<alive, fd_, mappingVars, open>>

\* Mutant: the length is exchanged for -1, as the number is.
TakeOverNegative(m, other) ==
  /\ fd_' = [fd_ EXCEPT ![m] = fd_[other], ![other] = -1]
  /\ mapped_file_' = [mapped_file_ EXCEPT ![m] = mapped_file_[other],
                                          ![other] = nullptr]
  /\ length_' = [length_ EXCEPT ![m] = length_[other], ![other] = -1]

\* The members of other move to m.
TakeOver(m, other) ==
  /\ fd_' = [fd_ EXCEPT ![m] = fd_[other], ![other] = -1]
  /\ mapped_file_' = [mapped_file_ EXCEPT ![m] = mapped_file_[other],
                                          ![other] = nullptr]
  /\ length_' = [length_ EXCEPT ![m] = length_[other], ![other] = 0]

MapMoveConstruct(m, other) ==
  /\ m \notin alive
  /\ other \in alive
  /\ alive' = alive \cup {m}
  /\ TakeOver(m, other)
  /\ UNCHANGED <<kernelVars, left>>

\* Mutant: the old mapping is released after the members have been replaced.
MapMoveAssignLate(m, other) ==
  /\ {m, other} \subseteq alive
  /\ m # other
  /\ mapped' = Unmapped(mapped_file_[other], length_[other])
  /\ open' = Closed(fd_[m])
  /\ TakeOver(m, other)
  /\ UNCHANGED <<alive, left>>

\* cleanup() unmaps the file, then the assignment of fd_ closes the old one.
MapMoveAssign(m, other) ==
  /\ {m, other} \subseteq alive
  /\ m # other
  /\ mapped' = Unmapped(mapped_file_[m], length_[m])
  /\ open' = Closed(fd_[m])
  /\ TakeOver(m, other)
  /\ UNCHANGED <<alive, left>>

MapDestroy(m) ==
  /\ m \in alive
  /\ alive' = alive \ {m}
  /\ mapped' = Unmapped(mapped_file_[m], length_[m])
  /\ open' = Closed(fd_[m])
  /\ fd_' = [fd_ EXCEPT ![m] = -1]
  /\ mapped_file_' = [mapped_file_ EXCEPT ![m] = nullptr]
  /\ length_' = [length_ EXCEPT ![m] = 0]
  /\ UNCHANGED left

-----------------------------------------------------------------------------
Next ==
  \/ \E d \in Descriptors :
       \/ ConstructEmpty(d) \/ OpenDescriptor(d) \/ Destroy(d)
       \/ \E other \in Descriptors : MoveConstruct(d, other) \/ MoveAssign(d, other)
  \/ \E m \in MappedFiles :
       \/ MapFile(m) \/ MapFileNotAdvised(m) \/ MapDestroy(m)
       \/ \E other \in MappedFiles :
            MapMoveConstruct(m, other) \/ MapMoveAssign(m, other)

Spec == Init /\ [][Next]_vars

-----------------------------------------------------------------------------
(* Properties. *)

TypeOK ==
  /\ alive \subseteq Handles
  /\ fd_ \in [Handles -> Numbers \cup {-1}]
  /\ mapped_file_ \in [MappedFiles -> Addresses \cup {nullptr}]
  /\ length_ \in [MappedFiles -> Nat]
  /\ open \subseteq Numbers
  /\ mapped \in [Addresses -> Nat]
  /\ left \subseteq Addresses

\* The objects own their descriptors alone and lose none of them: a number a
\* live object holds is open and held by no other, so that closing it never
\* hits a descriptor that has got the number since; and every open descriptor
\* is held by a live object, so that none leaks.
DescriptorsOwnedOnce ==
  /\ \A h \in alive : fd_[h] \in open \cup {-1}
  /\ \A n \in open : \E h \in alive : fd_[h] = n
  /\ \A g, h \in alive : fd_[g] = fd_[h] /\ fd_[g] # -1 => g = h

\* The span a live object hands out is mapped to its last byte, and by no
\* other object; a moved-from object's span is empty; and nothing stays
\* mapped without an owner, except after a failed madvise().
MappingsOwnedOnce ==
  /\ \A m \in alive \cap MappedFiles :
       IF mapped_file_[m] = nullptr THEN length_[m] = 0
       ELSE mapped[mapped_file_[m]] = length_[m] /\ length_[m] > 0
  /\ \A a \in Addresses \ left : mapped[a] > 0 =>
       \E m \in alive \cap MappedFiles : mapped_file_[m] = a
  /\ \A l, m \in alive \cap MappedFiles :
       mapped_file_[l] = mapped_file_[m] /\ mapped_file_[l] # nullptr => l = m

=============================================================================
