SPECIFICATION Spec
CONSTANTS
  Descriptors = {d1, d2}
  MappedFiles = {m1, m2}
  Numbers = {0, 1, 2}
  Addresses = {a1, a2, a3}
  Sizes = {1, 2}
  nullptr = nullptr
INVARIANTS
  TypeOK
  DescriptorsOwnedOnce
  MappingsOwnedOnce
